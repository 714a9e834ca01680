------------------------ MODULE SpeakerStates_proof ------------------------
(***************************************************************************)
(* Proofs about the top-level state machine, for every queue length and    *)
(* every burst of events.                                                  *)
(***************************************************************************)
EXTENDS SpeakerStates, TLAPS

USE QueueLenAssumption, BurstAssumption
(* Where bt_audio_deinit() is, and what its callers do after it, matters   *)
(* to most steps.                                                          *)
USE DEF Stopping, TearingDown, AfterDeinit

-----------------------------------------------------------------------------
(* Type correctness.  The helpers first: each returns a value of the type  *)
(* of the variable it is assigned to.                                      *)

(* push_event() keeps an event queue a queue of events within its capacity. *)
LEMMA OfferType ==
    ASSUME TypeOK, NEW e \in Events, Offer(e)
    PROVE  queue' \in Seq(Events) /\ Len(queue') <= QueueLen
BY DEF TypeOK, Offer

(* A timer that counts on is in a phase. *)
LEMMA OlderType ==
    ASSUME NEW p \in Phases
    PROVE  Older(p) \in Phases
BY DEF Older, Phases

(* on_enter blocks in one of the calls of the main task. *)
LEMMA EntryCallType ==
    ASSUME NEW s \in States
    PROVE  EntryCall(s) \in MainPC
BY DEF EntryCall, MainPC, LoopPC, CallPC

(* A change of state keeps the types and drops the locals of update(). *)
LEMMA ChangeStateType ==
    ASSUME TypeOK, NEW next \in States, sm_change_state(next)
    PROVE  /\ pc' \in MainPC
           /\ current_state' \in States
           /\ delay_ms' \in {DEFAULT_STATE_DELAY_MS, IDLE_DELAY_MS}
           /\ seen' = {}
           /\ bt_snapshot' = FALSE
           /\ timer' \in [TimedStates -> Phases]
           /\ timeout' \in [TimedStates -> BOOLEAN]
<1>1. pc' \in MainPC
  BY EntryCallType DEF sm_change_state
<1>2. Stopped(current_state) \in [TimedStates -> Phases]
  BY DEF TypeOK, Stopped, Phases
<1>3. timer' \in [TimedStates -> Phases] /\ timeout' \in [TimedStates -> BOOLEAN]
  BY <1>2 DEF TypeOK, sm_change_state, Arm, Phases
<1>. QED
  BY <1>1, <1>3 DEF sm_change_state, EndUpdate

(* app_main hands the loop variables of the right types. *)
LEMMA InitTypeOK == Init => TypeOK
<1> SUFFICES ASSUME Init PROVE TypeOK
  OBVIOUS
<1>1. pc \in MainPC
  BY EntryCallType DEF Init, States, TimedStates
<1>2. timer \in [TimedStates -> Phases]
  BY DEF Init, Phases
<1>3. timeout \in [TimedStates -> BOOLEAN]
  BY DEF Init
<1>4. queue \in Seq(Events) /\ Len(queue) <= QueueLen
  BY DEF Init
<1>5. audio_enabled \in BOOLEAN /\ active_connection \in BOOLEAN /\ bt_up \in BOOLEAN
  BY DEF Init
<1>. QED
  BY <1>1, <1>2, <1>3, <1>4, <1>5 DEF Init, TypeOK, States, TimedStates, Phases

(* A step of the loop and of the update() functions keeps the types. *)
LEMMA MainLoopTypeOK ==
    ASSUME TypeOK, MainLoop
    PROVE  TypeOK'
<1>1. CASE BeginUpdate
  <2>1. /\ timer' \in [TimedStates -> Phases]
        /\ idle_timer' \in Phases
    BY <1>1, OlderType DEF TypeOK, BeginUpdate
  <2>. QED
    BY <1>1, <2>1 DEF TypeOK, BeginUpdate, MainPC, LoopPC, btVars, queueVars
<1>2. CASE ReceiveEvent
  BY <1>2 DEF TypeOK, ReceiveEvent, timerVars, btVars, fftVars
<1>3. CASE QueueEmpty
  BY <1>3 DEF TypeOK, QueueEmpty, MainPC, LoopPC, timerVars, btVars, fftVars
<1>4. CASE PairingUpdate
  <2>1. CASE \E s \in States : sm_change_state(s)
    BY <1>4, <2>1, ChangeStateType DEF TypeOK, PairingUpdate, queueVars, btVars, fftVars
  <2>2. CASE Return /\ UNCHANGED timerVars
    BY <1>4, <2>2 DEF TypeOK, PairingUpdate, Return, EndUpdate, MainPC, LoopPC,
                      timerVars, queueVars, btVars, fftVars
  <2>. QED
    BY <1>4, <2>1, <2>2 DEF PairingUpdate, States, TimedStates
<1>5. CASE PairResultUpdate
  <2>1. CASE sm_change_state("IDLE")
    <3>1. "IDLE" \in States
      BY DEF States, TimedStates
    <3>. QED
      BY <1>5, <2>1, <3>1, ChangeStateType
      DEF TypeOK, PairResultUpdate, queueVars, btVars, fftVars
  <2>2. CASE Return /\ UNCHANGED timerVars
    BY <1>5, <2>2 DEF TypeOK, PairResultUpdate, Return, EndUpdate, MainPC, LoopPC,
                      timerVars, queueVars, btVars, fftVars
  <2>. QED
    BY <1>5, <2>1, <2>2 DEF PairResultUpdate
<1>6. CASE IdleUpdate
  <2>1. time_idx' \in {"SET_TIME_IDLE", "SET_TIME_HOURS", "SET_TIME_MINUTES"}
    BY <1>6 DEF IdleUpdate, TypeOK
  <2>2. CASE \E s \in States : sm_change_state(s)
    BY <1>6, <2>1, <2>2, ChangeStateType DEF TypeOK, IdleUpdate, queueVars, btVars, fftVars
  <2>3. CASE Return /\ UNCHANGED timerVars
    BY <1>6, <2>1, <2>3 DEF TypeOK, IdleUpdate, Return, EndUpdate, MainPC, LoopPC,
                      timerVars, queueVars, btVars, fftVars
  <2>4. CASE Return /\ timer' = [timer EXCEPT !["IDLE"] = "fresh"] /\ UNCHANGED timeout
    <3>1. timer' \in [TimedStates -> Phases]
      BY <2>4 DEF TypeOK, Phases
    <3>. QED
      BY <1>6, <2>1, <2>4, <3>1
      DEF TypeOK, IdleUpdate, Return, EndUpdate, MainPC, LoopPC, queueVars, btVars, fftVars
  <2>. QED
    <3>1. {"PAIRING", "STREAMING", "MENU", "DISPLAY_OFF", "SLEEP"} \subseteq States
      BY DEF States, TimedStates
    <3>. QED
      BY <1>6, <2>2, <2>3, <2>4, <3>1 DEF IdleUpdate, timerVars
<1>7. CASE MenuUpdate
  <2>1. time_idx' \in {"SET_TIME_IDLE", "SET_TIME_HOURS", "SET_TIME_MINUTES"}
    BY <1>7 DEF MenuUpdate, TypeOK
  <2>2. CASE sm_change_state("IDLE")
    <3>1. "IDLE" \in States
      BY DEF States, TimedStates
    <3>. QED
      BY <1>7, <2>1, <2>2, <3>1, ChangeStateType
      DEF TypeOK, MenuUpdate, queueVars, btVars, fftVars
  <2>3. CASE Return /\ UNCHANGED timerVars
    BY <1>7, <2>1, <2>3 DEF TypeOK, MenuUpdate, Return, EndUpdate, MainPC, LoopPC,
                      timerVars, queueVars, btVars, fftVars
  <2>. QED
    BY <1>7, <2>2, <2>3 DEF MenuUpdate, timerVars
<1>8. CASE DisplayOffUpdate
  <2>1. CASE \E s \in States : sm_change_state(s)
    BY <1>8, <2>1, ChangeStateType DEF TypeOK, DisplayOffUpdate, queueVars, btVars, fftVars
  <2>2. CASE Return /\ UNCHANGED timerVars
    BY <1>8, <2>2 DEF TypeOK, DisplayOffUpdate, Return, EndUpdate, MainPC, LoopPC,
                      timerVars, queueVars, btVars, fftVars
  <2>. QED
    BY <1>8, <2>1, <2>2 DEF DisplayOffUpdate, States, TimedStates
<1>9. CASE StreamingUpdate
  <2>1. CASE \E s \in States : sm_change_state(s)
    BY <1>9, <2>1, ChangeStateType DEF TypeOK, StreamingUpdate, queueVars, btVars, fftVars
  <2>2. CASE Return /\ UNCHANGED timerVars
    BY <1>9, <2>2 DEF TypeOK, StreamingUpdate, Return, EndUpdate, MainPC, LoopPC,
                      timerVars, queueVars, btVars, fftVars
  <2>. QED
    BY <1>9, <2>1, <2>2 DEF StreamingUpdate, States, TimedStates
<1>10. CASE SleepUpdate
  BY <1>10 DEF TypeOK, SleepUpdate, EndUpdate, MainPC, CallPC,
               timerVars, queueVars, btVars, fftVars
<1>. QED
  BY <1>1, <1>2, <1>3, <1>4, <1>5, <1>6, <1>7, <1>8, <1>9, <1>10 DEF MainLoop

(* So does the return of a blocking call, *)
LEMMA MainCallTypeOK ==
    ASSUME TypeOK, MainCall
    PROVE  TypeOK'
<1>1. CASE BtInitReturns
  <2>1. /\ timer' \in [TimedStates -> Phases]
        /\ timeout' \in [TimedStates -> BOOLEAN]
    BY <1>1 DEF BtInitReturns, TypeOK, Arm, Phases, TimedStates
  <2>. QED
    BY <1>1, <2>1 DEF TypeOK, BtInitReturns, MainPC, LoopPC, queueVars, fftVars
<1>2. CASE StackDown
  BY <1>2 DEF TypeOK, StackDown, MainPC, CallPC, queueVars, timerVars
<1>3. CASE DeinitReturns
  <2>1. /\ timer' \in [TimedStates -> Phases]
        /\ timeout' \in [TimedStates -> BOOLEAN]
    BY <1>3 DEF DeinitReturns, TypeOK, Arm, Phases, TimedStates, timerVars
  <2>. QED
    BY <1>3, <2>1 DEF TypeOK, DeinitReturns, MainPC, LoopPC, CallPC, queueVars, fftVars
<1>4. CASE SleepSfxReturns
  BY <1>4 DEF TypeOK, SleepSfxReturns, MainPC, LoopPC, timerVars, queueVars, btVars, fftVars
<1>5. CASE DeinitFails
  <2>1. /\ timer' \in [TimedStates -> Phases]
        /\ timeout' \in [TimedStates -> BOOLEAN]
    BY <1>5 DEF DeinitFails, TypeOK, Arm, Phases, TimedStates, timerVars
  <2>. QED
    BY <1>5, <2>1 DEF TypeOK, DeinitFails, MainPC, LoopPC, CallPC, queueVars, fftVars
<1>6. CASE StackDownRefused
  BY <1>6 DEF TypeOK, StackDownRefused, MainPC, CallPC, queueVars, timerVars, btVars, fftVars
<1>. QED
  BY <1>1, <1>2, <1>3, <1>4, <1>5, <1>6 DEF MainCall, BtCall

(* a callback of the timer daemon, *)
LEMMA TimerDaemonTypeOK ==
    ASSUME TypeOK, TimerDaemon
    PROVE  TypeOK'
<1>1. CASE IdleTimerFires
  <2>1. queue' \in Seq(Events) /\ Len(queue') <= QueueLen /\ pushed' \in Nat
    BY <1>1, OfferType DEF IdleTimerFires, TypeOK, Events, queueVars
  <2>. QED
    BY <1>1, <2>1 DEF TypeOK, IdleTimerFires, Phases, mainVars, timerVars, btVars
<1>2. ASSUME NEW s \in TimedStates, StateTimerFires(s)
      PROVE  TypeOK'
  BY <1>2 DEF TypeOK, StateTimerFires, Phases, mainVars, queueVars, btVars, fftVars
<1>. QED
  BY <1>1, <1>2 DEF TimerDaemon

(* push_event() as a whole keeps the queue and counts its events. *)
LEMMA PushType ==
    ASSUME TypeOK, NEW e \in Events, Push(e)
    PROVE  queue' \in Seq(Events) /\ Len(queue') <= QueueLen /\ pushed' \in Nat
BY OfferType DEF Push, TypeOK

(* A step of the FFT task keeps the types, *)
LEMMA FftTaskTypeOK ==
    ASSUME TypeOK, FftTask
    PROVE  TypeOK'
<1>1. CASE FftReadState
  BY <1>1 DEF TypeOK, FftReadState, mainVars, queueVars, timerVars, btVars
<1>2. CASE FftPushFirstPacket
  BY <1>2, PushType DEF TypeOK, FftPushFirstPacket, Events, mainVars, timerVars, btVars
<1>3. CASE FftStartTimer
  BY <1>3 DEF TypeOK, FftStartTimer, Phases, mainVars, queueVars, timerVars, btVars
<1>. QED
  BY <1>1, <1>2, <1>3 DEF FftTask

(* and so do buttons, the peer and the wake-up line. *)
LEMMA EnvironmentTypeOK ==
    ASSUME TypeOK, Environment
    PROVE  TypeOK'
<1>1. CASE LongWait
  BY <1>1, OlderType DEF TypeOK, LongWait, mainVars, queueVars, timerVars, btVars
<1>2. CASE WakeUp
  <2>1. "IDLE" \in States
    BY DEF States, TimedStates
  <2>. QED
    BY <1>2, <2>1, ChangeStateType DEF TypeOK, WakeUp, queueVars, btVars, fftVars
<1>3. CASE BtConnected
  BY <1>3, PushType DEF TypeOK, BtConnected, Events, mainVars, timerVars, fftVars
<1>4. CASE BtDisconnected
  BY <1>4, PushType DEF TypeOK, BtDisconnected, Events, mainVars, timerVars
<1>5. CASE PeerPlays
  BY <1>5 DEF TypeOK, PeerPlays, mainVars, queueVars, timerVars, btVars
<1>6. ASSUME NEW e \in Buttons, ButtonPress(e)
      PROVE  TypeOK'
  BY <1>6, PushType DEF TypeOK, ButtonPress, Events, mainVars, timerVars, btVars, fftVars
<1>. QED
  BY <1>1, <1>2, <1>3, <1>4, <1>5, <1>6 DEF Environment

(* Every variable keeps its type, and the queue its capacity, however the  *)
(* tasks interleave.                                                       *)
THEOREM TypeCorrect == SafetySpec => []TypeOK
<1>1. TypeOK /\ [Next]_vars => TypeOK'
  <2> SUFFICES ASSUME TypeOK, [Next]_vars PROVE TypeOK'
    OBVIOUS
  <2>1. CASE Next
    BY <2>1, MainLoopTypeOK, MainCallTypeOK, TimerDaemonTypeOK, FftTaskTypeOK,
       EnvironmentTypeOK DEF Next
  <2>2. CASE UNCHANGED vars
    BY <2>2 DEF TypeOK, vars, mainVars, queueVars, timerVars, btVars, fftVars
  <2>. QED
    BY <2>1, <2>2
<1>. QED
  BY <1>1, InitTypeOK, PTL DEF SafetySpec
-----------------------------------------------------------------------------
(* Timers.  A change of state is looked at once: it stops the timer of the *)
(* state it leaves and, unless on_enter blocks first, arms the next one.   *)

(* A change of state leaves the timer invariant true. *)
LEMMA ChangeStateTimers ==
    ASSUME TypeOK, TimerInv, NEW next \in States, sm_change_state(next), pc = "decide" \/ next = "IDLE"
    PROVE  TimerInv'
<1>1. OnlyCurrentTimerRuns'
  BY DEF TypeOK, TimerInv, OnlyCurrentTimerRuns, sm_change_state, Arm, Stopped
<1>2. TimedStateHasWayOut'
  BY DEF TypeOK, TimedStateHasWayOut, sm_change_state, Arm, Stopped, InLoop, LoopPC,
         EntryCall, TimedStates
<1>3. CallMatchesState'
  BY DEF CallMatchesState, sm_change_state, EntryCall
<1>. QED
  BY <1>1, <1>2, <1>3 DEF TimerInv

(* PAIRING has its timer before the loop starts, unless start-up blocks. *)
LEMMA InitTimers == Init => TimerInv
BY DEF Init, TimerInv, CallMatchesState, TimedStateHasWayOut, OnlyCurrentTimerRuns,
       EntryCall, InLoop, LoopPC

(* No update() leaves a timed state without a timer or keeps an old one. *)
LEMMA MainLoopTimers ==
    ASSUME TypeOK, TimerInv, MainLoop
    PROVE  TimerInv'
<1>. USE DEF TimerInv, CallMatchesState, TimedStateHasWayOut, OnlyCurrentTimerRuns,
             InLoop, LoopPC
<1>1. CASE BeginUpdate
  BY <1>1 DEF BeginUpdate, TypeOK, Older, Phases
<1>2. CASE ReceiveEvent \/ QueueEmpty
  BY <1>2 DEF ReceiveEvent, QueueEmpty, timerVars
<1>3. ASSUME Return, UNCHANGED timerVars, pc = "decide"
      PROVE  TimerInv'
  BY <1>3 DEF Return, timerVars
<1>4. ASSUME NEW s \in States, sm_change_state(s), pc = "decide"
      PROVE  TimerInv'
  BY <1>4, ChangeStateTimers
<1>5. {"PAIRING", "PAIR_SUCCESS", "PAIR_FAIL", "IDLE", "STREAMING", "MENU",
       "DISPLAY_OFF", "SLEEP"} \subseteq States
  BY DEF States, TimedStates
<1>6. CASE PairingUpdate
  BY <1>3, <1>4, <1>5, <1>6 DEF PairingUpdate
<1>7. CASE PairResultUpdate
  BY <1>3, <1>4, <1>5, <1>7 DEF PairResultUpdate
<1>8. CASE IdleUpdate
  <2>1. CASE Return /\ timer' = [timer EXCEPT !["IDLE"] = "fresh"] /\ UNCHANGED timeout
    BY <1>8, <2>1 DEF IdleUpdate, Return, TypeOK
  <2>. QED
    BY <1>3, <1>4, <1>5, <1>8, <2>1 DEF IdleUpdate, timerVars
<1>9. CASE MenuUpdate
  BY <1>3, <1>4, <1>5, <1>9 DEF MenuUpdate, timerVars
<1>10. CASE DisplayOffUpdate
  BY <1>3, <1>4, <1>5, <1>10 DEF DisplayOffUpdate
<1>11. CASE StreamingUpdate
  BY <1>3, <1>4, <1>5, <1>11 DEF StreamingUpdate
<1>12. CASE SleepUpdate
  BY <1>12 DEF SleepUpdate, timerVars
<1>. QED
  BY <1>1, <1>2, <1>6, <1>7, <1>8, <1>9, <1>10, <1>11, <1>12 DEF MainLoop

(* Neither does a step of another task or the return of a call. *)
LEMMA OtherStepsTimers ==
    ASSUME TypeOK, TimerInv, MainCall \/ TimerDaemon \/ FftTask \/ Environment
    PROVE  TimerInv'
<1>. USE DEF TimerInv, CallMatchesState, TimedStateHasWayOut, OnlyCurrentTimerRuns,
             InLoop, LoopPC
<1>1. CASE BtInitReturns
  BY <1>1 DEF BtInitReturns, Arm, TypeOK
<1>2. CASE StackDown
  BY <1>2 DEF StackDown, timerVars
<1>3. CASE DeinitReturns
  BY <1>3 DEF DeinitReturns, Arm, TypeOK, timerVars
<1>10. CASE DeinitFails
  BY <1>10 DEF DeinitFails, Arm, TypeOK, timerVars
<1>11. CASE StackDownRefused
  BY <1>11 DEF StackDownRefused, timerVars
<1>4. CASE SleepSfxReturns
  BY <1>4 DEF SleepSfxReturns, timerVars, TimedStates
<1>5. ASSUME NEW s \in TimedStates, StateTimerFires(s)
      PROVE  TimerInv'
  BY <1>5 DEF StateTimerFires, TypeOK, mainVars
<1>6. CASE WakeUp
  BY <1>6, ChangeStateTimers DEF WakeUp, States, TimedStates
<1>7. ASSUME UNCHANGED <<mainVars, timerVars>>
      PROVE  TimerInv'
  BY <1>7 DEF mainVars, timerVars
<1>8. CASE IdleTimerFires \/ FftTask
  BY <1>7, <1>8 DEF IdleTimerFires, FftTask, FftReadState, FftPushFirstPacket, FftStartTimer
<1>9. CASE LongWait \/ BtConnected \/ BtDisconnected \/ PeerPlays
               \/ \E e \in Buttons : ButtonPress(e)
  BY <1>7, <1>9 DEF LongWait, BtConnected, BtDisconnected, PeerPlays, ButtonPress
<1>. QED
  BY <1>1, <1>2, <1>3, <1>4, <1>5, <1>6, <1>8, <1>9, <1>10, <1>11
  DEF MainCall, BtCall, TimerDaemon, Environment

(* The timers, their flags and the position of the main task agree. *)
THEOREM TimerInvariant == SafetySpec => []TimerInv
<1>1. TypeOK /\ TimerInv /\ [Next]_vars => TimerInv'
  <2> SUFFICES ASSUME TypeOK, TimerInv, [Next]_vars PROVE TimerInv'
    OBVIOUS
  <2>1. CASE Next
    BY <2>1, MainLoopTimers, OtherStepsTimers DEF Next
  <2>2. CASE UNCHANGED vars
    BY <2>2 DEF TimerInv, CallMatchesState, TimedStateHasWayOut, OnlyCurrentTimerRuns,
                InLoop, vars, mainVars, timerVars
  <2>. QED
    BY <2>1, <2>2
<1>. QED
  BY <1>1, InitTimers, TypeCorrect, PTL DEF SafetySpec

(* PAIRING, PAIR_SUCCESS, PAIR_FAIL and IDLE can always end: their timer   *)
(* is counting or its flag is set.                                         *)
THEOREM TimedStatesEnd == SafetySpec => []TimedStateHasWayOut
<1>1. TimerInv => TimedStateHasWayOut
  BY DEF TimerInv
<1>. QED
  BY <1>1, TimerInvariant, PTL

(* No timer outlives the visit of the state that started it. *)
THEOREM TimersDoNotOutliveStates == SafetySpec => []OnlyCurrentTimerRuns
<1>1. TimerInv => OnlyCurrentTimerRuns
  BY DEF TimerInv
<1>. QED
  BY <1>1, TimerInvariant, PTL

-----------------------------------------------------------------------------
(* Result screens.  A flag set in an earlier visit is cleared on entry, so *)
(* in the loop of a result screen a set flag means that its timer fired.   *)

(* A change of state enters with the flag clear, or blocked in a call. *)
LEMMA ChangeStateFlag ==
    ASSUME TypeOK, NEW next \in States, sm_change_state(next)
    PROVE  FlagIsOfThisVisit'
<1>1. CASE EntryCall(next) = "delay" /\ next \in {"PAIR_SUCCESS", "PAIR_FAIL"}
  <2>1. timeout'[next] = FALSE
    BY <1>1 DEF TypeOK, sm_change_state, Arm, TimedStates
  <2>. QED
    BY <2>1 DEF sm_change_state, FlagIsOfThisVisit
<1>2. CASE EntryCall(next) # "delay" /\ next \in {"PAIR_SUCCESS", "PAIR_FAIL"}
  BY <1>2 DEF sm_change_state, EntryCall, FlagIsOfThisVisit, InLoop, LoopPC
<1>3. CASE next \notin {"PAIR_SUCCESS", "PAIR_FAIL"}
  BY <1>3 DEF sm_change_state, FlagIsOfThisVisit
<1>. QED
  BY <1>1, <1>2, <1>3

(* The loop's other steps leave a result screen's timer and flag alone, but*)
(* for time, which does not start a timer that is off.                     *)
LEMMA MainLoopFlag ==
    ASSUME TypeOK, CallMatchesState, FlagIsOfThisVisit, MainLoop
    PROVE  FlagIsOfThisVisit'
<1>. USE DEF FlagIsOfThisVisit, InLoop, LoopPC
<1>1. CASE BeginUpdate
  BY <1>1 DEF BeginUpdate, TypeOK, Older, TimedStates
<1>2. CASE ReceiveEvent \/ QueueEmpty
  BY <1>2 DEF ReceiveEvent, QueueEmpty, timerVars
<1>3. ASSUME Return, UNCHANGED timerVars, pc = "decide"
      PROVE  FlagIsOfThisVisit'
  BY <1>3 DEF Return, timerVars
<1>4. ASSUME NEW s \in States, sm_change_state(s)
      PROVE  FlagIsOfThisVisit'
  BY <1>4, ChangeStateFlag
<1>5. {"PAIRING", "PAIR_SUCCESS", "PAIR_FAIL", "IDLE", "STREAMING", "MENU",
       "DISPLAY_OFF", "SLEEP"} \subseteq States
  BY DEF States, TimedStates
<1>6. CASE PairingUpdate
  BY <1>3, <1>4, <1>5, <1>6 DEF PairingUpdate
<1>7. CASE PairResultUpdate
  BY <1>3, <1>4, <1>5, <1>7 DEF PairResultUpdate
<1>8. CASE IdleUpdate
  <2>1. CASE Return /\ current_state = "IDLE"
    BY <2>1 DEF Return
  <2>. QED
    BY <1>4, <1>5, <1>8, <2>1 DEF IdleUpdate
<1>9. CASE MenuUpdate
  BY <1>3, <1>4, <1>5, <1>9 DEF MenuUpdate, timerVars
<1>10. CASE DisplayOffUpdate
  BY <1>3, <1>4, <1>5, <1>10 DEF DisplayOffUpdate
<1>11. CASE StreamingUpdate
  BY <1>3, <1>4, <1>5, <1>11 DEF StreamingUpdate
<1>12. CASE SleepUpdate
  BY <1>12 DEF SleepUpdate, timerVars
<1>. QED
  BY <1>1, <1>2, <1>6, <1>7, <1>8, <1>9, <1>10, <1>11, <1>12 DEF MainLoop

(* A callback that sets a flag has its timer off, and PAIR_FAIL arms its   *)
(* own when the teardown returns.                                          *)
LEMMA OtherStepsFlag ==
    ASSUME TypeOK, CallMatchesState, FlagIsOfThisVisit,
           MainCall \/ TimerDaemon \/ FftTask \/ Environment
    PROVE  FlagIsOfThisVisit'
<1>. USE DEF FlagIsOfThisVisit, InLoop, LoopPC
<1>1. CASE BtInitReturns
  BY <1>1 DEF BtInitReturns, CallMatchesState
<1>2. CASE StackDown
  BY <1>2 DEF StackDown, timerVars
<1>3. CASE DeinitReturns
  <2>1. CASE pc = "fail_teardown"
    BY <1>3, <2>1 DEF DeinitReturns, Arm, TypeOK, TimedStates, CallMatchesState
  <2>2. CASE pc = "pm_teardown"
    BY <1>3, <2>2 DEF DeinitReturns
  <2>. QED
    BY <1>3, <2>1, <2>2 DEF DeinitReturns
<1>10. CASE DeinitFails
  <2>1. CASE pc = "fail_teardown"
    BY <1>10, <2>1 DEF DeinitFails, Arm, TypeOK, TimedStates, CallMatchesState
  <2>2. CASE pc = "pm_teardown"
    BY <1>10, <2>2 DEF DeinitFails
  <2>. QED
    BY <1>10, <2>1, <2>2 DEF DeinitFails
<1>11. CASE StackDownRefused
  BY <1>11 DEF StackDownRefused, timerVars
<1>4. CASE SleepSfxReturns
  BY <1>4 DEF SleepSfxReturns, CallMatchesState
<1>5. ASSUME NEW s \in TimedStates, StateTimerFires(s)
      PROVE  FlagIsOfThisVisit'
  BY <1>5 DEF StateTimerFires, TypeOK, mainVars, TimedStates
<1>6. CASE WakeUp
  BY <1>6, ChangeStateFlag DEF WakeUp, States, TimedStates
<1>7. ASSUME UNCHANGED <<mainVars, timerVars>>
      PROVE  FlagIsOfThisVisit'
  BY <1>7 DEF mainVars, timerVars
<1>8. CASE IdleTimerFires \/ FftTask
  BY <1>7, <1>8 DEF IdleTimerFires, FftTask, FftReadState, FftPushFirstPacket, FftStartTimer
<1>9. CASE LongWait \/ BtConnected \/ BtDisconnected \/ PeerPlays
               \/ \E e \in Buttons : ButtonPress(e)
  BY <1>7, <1>9 DEF LongWait, BtConnected, BtDisconnected, PeerPlays, ButtonPress
<1>. QED
  BY <1>1, <1>2, <1>3, <1>4, <1>5, <1>6, <1>8, <1>9, <1>10, <1>11
  DEF MainCall, BtCall, TimerDaemon, Environment

(* Only its own update() leaves a result screen, and only on its flag. *)
LEMMA ResultLeftOnFlag ==
    ASSUME TypeOK, CallMatchesState, Next,
           current_state \in {"PAIR_SUCCESS", "PAIR_FAIL"}, current_state' # current_state
    PROVE  pc = "decide" /\ timeout[current_state]
<1>1. CASE MainLoop
  BY <1>1 DEF MainLoop, BeginUpdate, ReceiveEvent, QueueEmpty, PairingUpdate,
              PairResultUpdate, Return, IdleUpdate, MenuUpdate, DisplayOffUpdate,
              StreamingUpdate, SleepUpdate
<1>2. CASE MainCall
  BY <1>2 DEF MainCall, BtCall, BtInitReturns, StackDown, StackDownRefused, DeinitReturns,
              DeinitFails, SleepSfxReturns
<1>3. CASE TimerDaemon \/ FftTask
  BY <1>3 DEF TimerDaemon, FftTask, IdleTimerFires, StateTimerFires, FftReadState,
              FftPushFirstPacket, FftStartTimer, mainVars
<1>4. CASE Environment
  <2>1. CASE WakeUp
    BY <2>1 DEF WakeUp, CallMatchesState
  <2>. QED
    BY <1>4, <2>1 DEF Environment, LongWait, BtConnected, BtDisconnected, PeerPlays,
                      ButtonPress, mainVars
<1>. QED
  BY <1>1, <1>2, <1>3, <1>4 DEF Next

(* PAIR_SUCCESS and PAIR_FAIL are shown until their own timer, started in  *)
(* this visit, has fired.                                                  *)
THEOREM ResultsLastTheirPeriod == SafetySpec => ResultShownFullPeriod
<1>1. Init => FlagIsOfThisVisit
  BY DEF Init, FlagIsOfThisVisit
<1>2. TypeOK /\ TimerInv /\ FlagIsOfThisVisit /\ [Next]_vars => FlagIsOfThisVisit'
  <2> SUFFICES ASSUME TypeOK, TimerInv, FlagIsOfThisVisit, [Next]_vars
               PROVE  FlagIsOfThisVisit'
    OBVIOUS
  <2>1. CASE Next
    BY <2>1, MainLoopFlag, OtherStepsFlag DEF Next, TimerInv
  <2>2. CASE UNCHANGED vars
    BY <2>2 DEF FlagIsOfThisVisit, InLoop, vars, mainVars, timerVars
  <2>. QED
    BY <2>1, <2>2
<1>3. TypeOK /\ TimerInv /\ FlagIsOfThisVisit /\ [Next]_vars
        => [\A s \in {"PAIR_SUCCESS", "PAIR_FAIL"} :
              current_state = s /\ current_state' # s => timer[s] = "off"]_vars
  BY ResultLeftOnFlag DEF TimerInv, FlagIsOfThisVisit, InLoop, LoopPC
<1>. QED
  BY <1>1, <1>2, <1>3, TypeCorrect, TimerInvariant, PTL DEF SafetySpec, ResultShownFullPeriod

-----------------------------------------------------------------------------
(* What is in the queue. *)

(* A push adds at most its own event, and does so if there is room. *)
LEMMA OfferContents ==
    ASSUME TypeOK, NEW e \in Events, Offer(e)
    PROVE  /\ Contents(queue') \subseteq Contents(queue) \cup {e}
           /\ Contents(queue) \subseteq Contents(queue')
           /\ Len(queue') <= Len(queue) + 1
           /\ Len(queue) < QueueLen => e \in Contents(queue')
<1>1. queue \in Seq(Events)
  BY DEF TypeOK
<1>2. CASE Len(queue) < QueueLen
  <2>1. queue' = Append(queue, e)
    BY <1>2 DEF Offer
  <2>2. /\ Len(queue') = Len(queue) + 1
        /\ DOMAIN queue = 1..Len(queue) /\ DOMAIN queue' = 1..(Len(queue) + 1)
        /\ \A i \in DOMAIN queue : queue'[i] = queue[i]
        /\ queue'[Len(queue) + 1] = e
    BY <1>1, <2>1
  <2>3. Len(queue) \in Nat
    BY <1>1
  <2>. QED
    BY <2>2, <2>3 DEF Contents
<1>3. CASE ~(Len(queue) < QueueLen)
  <2>1. queue' = queue /\ Len(queue) \in Nat
    BY <1>1, <1>3 DEF Offer
  <2>. QED
    BY <1>3, <2>1
<1>. QED
  BY <1>2, <1>3

(* What is received was in the queue, the rest still is. *)
LEMMA TailContents ==
    ASSUME TypeOK, queue # <<>>
    PROVE  /\ Head(queue) \in Contents(queue)
           /\ Contents(queue) = {Head(queue)} \cup Contents(Tail(queue))
           /\ Len(Tail(queue)) <= Len(queue)
<1>1. queue \in Seq(Events)
  BY DEF TypeOK
<1>2. /\ Len(queue) \in Nat \ {0} /\ Len(Tail(queue)) = Len(queue) - 1
      /\ DOMAIN queue = 1..Len(queue) /\ DOMAIN Tail(queue) = 1..(Len(queue) - 1)
      /\ \A i \in 1..(Len(queue) - 1) : Tail(queue)[i] = queue[i + 1]
      /\ Head(queue) = queue[1]
  BY <1>1
<1>3. \A i \in 1..Len(queue) : i = 1 \/ (i - 1 \in 1..(Len(queue) - 1) /\ (i - 1) + 1 = i)
  BY <1>2
<1>4. \A i \in 1..(Len(queue) - 1) : i + 1 \in 1..Len(queue)
  BY <1>2
<1>5. Contents(queue) \subseteq {Head(queue)} \cup Contents(Tail(queue))
  <2> SUFFICES ASSUME NEW i \in 1..Len(queue)
               PROVE  queue[i] \in {Head(queue)} \cup Contents(Tail(queue))
    BY <1>2 DEF Contents
  <2>1. CASE i = 1
    BY <1>2, <2>1
  <2>2. CASE i # 1
    <3>1. i - 1 \in DOMAIN Tail(queue) /\ Tail(queue)[i - 1] = queue[i]
      BY <1>2, <1>3, <2>2
    <3>. QED
      BY <3>1 DEF Contents
  <2>. QED
    BY <2>1, <2>2
<1>6. Contents(Tail(queue)) \subseteq Contents(queue)
  BY <1>2, <1>4 DEF Contents
<1>7. Head(queue) \in Contents(queue)
  BY <1>2 DEF Contents
<1>. QED
  BY <1>2, <1>5, <1>6, <1>7

(* Nothing is in an empty queue. *)
LEMMA EmptyContents == Contents(<<>>) = {}
BY DEF Contents

-----------------------------------------------------------------------------
(* Bluetooth.  The three flags that describe it agree, and with Bluetooth  *)
(* off no BT_AUDIO_CONNECTED is left where it would be listened to.        *)

(* A change of state out of update(), or out of light sleep. *)
LEMMA ChangeStateBt ==
    ASSUME TypeOK, BtInv, NEW next \in States, sm_change_state(next),
           UNCHANGED <<queueVars, btVars>>,
           pc = "decide" \/ (pc = "light_sleep" /\ next = "IDLE"),
           next = "PAIR_SUCCESS" => bt_up \/ stop_failed
    PROVE  BtInv'
<1>. USE DEF BtInv, queueVars, btVars
<1>1. CallMatchesState'
  BY DEF CallMatchesState, sm_change_state, EntryCall
<1>2. LocalsInScope'
  BY DEF LocalsInScope, sm_change_state, EndUpdate
<1>3. BtFlagsAgree'
  BY DEF BtFlagsAgree, sm_change_state, EntryCall, EndUpdate, TypeOK
<1>4. NoStaleConnected'
  <2>1. CASE pc = "decide"
    BY <2>1 DEF NoStaleConnected, sm_change_state, EndUpdate, Contents
  <2>2. CASE pc = "light_sleep" /\ next = "IDLE"
    BY <2>2 DEF NoStaleConnected, sm_change_state, EndUpdate, EntryCall, Contents
  <2>. QED
    BY <2>1, <2>2
<1>5. AsleepBtDown' /\ PairSuccessMeansUp'
  BY DEF AsleepBtDown, PairSuccessMeansUp, sm_change_state, EntryCall
<1>. QED
  BY <1>1, <1>2, <1>3, <1>4, <1>5

(* A return of update() without a change of state. *)
LEMMA ReturnBt ==
    ASSUME TypeOK, BtInv, Return, UNCHANGED <<queueVars, btVars>>, pc = "decide"
    PROVE  BtInv'
BY DEF BtInv, Return, EndUpdate, queueVars, btVars, CallMatchesState, LocalsInScope,
       BtFlagsAgree, NoStaleConnected, AsleepBtDown, PairSuccessMeansUp, Contents

(* PAIRING's on_enter finds an empty queue. *)
LEMMA InitBt == Init => BtInv
<1> SUFFICES ASSUME Init PROVE BtInv
  OBVIOUS
<1>1. pc = IF audio_enabled THEN "delay" ELSE "bt_init"
  BY DEF Init, EntryCall
<1>2. Contents(queue) = {}
  BY EmptyContents DEF Init
<1>3. /\ current_state = "PAIRING" /\ seen = {} /\ bt_snapshot = FALSE
      /\ bt_up \in BOOLEAN /\ audio_enabled = bt_up
      /\ active_connection \in {FALSE, bt_up}
  BY DEF Init
<1>4. active_connection \/ bt_up \/ bt_snapshot => audio_enabled
  BY <1>3, Zenon
<1>5. (audio_enabled <=> bt_up) /\ ~stop_failed
  <2>1. stop_failed = FALSE
    BY DEF Init
  <2>. QED
    BY <1>3, <2>1, Zenon
<1>6. BtFlagsAgree
  <2>1. CASE audio_enabled
    BY <1>1, <1>5, <2>1 DEF BtFlagsAgree
  <2>2. CASE ~audio_enabled
    BY <1>1, <1>4, <1>5, <2>2 DEF BtFlagsAgree
  <2>. QED
    BY <2>1, <2>2
<1>. QED
  BY <1>1, <1>2, <1>3, <1>6 DEF BtInv, CallMatchesState, LocalsInScope,
       NoStaleConnected, AsleepBtDown, PairSuccessMeansUp

(* PAIRING goes to PAIR_SUCCESS only with Bluetooth up or stuck, whatever  *)
(* it drains.                                                              *)
LEMMA MainLoopBt ==
    ASSUME TypeOK, BtInv, MainLoop
    PROVE  BtInv'
<1>1. CASE BeginUpdate
  BY <1>1 DEF BeginUpdate, queueVars, btVars, BtInv, CallMatchesState, LocalsInScope,
              BtFlagsAgree, NoStaleConnected, AsleepBtDown, PairSuccessMeansUp, Contents
<1>2. CASE ReceiveEvent
  <2>1. Head(queue) \in Contents(queue) /\ Contents(queue') \subseteq Contents(queue)
    BY <1>2, TailContents DEF ReceiveEvent
  <2>2. NoStaleConnected'
    <3>1. CASE audio_enabled
      BY <1>2, <3>1 DEF ReceiveEvent, NoStaleConnected, btVars
    <3>2. CASE ~audio_enabled
      BY <1>2, <2>1, <3>2 DEF ReceiveEvent, NoStaleConnected, BtInv, Heard, Buttons
    <3>. QED
      BY <3>1, <3>2
  <2>3. LocalsInScope'
    BY <1>2 DEF ReceiveEvent, LocalsInScope, BtInv
  <2>. QED
    BY <1>2, <2>2, <2>3 DEF ReceiveEvent, btVars, BtInv, CallMatchesState,
              BtFlagsAgree, AsleepBtDown, PairSuccessMeansUp
<1>3. CASE QueueEmpty
  BY <1>3, EmptyContents DEF QueueEmpty, btVars, BtInv, CallMatchesState, LocalsInScope,
              BtFlagsAgree, NoStaleConnected, AsleepBtDown, PairSuccessMeansUp
<1>4. {"PAIRING", "PAIR_SUCCESS", "PAIR_FAIL", "IDLE", "STREAMING", "MENU",
       "DISPLAY_OFF", "SLEEP"} \subseteq States
  BY DEF States, TimedStates
<1>5. ASSUME NEW s \in States \ {"PAIR_SUCCESS"}, sm_change_state(s), pc = "decide",
             UNCHANGED <<queueVars, btVars>>
      PROVE  BtInv'
  BY <1>5, ChangeStateBt
<1>6. CASE PairingUpdate
  <2>1. ("BT_AUDIO_CONNECTED" \in seen \/ bt_snapshot) => audio_enabled
    BY DEF BtInv, NoStaleConnected, BtFlagsAgree
  <2>2. audio_enabled => bt_up \/ stop_failed
    BY <1>6 DEF PairingUpdate, BtInv, BtFlagsAgree
  <2>. QED
    BY <1>4, <1>5, <1>6, <2>1, <2>2, ChangeStateBt, ReturnBt DEF PairingUpdate
<1>7. CASE PairResultUpdate
  BY <1>4, <1>5, <1>7, ReturnBt DEF PairResultUpdate
<1>8. CASE IdleUpdate
  BY <1>4, <1>5, <1>8, ReturnBt DEF IdleUpdate
<1>9. CASE MenuUpdate
  BY <1>4, <1>5, <1>9, ReturnBt DEF MenuUpdate
<1>10. CASE DisplayOffUpdate
  BY <1>4, <1>5, <1>10, ReturnBt DEF DisplayOffUpdate
<1>11. CASE StreamingUpdate
  BY <1>4, <1>5, <1>11, ReturnBt DEF StreamingUpdate
<1>12. CASE SleepUpdate
  BY <1>12 DEF SleepUpdate, EndUpdate, queueVars, btVars, BtInv, CallMatchesState,
               LocalsInScope, BtFlagsAgree, NoStaleConnected, AsleepBtDown,
               PairSuccessMeansUp, Contents
<1>. QED
  BY <1>1, <1>2, <1>3, <1>6, <1>7, <1>8, <1>9, <1>10, <1>11, <1>12 DEF MainLoop

(* Start-up and teardown change the flags together; what was queued before *)
(* the teardown is drained by PAIR_FAIL or IDLE.                           *)
LEMMA MainCallBt ==
    ASSUME TypeOK, BtInv, MainCall
    PROVE  BtInv'
<1>. USE DEF queueVars, BtInv, CallMatchesState, LocalsInScope, BtFlagsAgree,
             NoStaleConnected, AsleepBtDown, PairSuccessMeansUp, Contents
<1>1. CASE BtInitReturns
  BY <1>1 DEF BtInitReturns
<1>2. CASE StackDown
  BY <1>2 DEF StackDown
<1>3. CASE DeinitReturns
  BY <1>3 DEF DeinitReturns
<1>4. CASE SleepSfxReturns
  BY <1>4 DEF SleepSfxReturns, btVars
<1>5. CASE DeinitFails
  BY <1>5 DEF DeinitFails
<1>6. CASE StackDownRefused
  BY <1>6 DEF StackDownRefused, btVars
<1>. QED
  BY <1>1, <1>2, <1>3, <1>4, <1>5, <1>6 DEF MainCall, BtCall

(* A push of another event, or one while Bluetooth is on. *)
LEMMA PushBt ==
    ASSUME TypeOK, BtInv, NEW e \in Events, Offer(e), UNCHANGED mainVars,
           UNCHANGED audio_enabled, UNCHANGED bt_up, UNCHANGED stop_failed,
           active_connection' => active_connection \/ bt_up
                                   \/ pc \in {"fail_teardown", "pm_teardown"},
           pc # "light_sleep",
           e # "BT_AUDIO_CONNECTED" \/ audio_enabled
    PROVE  BtInv'
<1>1. Contents(queue') \subseteq Contents(queue) \cup {e}
  BY OfferContents
<1>2. NoStaleConnected'
  BY <1>1 DEF NoStaleConnected, BtInv, mainVars
<1>. QED
  BY <1>2 DEF BtInv, mainVars, CallMatchesState, LocalsInScope, BtFlagsAgree,
              AsleepBtDown, PairSuccessMeansUp

(* Events are pushed, and the connection changes, only while awake. *)
LEMMA OtherStepsBt ==
    ASSUME TypeOK, BtInv, TimerDaemon \/ FftTask \/ Environment
    PROVE  BtInv'
<1>1. ASSUME UNCHANGED <<mainVars, queueVars, btVars>>
      PROVE  BtInv'
  BY <1>1 DEF mainVars, queueVars, btVars, BtInv, CallMatchesState, LocalsInScope,
              BtFlagsAgree, NoStaleConnected, AsleepBtDown, PairSuccessMeansUp, Contents
<1>2. CASE IdleTimerFires
  BY <1>1, <1>2, PushBt DEF IdleTimerFires, Events, btVars, Awake
<1>3. ASSUME NEW s \in TimedStates, StateTimerFires(s)
      PROVE  BtInv'
  BY <1>1, <1>3 DEF StateTimerFires
<1>4. CASE FftTask
  BY <1>1, <1>4, PushBt DEF FftTask, FftReadState, FftPushFirstPacket, FftStartTimer,
                            Push, Events, btVars, Awake
<1>5. CASE LongWait \/ PeerPlays
  BY <1>1, <1>5 DEF LongWait, PeerPlays
<1>6. CASE WakeUp
  BY <1>6, ChangeStateBt DEF WakeUp, States, TimedStates
<1>7. CASE BtConnected
  <2>1. audio_enabled
    BY <1>7 DEF BtConnected, BtAppTaskRuns, BtInv, BtFlagsAgree
  <2>. QED
    BY <1>7, <2>1, PushBt DEF BtConnected, BtAppTaskRuns, Push, Events, Awake
<1>8. CASE BtDisconnected
  BY <1>8, PushBt DEF BtDisconnected, Push, Events, Awake
<1>9. ASSUME NEW e \in Buttons, ButtonPress(e)
      PROVE  BtInv'
  BY <1>9, PushBt DEF ButtonPress, Push, Buttons, Events, btVars, Awake
<1>. QED
  BY <1>2, <1>3, <1>4, <1>5, <1>6, <1>7, <1>8, <1>9 DEF TimerDaemon, Environment

(* The Bluetooth flags, the queue and the position of the main task agree. *)
THEOREM BtInvariant == SafetySpec => []BtInv
<1>1. TypeOK /\ BtInv /\ [Next]_vars => BtInv'
  <2> SUFFICES ASSUME TypeOK, BtInv, [Next]_vars PROVE BtInv'
    OBVIOUS
  <2>1. CASE Next
    BY <2>1, MainLoopBt, MainCallBt, OtherStepsBt DEF Next
  <2>2. CASE UNCHANGED vars
    BY <2>2 DEF vars, mainVars, queueVars, btVars, BtInv, CallMatchesState, LocalsInScope,
                BtFlagsAgree, NoStaleConnected, AsleepBtDown, PairSuccessMeansUp,
                Contents
  <2>. QED
    BY <2>1, <2>2
<1>. QED
  BY <1>1, InitBt, TypeCorrect, PTL DEF SafetySpec

(* The chip sleeps with the profiles down, and with Bluetooth disabled     *)
(* unless a teardown has failed.                                           *)
THEOREM SleepsWithBtDown == SafetySpec => []AsleepBtDown
<1>1. BtInv => AsleepBtDown
  BY DEF BtInv
<1>. QED
  BY <1>1, BtInvariant, PTL

(* PAIR_SUCCESS is reached, and stayed in, only while a peer can be        *)
(* connected, unless a teardown has failed.                                *)
THEOREM NoStaleSuccess == SafetySpec => []PairSuccessMeansUp
<1>1. BtInv => PairSuccessMeansUp
  BY DEF BtInv
<1>. QED
  BY <1>1, BtInvariant, PTL

-----------------------------------------------------------------------------
(* STREAMING.  Entering it takes a FIRST_AUDIO_PACKET whose block restarts *)
(* the idle timer, and the timer's one event finds room in the queue, since*)
(* at most Burst events have come since the last drain.                    *)

(* A change of state out of update(), or out of light sleep. *)
LEMMA ChangeStateStream ==
    ASSUME TypeOK, StreamInv, NEW next \in States, sm_change_state(next),
           UNCHANGED <<queueVars, fftVars>>,
           pc = "decide" \/ (pc = "light_sleep" /\ next = "IDLE"),
           current_state = "STREAMING" => next = "IDLE",
           next = "STREAMING" => "FIRST_AUDIO_PACKET" \in seen
    PROVE  StreamInv'
<1>. USE DEF StreamInv, queueVars, fftVars
<1>1. CallMatchesState' /\ LocalsInScope'
  BY DEF CallMatchesState, LocalsInScope, sm_change_state, EntryCall, EndUpdate
<1>2. Contents(queue') = Contents(queue) /\ Len(queue') = Len(queue) /\ pushed \in Nat
  BY DEF TypeOK
<1>3. FirstPacketTimed'
  BY <1>2 DEF FirstPacketTimed, sm_change_state, EntryCall, EndUpdate
<1>4. TimeoutFits'
  <2>1. pc = "decide" => Len(queue) <= pushed
    BY DEF TimeoutFits
  <2>2. next = "STREAMING" => pc = "decide"
    OBVIOUS
  <2>3. pc' # "decide"
    BY DEF sm_change_state, EntryCall
  <2>4. pushed > Burst => next = "IDLE" /\ pc' = "delay" /\ idle_timer \in {"off", "fresh"}
    BY DEF TimeoutFits, sm_change_state, EntryCall, CallMatchesState
  <2>. QED
    BY <1>2, <2>1, <2>2, <2>3, <2>4 DEF TimeoutFits, sm_change_state
<1>5. StreamingHasWayOut'
  BY DEF StreamingHasWayOut, FirstPacketTimed, sm_change_state
<1>. QED
  BY <1>1, <1>3, <1>4, <1>5

(* A return of update() without a change of state and without a timeout. *)
LEMMA ReturnStream ==
    ASSUME TypeOK, StreamInv, Return, UNCHANGED <<queueVars, fftVars>>, pc = "decide",
           current_state = "STREAMING" => "STREAMING_TIMEOUT" \notin seen
    PROVE  StreamInv'
<1>1. Contents(queue') = Contents(queue) /\ Len(queue') = Len(queue)
  BY DEF queueVars
<1>2. pushed > Burst => idle_timer \in {"off", "fresh"} /\ current_state = "STREAMING"
  BY DEF StreamInv, TimeoutFits
<1>. QED
  BY <1>1, <1>2 DEF StreamInv, Return, EndUpdate, queueVars, fftVars, CallMatchesState,
                    LocalsInScope, FirstPacketTimed, TimeoutFits, StreamingHasWayOut

(* At first the queue is empty and the state is PAIRING. *)
LEMMA InitStream == Init => StreamInv
<1> SUFFICES ASSUME Init PROVE StreamInv
  OBVIOUS
<1>1. pc \in {"delay", "bt_init"}
  BY DEF Init, EntryCall
<1>2. /\ current_state = "PAIRING" /\ seen = {} /\ bt_snapshot = FALSE
      /\ pushed = 0 /\ queue = <<>>
  BY DEF Init
<1>3. Contents(queue) = {}
  BY <1>2, EmptyContents
<1>. QED
  BY <1>1, <1>2, <1>3 DEF StreamInv, CallMatchesState, LocalsInScope, FirstPacketTimed,
                          TimeoutFits, StreamingHasWayOut

(* A drained event is in seen if its state listens to it; a packet drained *)
(* in time is acted upon in time.                                          *)
LEMMA ReceiveStream ==
    ASSUME TypeOK, StreamInv, ReceiveEvent
    PROVE  StreamInv'
<1>1. /\ Contents(queue) = {Head(queue)} \cup Contents(queue')
      /\ Len(queue') <= Len(queue)
  BY TailContents DEF ReceiveEvent
<1>2. Len(queue) \in Nat /\ Len(queue') \in Nat /\ pushed \in Nat
  <2>1. queue \in Seq(Events) /\ queue' \in Seq(Events)
    BY DEF TypeOK, ReceiveEvent
  <2>. QED
    BY <2>1 DEF TypeOK
<1>3. CallMatchesState' /\ LocalsInScope'
  BY DEF ReceiveEvent, StreamInv, CallMatchesState, LocalsInScope
<1>4. FirstPacketTimed'
  BY <1>1 DEF ReceiveEvent, StreamInv, FirstPacketTimed, Heard, fftVars
<1>5. TimeoutFits'
  BY <1>1, <1>2 DEF ReceiveEvent, StreamInv, TimeoutFits, fftVars
<1>6. StreamingHasWayOut'
  BY <1>1 DEF ReceiveEvent, StreamInv, StreamingHasWayOut, Heard, fftVars
<1>. QED
  BY <1>3, <1>4, <1>5, <1>6 DEF StreamInv

(* A loop period ages the idle timer; what was pushed with it is drained   *)
(* before the next.                                                        *)
LEMMA BeginUpdateStream ==
    ASSUME TypeOK, StreamInv, BeginUpdate
    PROVE  StreamInv'
<1>1. Contents(queue') = Contents(queue) /\ Len(queue') = Len(queue)
  BY DEF BeginUpdate, queueVars
<1>2. seen = {}
  BY DEF StreamInv, LocalsInScope, BeginUpdate
<1>3. /\ idle_timer = "off" <=> idle_timer' = "off"
      /\ idle_timer = "fresh" => idle_timer' = "aged"
  BY DEF BeginUpdate, Older
<1>4. CallMatchesState' /\ LocalsInScope'
  BY DEF BeginUpdate, StreamInv, CallMatchesState, LocalsInScope
<1>5. FirstPacketTimed'
  BY <1>1, <1>3 DEF BeginUpdate, StreamInv, FirstPacketTimed
<1>6. TimeoutFits'
  BY <1>1, <1>3 DEF BeginUpdate, queueVars, StreamInv, TimeoutFits
<1>7. StreamingHasWayOut'
  BY <1>1, <1>2, <1>3 DEF BeginUpdate, StreamInv, StreamingHasWayOut
<1>. QED
  BY <1>4, <1>5, <1>6, <1>7 DEF StreamInv

(* The loop as a whole. *)
LEMMA MainLoopStream ==
    ASSUME TypeOK, StreamInv, MainLoop
    PROVE  StreamInv'
<1>1. CASE BeginUpdate
  BY <1>1, BeginUpdateStream
<1>2. CASE ReceiveEvent
  BY <1>2, ReceiveStream
<1>3. CASE QueueEmpty
  <2>1. /\ Contents(queue') = {} /\ Len(queue') = 0 /\ pushed' = 0
        /\ Contents(queue) = {}
    BY <1>3, EmptyContents DEF QueueEmpty
  <2>. QED
    BY <1>3, <2>1 DEF QueueEmpty, fftVars, StreamInv, CallMatchesState, LocalsInScope,
                      FirstPacketTimed, TimeoutFits, StreamingHasWayOut
<1>4. {"PAIRING", "PAIR_SUCCESS", "PAIR_FAIL", "IDLE", "STREAMING", "MENU",
       "DISPLAY_OFF", "SLEEP"} \subseteq States
  BY DEF States, TimedStates
<1>5. ASSUME NEW s \in States \ {"STREAMING"}, sm_change_state(s), pc = "decide",
             current_state = "STREAMING" => s = "IDLE",
             UNCHANGED <<queueVars, fftVars>>
      PROVE  StreamInv'
  BY <1>5, ChangeStateStream
<1>6. ASSUME "FIRST_AUDIO_PACKET" \in seen, sm_change_state("STREAMING"), pc = "decide",
             current_state # "STREAMING", UNCHANGED <<queueVars, fftVars>>
      PROVE  StreamInv'
  BY <1>4, <1>6, ChangeStateStream
<1>7. CASE PairingUpdate
  BY <1>4, <1>5, <1>7, ReturnStream DEF PairingUpdate
<1>8. CASE PairResultUpdate
  BY <1>4, <1>5, <1>8, ReturnStream DEF PairResultUpdate
<1>9. CASE IdleUpdate
  BY <1>4, <1>5, <1>6, <1>9, ReturnStream DEF IdleUpdate
<1>10. CASE MenuUpdate
  BY <1>4, <1>5, <1>10, ReturnStream DEF MenuUpdate
<1>11. CASE DisplayOffUpdate
  <2>1. seen \cap Buttons = {} /\ seen # {} => "FIRST_AUDIO_PACKET" \in seen
    BY <1>11 DEF DisplayOffUpdate, StreamInv, LocalsInScope, Heard
  <2>. QED
    BY <1>4, <1>5, <1>6, <1>11, <2>1, ReturnStream DEF DisplayOffUpdate
<1>12. CASE StreamingUpdate
  BY <1>4, <1>5, <1>12, ReturnStream DEF StreamingUpdate
<1>13. CASE SleepUpdate
  <2>1. Contents(queue') = Contents(queue) /\ Len(queue') = Len(queue)
    BY <1>13 DEF SleepUpdate, queueVars
  <2>. QED
    BY <1>13, <2>1 DEF SleepUpdate, EndUpdate, queueVars, fftVars, StreamInv,
                 CallMatchesState, LocalsInScope, FirstPacketTimed, TimeoutFits,
                 StreamingHasWayOut
<1>. QED
  BY <1>1, <1>2, <1>3, <1>7, <1>8, <1>9, <1>10, <1>11, <1>12, <1>13 DEF MainLoop

(* No call that blocks belongs to STREAMING or ages the idle timer. *)
LEMMA MainCallStream ==
    ASSUME TypeOK, StreamInv, MainCall
    PROVE  StreamInv'
<1>1. Contents(queue') = Contents(queue) /\ Len(queue') = Len(queue) /\ pushed' = pushed
  BY DEF MainCall, BtCall, BtInitReturns, StackDown, StackDownRefused, DeinitReturns,
         DeinitFails, SleepSfxReturns, queueVars
<1>. USE DEF StreamInv, CallMatchesState, LocalsInScope, FirstPacketTimed, TimeoutFits,
             StreamingHasWayOut
<1>2. CASE BtInitReturns
  BY <1>1, <1>2 DEF BtInitReturns, fftVars
<1>3. CASE StackDown
  BY <1>1, <1>3 DEF StackDown
<1>4. CASE DeinitReturns
  BY <1>1, <1>4 DEF DeinitReturns, fftVars
<1>5. CASE SleepSfxReturns
  BY <1>1, <1>5 DEF SleepSfxReturns, fftVars
<1>6. CASE DeinitFails
  BY <1>1, <1>6 DEF DeinitFails, fftVars
<1>7. CASE StackDownRefused
  BY <1>1, <1>7 DEF StackDownRefused, fftVars
<1>. QED
  BY <1>2, <1>3, <1>4, <1>5, <1>6, <1>7 DEF MainCall, BtCall

(* A push in time, by a task that leaves the idle timer alone. *)
LEMMA PushStream ==
    ASSUME TypeOK, StreamInv, NEW e \in Events, Push(e), UNCHANGED <<mainVars, idle_timer>>,
           fft_pc = "arm" => fft_pc' = "arm",
           e = "FIRST_AUDIO_PACKET" => fft_pc' = "arm"
    PROVE  StreamInv'
<1>1. /\ Contents(queue') \subseteq Contents(queue) \cup {e}
      /\ Contents(queue) \subseteq Contents(queue')
      /\ Len(queue') <= Len(queue) + 1
  BY OfferContents DEF Push
<1>2. Len(queue) \in Nat /\ Len(queue') \in Nat /\ pushed \in Nat
  <2>1. queue \in Seq(Events) /\ queue' \in Seq(Events)
    BY PushType DEF TypeOK
  <2>. QED
    BY <2>1 DEF TypeOK
<1>3. pc = "decide" \/ current_state = "STREAMING" => InLoop
  BY DEF StreamInv, CallMatchesState, InLoop, LoopPC, TypeOK, MainPC, CallPC
<1>4. CallMatchesState' /\ LocalsInScope'
  BY DEF StreamInv, CallMatchesState, LocalsInScope, mainVars
<1>5. FirstPacketTimed'
  BY <1>1 DEF StreamInv, FirstPacketTimed, mainVars
<1>6. TimeoutFits'
  <2>1. CASE InLoop
    <3>1. pushed' = pushed + 1 /\ pushed < Burst
      BY <2>1 DEF Push
    <3>. QED
      BY <1>1, <1>2, <3>1 DEF StreamInv, TimeoutFits, mainVars
  <2>2. CASE ~InLoop
    BY <1>3, <2>2 DEF StreamInv, TimeoutFits, mainVars, Push
  <2>. QED
    BY <2>1, <2>2
<1>7. StreamingHasWayOut'
  BY <1>1 DEF StreamInv, StreamingHasWayOut, mainVars
<1>. QED
  BY <1>4, <1>5, <1>6, <1>7 DEF StreamInv

(* The idle timer's event finds room, the other tasks restart the timer.   *)
LEMMA OtherStepsStream ==
    ASSUME TypeOK, StreamInv, TimerDaemon \/ FftTask \/ Environment
    PROVE  StreamInv'
<1>1. ASSUME UNCHANGED <<mainVars, queueVars, idle_timer>>,
             fft_pc = "arm" => fft_pc' = "arm"
      PROVE  StreamInv'
  BY <1>1 DEF mainVars, queueVars, StreamInv, CallMatchesState, LocalsInScope,
              FirstPacketTimed, TimeoutFits, StreamingHasWayOut, Contents
<1>2. CASE IdleTimerFires
  <2>1. "FIRST_AUDIO_PACKET" \in seen => fft_pc = "arm"
    BY <1>2 DEF IdleTimerFires, StreamInv, FirstPacketTimed
  <2>2. pushed \in Nat /\ pushed <= Burst
    BY <1>2 DEF IdleTimerFires, StreamInv, TimeoutFits, TypeOK
  <2>3. CallMatchesState' /\ LocalsInScope'
    BY <1>2 DEF IdleTimerFires, StreamInv, CallMatchesState, LocalsInScope, mainVars
  <2>4. CASE current_state = "STREAMING"
    <3>1. Len(queue) \in Nat /\ Len(queue) <= pushed
      <4>1. queue \in Seq(Events)
        BY DEF TypeOK
      <4>. QED
        BY <2>4, <4>1 DEF StreamInv, TimeoutFits
    <3>2. /\ Contents(queue') \subseteq Contents(queue) \cup {"STREAMING_TIMEOUT"}
          /\ "STREAMING_TIMEOUT" \in Contents(queue')
          /\ Len(queue') <= Len(queue) + 1
      BY <1>2, <2>2, <2>4, <3>1, OfferContents DEF IdleTimerFires, Events
    <3>3. Len(queue') \in Nat
      <4>1. queue' \in Seq(Events)
        BY <1>2, <2>4, OfferType DEF IdleTimerFires, Events
      <4>. QED
        BY <4>1
    <3>4. FirstPacketTimed'
      BY <1>2, <2>1, <3>2 DEF IdleTimerFires, StreamInv, FirstPacketTimed, mainVars
    <3>5. TimeoutFits'
      BY <1>2, <2>2, <2>4, <3>1, <3>2, <3>3 DEF IdleTimerFires, TimeoutFits, mainVars
    <3>6. StreamingHasWayOut'
      BY <3>2 DEF StreamingHasWayOut
    <3>. QED
      BY <2>3, <3>4, <3>5, <3>6 DEF StreamInv
  <2>5. CASE current_state # "STREAMING"
    <3>1. Contents(queue') = Contents(queue) /\ Len(queue') = Len(queue) /\ pushed' = pushed
      BY <1>2, <2>5 DEF IdleTimerFires, queueVars
    <3>. QED
      BY <1>2, <2>1, <2>2, <2>3, <2>5, <3>1
      DEF IdleTimerFires, mainVars, StreamInv, FirstPacketTimed, TimeoutFits,
          StreamingHasWayOut
  <2>. QED
    BY <2>4, <2>5
<1>3. ASSUME NEW s \in TimedStates, StateTimerFires(s)
      PROVE  StreamInv'
  BY <1>1, <1>3 DEF StateTimerFires, fftVars
<1>4. CASE FftReadState
  BY <1>1, <1>4 DEF FftReadState
<1>5. CASE FftPushFirstPacket
  BY <1>5, PushStream DEF FftPushFirstPacket, Events
<1>6. CASE FftStartTimer
  <2>1. Contents(queue') = Contents(queue) /\ Len(queue') = Len(queue)
    BY <1>6 DEF FftStartTimer, queueVars
  <2>. QED
    BY <1>6, <2>1 DEF FftStartTimer, mainVars, queueVars, StreamInv, CallMatchesState,
                      LocalsInScope, FirstPacketTimed, TimeoutFits, StreamingHasWayOut
<1>7. CASE LongWait
  <2>1. Contents(queue') = Contents(queue) /\ Len(queue') = Len(queue)
    BY <1>7 DEF LongWait, queueVars
  <2>2. current_state \in {"SLEEP", "PAIR_FAIL"} /\ pc \in {"sleep_sfx", "no_stop"} /\ seen = {}
    BY <1>7 DEF LongWait, StreamInv, CallMatchesState, LocalsInScope
  <2>. QED
    BY <1>7, <2>1, <2>2 DEF LongWait, mainVars, queueVars, StreamInv,
       CallMatchesState, LocalsInScope, FirstPacketTimed, TimeoutFits, StreamingHasWayOut
<1>8. CASE WakeUp
  <2>1. current_state = "SLEEP" /\ "IDLE" \in States
    BY <1>8 DEF WakeUp, StreamInv, CallMatchesState, States, TimedStates
  <2>. QED
    BY <1>8, <2>1, ChangeStateStream DEF WakeUp
<1>9. CASE PeerPlays
  BY <1>1, <1>9 DEF PeerPlays
<1>10. CASE BtConnected \/ BtDisconnected
  BY <1>10, PushStream DEF BtConnected, BtDisconnected, Events, fftVars
<1>11. ASSUME NEW e \in Buttons, ButtonPress(e)
       PROVE  StreamInv'
  BY <1>11, PushStream DEF ButtonPress, Buttons, Events, fftVars
<1>. QED
  BY <1>2, <1>3, <1>4, <1>5, <1>6, <1>7, <1>8, <1>9, <1>10, <1>11
  DEF TimerDaemon, FftTask, Environment

(* The queue, the idle timer and the position of the main task agree. *)
THEOREM StreamInvariant == SafetySpec => []StreamInv
<1>1. TypeOK /\ StreamInv /\ [Next]_vars => StreamInv'
  <2> SUFFICES ASSUME TypeOK, StreamInv, [Next]_vars PROVE StreamInv'
    OBVIOUS
  <2>1. CASE Next
    BY <2>1, MainLoopStream, MainCallStream, OtherStepsStream DEF Next
  <2>2. CASE UNCHANGED vars
    BY <2>2 DEF vars, mainVars, queueVars, fftVars, StreamInv, CallMatchesState,
                LocalsInScope, FirstPacketTimed, TimeoutFits, StreamingHasWayOut, Contents
  <2>. QED
    BY <2>1, <2>2
<1>. QED
  BY <1>1, InitStream, TypeCorrect, PTL DEF SafetySpec

(* STREAMING, deaf to every button, always has its timer counting or its   *)
(* STREAMING_TIMEOUT on the way: the event is never lost to a full queue.  *)
THEOREM StreamingCanEnd == SafetySpec => []StreamingHasWayOut
<1>1. StreamInv => StreamingHasWayOut
  BY DEF StreamInv
<1>. QED
  BY <1>1, StreamInvariant, PTL

-----------------------------------------------------------------------------
(* The Bluetooth session that the states use.                                *)

(* A step that stays on the same side of every call leaves the session alone.*)
LEMMA SameSession ==
    ASSUME UNCHANGED btVars, Stage' = Stage
    PROVE  UNCHANGED S!vars
BY DEF btVars, S!vars

(* Between the calls the session is as its flag and its callbacks say. *)
LEMMA StageBetweenCalls ==
    ASSUME pc \notin {"bt_init", "fail_deinit", "pm_deinit", "fail_teardown", "pm_teardown",
                      "no_stop"}
    PROVE  Stage = IF ~audio_enabled THEN "off" ELSE IF bt_up THEN "on" ELSE "stuck"
BY DEF Stage

(* A change of state calls bt_audio_init() only over a session that is off, *)
(* and bt_audio_deinit() only over one that is on or stuck.                 *)
LEMMA ChangeStateSession ==
    ASSUME TypeOK, NEW next \in States, sm_change_state(next), UNCHANGED btVars,
           pc \in {"decide", "light_sleep"}
    PROVE  S!Start \/ S!Stop \/ UNCHANGED S!vars
<1>1. Stage = IF ~audio_enabled THEN "off" ELSE IF bt_up THEN "on" ELSE "stuck"
  BY StageBetweenCalls
<1>2. UNCHANGED <<audio_enabled, active_connection, bt_up>> /\ pc' = EntryCall(next)
  BY DEF btVars, sm_change_state
<1>3. CASE EntryCall(next) = "bt_init"
  <2>1. ~audio_enabled /\ Stage' = "starting"
    BY <1>2, <1>3 DEF EntryCall, Stage
  <2>. QED
    BY <1>1, <1>2, <2>1 DEF S!Start
<1>4. CASE EntryCall(next) = "fail_deinit"
  <2>1. audio_enabled /\ Stage' = "stopping"
    BY <1>2, <1>4 DEF EntryCall, Stage
  <2>. QED
    BY <1>1, <1>2, <2>1 DEF S!Stop
<1>5. CASE EntryCall(next) \in {"sleep_sfx", "delay"}
  <2>1. Stage' = IF ~audio_enabled THEN "off" ELSE IF bt_up THEN "on" ELSE "stuck"
    BY <1>2, <1>5 DEF Stage
  <2>. QED
    BY <1>1, <2>1, SameSession
<1>. QED
  BY <1>3, <1>4, <1>5 DEF EntryCall

(* update() otherwise stays between the calls, but for the handler that     *)
(* pm_enter_sleep() runs, which asks for the flag as well.                  *)
LEMMA MainLoopSession ==
    ASSUME TypeOK, MainLoop
    PROVE  S!Start \/ S!Stop \/ UNCHANGED S!vars
<1>1. ASSUME pc \in LoopPC, pc' \in LoopPC \cup {"light_sleep"}, UNCHANGED btVars
      PROVE  UNCHANGED S!vars
  BY <1>1, SameSession DEF Stage, LoopPC, btVars
<1>2. CASE BeginUpdate \/ ReceiveEvent \/ QueueEmpty
  BY <1>1, <1>2 DEF BeginUpdate, ReceiveEvent, QueueEmpty, LoopPC
<1>3. ASSUME pc = "decide", UNCHANGED btVars, Return
      PROVE  UNCHANGED S!vars
  BY <1>1, <1>3 DEF Return, LoopPC
<1>4. ASSUME NEW s \in States, sm_change_state(s), pc = "decide", UNCHANGED btVars
      PROVE  S!Start \/ S!Stop \/ UNCHANGED S!vars
  BY <1>4, ChangeStateSession
<1>5. {"PAIRING", "PAIR_SUCCESS", "PAIR_FAIL", "IDLE", "STREAMING", "MENU",
       "DISPLAY_OFF", "SLEEP"} \subseteq States
  BY DEF States, TimedStates
<1>6. CASE PairingUpdate
  BY <1>3, <1>4, <1>5, <1>6 DEF PairingUpdate
<1>7. CASE PairResultUpdate
  BY <1>3, <1>4, <1>5, <1>7 DEF PairResultUpdate
<1>8. CASE IdleUpdate
  BY <1>3, <1>4, <1>5, <1>8 DEF IdleUpdate
<1>9. CASE MenuUpdate
  BY <1>3, <1>4, <1>5, <1>9 DEF MenuUpdate
<1>10. CASE DisplayOffUpdate
  BY <1>3, <1>4, <1>5, <1>10 DEF DisplayOffUpdate
<1>11. CASE StreamingUpdate
  BY <1>3, <1>4, <1>5, <1>11 DEF StreamingUpdate
<1>12. CASE SleepUpdate
  <2>1. pc = "decide" /\ UNCHANGED <<audio_enabled, active_connection, bt_up>>
        /\ pc' = IF audio_enabled THEN "pm_deinit" ELSE "light_sleep"
    BY <1>12 DEF SleepUpdate, btVars
  <2>2. Stage = IF ~audio_enabled THEN "off" ELSE IF bt_up THEN "on" ELSE "stuck"
    BY <2>1, StageBetweenCalls
  <2>3. Stage' = IF audio_enabled THEN "stopping" ELSE "off"
    BY <2>1 DEF Stage
  <2>. QED
    BY <2>1, <2>2, <2>3 DEF S!Stop, S!vars
<1>. QED
  BY <1>2, <1>6, <1>7, <1>8, <1>9, <1>10, <1>11, <1>12 DEF MainLoop

(* The calls take the session from stage to stage. *)
LEMMA MainCallSession ==
    ASSUME TypeOK, BtInv, MainCall
    PROVE  S!Next \/ UNCHANGED S!vars
<1>1. CASE BtInitReturns
  <2>1. PICK ok \in BOOLEAN : bt_up' = ok /\ audio_enabled' = ok
    BY <1>1 DEF BtInitReturns
  <2>2. /\ Stage = "starting" /\ ~audio_enabled /\ ~bt_up
        /\ UNCHANGED active_connection
        /\ Stage' = IF ok THEN "on" ELSE "off"
    BY <1>1, <2>1 DEF BtInitReturns, Stage, BtInv, BtFlagsAgree
  <2>3. CASE ok
    BY <2>1, <2>2, <2>3 DEF S!Next, S!Started
  <2>4. CASE ~ok
    BY <2>1, <2>2, <2>4 DEF S!Next, S!StartFails, TypeOK
  <2>. QED
    BY <2>3, <2>4
<1>2. CASE StackDown
  BY <1>2 DEF StackDown, Stage, S!Next, S!ProfilesDown
<1>3. CASE DeinitReturns
  <2>1. Stage = "down" /\ Stage' = "off"
    BY <1>3 DEF DeinitReturns, Stage
  <2>. QED
    BY <1>3, <2>1 DEF DeinitReturns, S!Next, S!Stopped
<1>4. CASE SleepSfxReturns
  BY <1>4, SameSession DEF SleepSfxReturns, Stage, btVars
<1>5. CASE DeinitFails
  <2>1. Stage = "down" /\ audio_enabled /\ ~bt_up
    BY <1>5 DEF DeinitFails, Stage, BtInv, BtFlagsAgree
  <2>2. Stage' = "stuck"
    BY <1>5, <2>1 DEF DeinitFails, Stage
  <2>. QED
    BY <1>5, <2>1, <2>2 DEF DeinitFails, S!Next, S!StopFails
<1>6. CASE StackDownRefused
  BY <1>6, SameSession DEF StackDownRefused, Stage, btVars
<1>. QED
  BY <1>1, <1>2, <1>3, <1>4, <1>5, <1>6 DEF MainCall, BtCall

(* Of all that happens beside the main task only BtAppTask changes the      *)
(* session, and only its connection.                                        *)
LEMMA OtherStepsSession ==
    ASSUME TypeOK, BtInv, TimerDaemon \/ FftTask \/ Environment
    PROVE  S!Next \/ UNCHANGED S!vars
<1>1. ASSUME UNCHANGED <<pc, btVars>> PROVE UNCHANGED S!vars
  BY <1>1, SameSession DEF Stage, btVars
<1>2. CASE TimerDaemon \/ FftTask
  BY <1>1, <1>2 DEF TimerDaemon, IdleTimerFires, StateTimerFires, FftTask, FftReadState,
     FftPushFirstPacket, FftStartTimer, mainVars
<1>3. ASSUME LongWait \/ PeerPlays \/ \E e \in Buttons : ButtonPress(e)
      PROVE  UNCHANGED S!vars
  BY <1>1, <1>3 DEF LongWait, PeerPlays, ButtonPress, mainVars
<1>4. CASE WakeUp
  BY <1>4, ChangeStateSession DEF WakeUp, States, TimedStates, S!Next
<1>5. CASE BtConnected \/ BtDisconnected
  <2>1. /\ UNCHANGED <<pc, audio_enabled, bt_up>> /\ active_connection' \in BOOLEAN
        /\ bt_up \/ pc \in {"fail_teardown", "pm_teardown"}
    BY <1>5 DEF BtConnected, BtDisconnected, BtAppTaskRuns, mainVars
  <2>2. Stage' = Stage /\ (bt_up \/ Stage = "down")
    BY <2>1 DEF Stage
  <2>. QED
    BY <2>1, <2>2 DEF S!Next, S!Connection
<1>. QED
  BY <1>2, <1>3, <1>4, <1>5 DEF Environment

(* The states use Bluetooth as a session, for every queue length and burst. *)
THEOREM StatesUseSession == SafetySpec => UsesSession
<1>1. Init => S!Init
  <2> SUFFICES ASSUME Init PROVE S!Init
    OBVIOUS
  <2>1. /\ pc = IF audio_enabled THEN "delay" ELSE "bt_init"
        /\ bt_up \in BOOLEAN /\ audio_enabled = bt_up /\ active_connection \in {FALSE, bt_up}
    BY DEF Init, EntryCall
  <2>2. Stage = IF audio_enabled THEN "on" ELSE "starting"
    BY <2>1 DEF Stage
  <2>3. CASE audio_enabled
    BY <2>1, <2>2, <2>3 DEF S!Init
  <2>4. CASE ~audio_enabled
    BY <2>1, <2>2, <2>4 DEF S!Init
  <2>. QED
    BY <2>3, <2>4
<1>2. TypeOK /\ BtInv /\ [Next]_vars => [S!Next]_(S!vars)
  <2> SUFFICES ASSUME TypeOK, BtInv, [Next]_vars PROVE S!Next \/ UNCHANGED S!vars
    OBVIOUS
  <2>1. CASE UNCHANGED vars
    BY <2>1, SameSession DEF vars, mainVars, btVars, Stage
  <2>2. CASE MainLoop
    BY <2>2, MainLoopSession DEF S!Next
  <2>. QED
    BY <2>1, <2>2, MainCallSession, OtherStepsSession DEF Next
<1>. QED
  BY <1>1, <1>2, TypeCorrect, BtInvariant, PTL DEF SafetySpec, UsesSession, S!SafetySpec

-----------------------------------------------------------------------------
(* What the runs check, for every queue length and every burst below it. *)

(* No state is a trap: each that must end has its timer, flag or event. *)
THEOREM NoStateIsATrap == SafetySpec => []NoTrap
BY TypeCorrect, TimedStatesEnd, TimersDoNotOutliveStates, StreamingCanEnd, PTL DEF NoTrap

(* Bluetooth is down in light sleep and up in PAIR_SUCCESS, but for what a *)
(* failed teardown leaves behind.                                          *)
THEOREM BluetoothAsNeeded == SafetySpec => []BtFollowsStates
BY SleepsWithBtDown, NoStaleSuccess, PTL DEF BtFollowsStates
=============================================================================
