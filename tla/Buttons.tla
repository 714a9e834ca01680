-------------------------------- MODULE Buttons --------------------------------
(***************************************************************************)
(* The buttons (main/Buttons.c).  Any edge of a button's pin raises its    *)
(* interrupt; the handler reads the pin when it runs, so that two edges    *)
(* before it are one interrupt.  A volume button is stepped by its release *)
(* when the press was short, and by a one-shot timer, which is started     *)
(* again for as long as the button is held.  The timer's commands and its  *)
(* callback are executed by FreeRTOS's timer task.                         *)
(*                                                                         *)
(* Time is counted in units of which the code's periods are multiples; the *)
(* time stamps wrap at Width as the code's wrap at 2^32.  Pushing an event *)
(* is EventManager's subject.  No button is held for Width ticks, which is *)
(* 49 days.                                                                *)
(***************************************************************************)
EXTENDS Naturals, Sequences

CONSTANTS
    VolumeKeys,   \* VOLUME_PLUS, VOLUME_MINUS
    PairKeys,     \* the pair button
    Debounce,     \* DEBOUNCE_PERIOD
    Short,        \* SHORT_PRESS_PERIOD
    Period,       \* VOL_TIMER_PERIOD
    Width,        \* time stamps are counted modulo Width
    TimerQueue,   \* places of the timer task's queue
    Off

ButtonsAssumption ==
    /\ VolumeKeys \cap PairKeys = {} /\ Off \notin VolumeKeys \cup Nat
    /\ Debounce \in Nat /\ Short \in Nat /\ Period \in Nat /\ Width \in Nat
    /\ 0 < Debounce /\ Debounce <= Short /\ Short = Period /\ 2 * Period < Width
    /\ TimerQueue \in Nat \ {0}

Buttons == VolumeKeys \cup PairKeys

VARIABLES
    now,         \* esp_log_timestamp()
    down,        \* the pin is low
    intr,        \* the pin's interrupt is pending
    press_time,  \* the time stamp of the last press the handler has seen
    left,        \* the timer's remaining time, or Off
    commands,    \* the timer task's queue: command, key and age
    callback,    \* the key volume_timer_func has found pressed, or Off
    hold,        \* history: how long the button is or was down, up to Width - 1
    given,       \* history: the short-press events of the press, up to Width
    longs,       \* history: its long-press events
    unstarted    \* history: no command started the timer at the press

pins == <<down, intr>>
timers == <<left, commands, callback>>
events == <<given, longs>>
history == <<hold, events, unstarted>>
vars == <<now, pins, press_time, timers, history>>

Command == [start : BOOLEAN, key : VolumeKeys, age : 0 .. Period]

TypeOK ==
    /\ now \in 0 .. Width - 1
    /\ down \in [Buttons -> BOOLEAN]
    /\ intr \in [Buttons -> BOOLEAN]
    /\ press_time \in [Buttons -> 0 .. Width - 1]
    /\ left \in [VolumeKeys -> 0 .. Period \cup {Off}]
    /\ commands \in Seq(Command) /\ Len(commands) <= TimerQueue
    /\ callback \in VolumeKeys \cup {Off}
    /\ hold \in [Buttons -> 0 .. Width - 1]
    /\ given \in [Buttons -> 0 .. Width]
    /\ longs \in [Buttons -> 0 .. Width]
    /\ unstarted \in [VolumeKeys -> BOOLEAN]

\* A button may be held while the speaker starts; nobody sees that press.
Init ==
    /\ now = 0
    /\ down \in [Buttons -> BOOLEAN]
    /\ intr = [b \in Buttons |-> FALSE]
    /\ press_time = [b \in Buttons |-> 0]
    /\ left = [k \in VolumeKeys |-> Off]
    /\ commands = <<>>
    /\ callback = Off
    /\ hold = [b \in Buttons |-> 0]
    /\ given = [b \in Buttons |-> 0]
    /\ longs = [b \in Buttons |-> 0]
    /\ unstarted = [k \in VolumeKeys |-> TRUE]

-----------------------------------------------------------------------------
(* The user and the clock.                                                   *)

Edge(b) ==
    /\ down' = [down EXCEPT ![b] = ~@]
    /\ intr' = [intr EXCEPT ![b] = TRUE]
    /\ IF down[b] THEN UNCHANGED history
       ELSE /\ hold' = [hold EXCEPT ![b] = 0]
            /\ given' = [given EXCEPT ![b] = 0]
            /\ longs' = [longs EXCEPT ![b] = 0]
            /\ unstarted' = [k \in VolumeKeys |-> k # b /\ unstarted[k]]
    /\ UNCHANGED <<now, press_time, timers>>

Older(c) == [start |-> c.start, key |-> c.key,
             age |-> IF c.age < Period THEN c.age + 1 ELSE Period]

Tick ==
    /\ now' = (now + 1) % Width
    /\ hold' = [b \in Buttons |->
           IF down[b] /\ hold[b] < Width - 1 THEN hold[b] + 1 ELSE hold[b]]
    /\ left' = [k \in VolumeKeys |-> IF left[k] \in {0, Off} THEN left[k] ELSE left[k] - 1]
    /\ commands' = [i \in DOMAIN commands |-> Older(commands[i])]
    /\ UNCHANGED <<pins, press_time, callback, events, unstarted>>

-----------------------------------------------------------------------------
(* gpio_isr_handler.                                                         *)

\* xTimerStart and xTimerStop do not wait: a full queue drops the command.
Post(k, start) ==
    /\ commands' = IF Len(commands) < TimerQueue
                   THEN Append(commands, [start |-> start, key |-> k, age |-> 0])
                   ELSE commands
    /\ unstarted' = [unstarted EXCEPT ![k] = @ \/ (start /\ Len(commands) = TimerQueue)]

Gives(b) ==
    /\ given' = [given EXCEPT ![b] = IF @ < Width THEN @ + 1 ELSE @]
    /\ UNCHANGED longs
GivesLong(b) ==
    /\ longs' = [longs EXCEPT ![b] = IF @ < Width THEN @ + 1 ELSE @]
    /\ UNCHANGED given

Pressed(b) ==
    /\ intr[b] /\ down[b]
    /\ intr' = [intr EXCEPT ![b] = FALSE]
    /\ press_time' = [press_time EXCEPT ![b] = now]
    /\ IF b \in PairKeys THEN UNCHANGED <<commands, unstarted>> ELSE Post(b, TRUE)
    /\ UNCHANGED <<now, down, left, callback, hold, events>>

\* Mutant of Delta: time stamps are compared as if they never wrapped.
DeltaSaturating(b) == IF now >= press_time[b] THEN now - press_time[b] ELSE 0

\* The unsigned subtraction of the handlers.
Delta(b) == (now + Width - press_time[b]) % Width

Released(b) ==
    /\ intr[b] /\ ~down[b]
    /\ intr' = [intr EXCEPT ![b] = FALSE]
    /\ IF b \in PairKeys THEN UNCHANGED <<commands, unstarted>> ELSE Post(b, FALSE)
    /\ \/ Delta(b) < Debounce /\ UNCHANGED events
       \/ Delta(b) >= Debounce /\ Delta(b) <= Short /\ Gives(b)
       \/ Delta(b) > Short /\ b \in PairKeys /\ GivesLong(b)
       \/ Delta(b) > Short /\ b \in VolumeKeys /\ UNCHANGED events
    /\ UNCHANGED <<now, down, press_time, left, callback, hold>>

-----------------------------------------------------------------------------
(* The timer task: it takes its queue's next command or runs an expired      *)
(* timer's callback.                                                         *)

NoCallback == UNCHANGED <<callback, events>>

\* Mutant of Callback: the pin is not read.
CallbackBlind(k, waiting) ==
    /\ callback' = k
    /\ Gives(k)

\* volume_timer_func reads the pin first.  The timer is an earlier press's if
\* an edge since has not been handled, or a command not been taken.
Callback(k, waiting) ==
    LET earlier == intr[k] \/ \E i \in DOMAIN waiting : waiting[i].key = k
    IN IF ~down[k] THEN NoCallback
       ELSE /\ callback' = k
            /\ IF earlier THEN UNCHANGED events ELSE Gives(k)

\* A command to start counts from when it was posted.
TakeCommand ==
    /\ callback = Off
    /\ commands # <<>>
    /\ LET c == Head(commands)
       IN IF c.start /\ c.age < Period
          THEN /\ left' = [left EXCEPT ![c.key] = Period - c.age]
               /\ NoCallback
          ELSE /\ left' = [left EXCEPT ![c.key] = Off]
               /\ IF c.start THEN Callback(c.key, Tail(commands)) ELSE NoCallback
    /\ commands' = Tail(commands)
    /\ UNCHANGED <<now, pins, press_time, hold, unstarted>>

Expire(k) ==
    /\ callback = Off
    /\ left[k] = 0
    /\ left' = [left EXCEPT ![k] = Off]
    /\ Callback(k, commands)
    /\ UNCHANGED <<now, pins, press_time, commands, hold, unstarted>>

\* The event is pushed and the timer started again.
Restart ==
    /\ callback # Off
    /\ Post(callback, TRUE)
    /\ callback' = Off
    /\ UNCHANGED <<now, pins, press_time, left, hold, events>>

-----------------------------------------------------------------------------
Isr(b) == Pressed(b) \/ Released(b)
TimerTask == TakeCommand \/ Restart \/ \E k \in VolumeKeys : Expire(k)

Next ==
    \/ \E b \in Buttons : Edge(b) \/ Isr(b)
    \/ Tick
    \/ TimerTask

\* Interrupts and the timer task have nothing to do.
Settled ==
    /\ \A b \in Buttons : ~intr[b]
    /\ \A k \in VolumeKeys : left[k] # 0
    /\ commands = <<>>
    /\ callback = Off

\* Interrupts and the timer task are on time: they run before the next edge of
\* their pin and before the clock goes on.
PromptNext ==
    \/ \E b \in Buttons : (~intr[b] /\ Edge(b)) \/ Isr(b)
    \/ Settled /\ Tick
    \/ TimerTask

SafetySpec == Init /\ [][Next]_vars

\* Interrupts and the timer task run at last, and time passes.
Spec ==
    /\ SafetySpec
    /\ WF_vars(Tick) /\ WF_vars(TimerTask)
    /\ \A b \in Buttons : WF_vars(Isr(b))

-----------------------------------------------------------------------------
\* b's last press is over and handled; it was shorter than 49 days.
Over(b) == ~down[b] /\ Settled /\ hold[b] < Width - 1

(* Whatever the contacts bounce, a press of the pair button gives exactly   *)
(* one event, chosen by how long it was held, and none if it was too short  *)
(* (177-206), while every edge is handled before the next.                  *)
PairClassified ==
    \A b \in PairKeys : Over(b) =>
        LET h == hold[b]
        IN /\ given[b] = IF Debounce <= h /\ h <= Short THEN 1 ELSE 0
           /\ longs[b] = IF h > Short THEN 1 ELSE 0

(* A press of a volume button gives one step for each full period, and one  *)
(* if it was short (121-166, 208-236): two if it ends with the first period *)
(* and the timer comes before the release.  Events of an earlier press's    *)
(* timer are not counted.                                                   *)
VolumeSteps ==
    \A k \in VolumeKeys : Over(k) =>
        LET h == hold[k]
            steps == given[k]
        IN /\ steps <= h \div Period + (IF Debounce <= h /\ h <= Short THEN 1 ELSE 0)
           /\ h >= Debounce /\ ~unstarted[k] => steps >= 1 /\ steps >= (h - 1) \div Period

(* However late interrupts and the timer task are, a press gives no more    *)
(* than one step for each full period and one for its release.              *)
StepsBounded ==
    \A k \in VolumeKeys :
        hold[k] < Width - 1 /\ ~unstarted[k] =>
            given[k] <= hold[k] \div Period + 1

(* A button that is held steps the volume again and again, unless the timer *)
(* task's queue was full at a command to start its timer (131, 230).        *)
HeldRepeats ==
    \A k \in VolumeKeys :
        <>[](down[k] /\ ~unstarted[k]) => []<><<Restart /\ callback = k>>_vars

(* The timer of a button that stays released runs out, though a command to  *)
(* stop it may be dropped or overtaken by the callback's restart (141, 230).*)
ReleasedStops ==
    \A k \in VolumeKeys : <>[]~down[k] => <>[](left[k] = Off /\ callback # k)
=============================================================================
