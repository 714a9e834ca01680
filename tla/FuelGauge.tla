------------------------------- MODULE FuelGauge -------------------------------
(***************************************************************************)
(* The fuel gauge (main/drivers/MAX17048.c and fuel_gauge_setup in         *)
(* main/daftpunk_speaker.c).  The chip raises flags in its STATUS register *)
(* and, with the first of them, the ALRT bit of CONFIG, which pulls the    *)
(* alert pin low.  The falling edge gives a semaphore to the alert task,   *)
(* which reads STATUS, clears ALRT and calls the callbacks of the flags it *)
(* has read.  CONFIG is changed by read and write back, by the alert task  *)
(* and, while it sets the gauge up, by the main task, without a lock.      *)
(*                                                                         *)
(* The chip is external: its flags stay set (the driver never writes       *)
(* STATUS), it runs on through restarts of the speaker, and up to          *)
(* MaxFaults transfers fail.                                               *)
(***************************************************************************)
EXTENDS Naturals, Sequences

CONSTANTS
    MaxFaults,    \* bound: failed transfers
    MaxRestarts   \* bound: restarts after a failed setup

GaugeAssumption == MaxFaults \in Nat /\ MaxRestarts \in Nat

Flags == {"SOC_LOW", "SOC_CHANGE"}

VARIABLES
    flags,     \* STATUS: the flags raised
    alrt,      \* CONFIG.ALRT; the alert pin is low while it is set
    alsc,      \* CONFIG.ALSC: SOC changes are alerts
    isr,       \* the pin's handler is installed
    sem,       \* max17048_sem
    cbs,       \* flags with a callback
    step,      \* main task: position in Setup
    mcfg,      \* main task: CONFIG as read, or Unread
    task,      \* alert task: "none", "take", "status", "read", "write", "lock" or "call"
    status,    \* alert task: the STATUS it has read
    tcfg,      \* alert task: CONFIG as read
    calls,     \* alert task: callbacks still to call
    faults,    \* failed transfers so far
    restarts,  \* restarts so far
    told,      \* history: flags whose callback ran since the last restart
    deaf,      \* history: the pin is low and its edge is past
    missed     \* history: flags raised when nobody would look at them

chip == <<flags, alrt, alsc>>
main == <<step, mcfg>>
alert == <<task, status, tcfg, calls>>
history == <<told, deaf, missed>>
vars == <<chip, isr, sem, cbs, main, alert, faults, restarts, history>>

\* max17048_init and fuel_gauge_setup.
Setup == << "clear", "install", "enable", "threshold", "create",
            "SOC_CHANGE", "SOC_LOW", "enable" >>

Config == [alrt : BOOLEAN, alsc : BOOLEAN]
Unread == <<>>
Read == <<[alrt |-> alrt, alsc |-> alsc]>>

TypeOK ==
    /\ flags \subseteq Flags
    /\ alrt \in BOOLEAN /\ alsc \in BOOLEAN
    /\ isr \in BOOLEAN /\ sem \in BOOLEAN
    /\ cbs \subseteq Flags
    /\ step \in 1 .. Len(Setup) + 1
    /\ mcfg \in Seq(Config) /\ Len(mcfg) <= 1
    /\ task \in {"none", "take", "status", "read", "write", "lock", "call"}
    /\ status \subseteq Flags
    /\ tcfg \in Config
    /\ calls \subseteq cbs
    /\ faults \in 0 .. MaxFaults
    /\ restarts \in 0 .. MaxRestarts
    /\ told \subseteq Flags
    /\ deaf \in BOOLEAN
    /\ missed \subseteq Flags

Init ==
    /\ flags = {}
    /\ alrt = FALSE
    /\ alsc \in BOOLEAN
    /\ isr = FALSE
    /\ sem = FALSE
    /\ cbs = {}
    /\ step = 1
    /\ mcfg = Unread
    /\ task = "none"
    /\ status = {}
    /\ tcfg = [alrt |-> FALSE, alsc |-> FALSE]
    /\ calls = {}
    /\ faults = 0
    /\ restarts = 0
    /\ told = {}
    /\ deaf = FALSE
    /\ missed = {}

-----------------------------------------------------------------------------
(* The chip and its pin.                                                     *)

\* ALRT becomes on: a falling edge runs alert_gpio_isr_handler, if it is
\* installed.  When ALRT goes off, the pin is ready for another edge.
SetAlrt(on) ==
    /\ alrt' = on
    /\ sem' = (sem \/ (on /\ ~alrt /\ isr))
    /\ deaf' = (on /\ (deaf \/ (~alrt /\ ~isr)))

\* No edge comes of this flag, or it comes too early, and whoever is about to
\* clear ALRT has not seen it: the task has read STATUS already.
Overlooked(f) ==
    \/ ~isr
    \/ alrt /\ (deaf \/ (f \notin status /\ task \in {"read", "write"}))

Raise(f) ==
    /\ f \notin flags
    /\ f = "SOC_CHANGE" => alsc
    /\ flags' = flags \cup {f}
    /\ SetAlrt(TRUE)
    /\ missed' = IF Overlooked(f) THEN missed \cup {f} ELSE missed
    /\ UNCHANGED <<alsc, isr, cbs, main, alert, faults, restarts, told>>

Fault == faults < MaxFaults /\ faults' = faults + 1

-----------------------------------------------------------------------------
(* The main task.                                                            *)

\* Main's next operation, and how it goes on.
At(op) == step <= Len(Setup) /\ Setup[step] = op
Done == step' = step + 1 /\ mcfg' = Unread

\* max17048_register_update of CONFIG: read, then write with one field changed.
MainReadConfig ==
    /\ At("clear") \/ At("enable") \/ At("threshold")
    /\ mcfg = Unread
    /\ mcfg' = Read
    /\ UNCHANGED <<chip, isr, sem, cbs, step, alert, faults, restarts, history>>

MainWriteConfig ==
    /\ mcfg # Unread
    /\ SetAlrt(mcfg[1].alrt /\ ~At("clear"))
    /\ alsc' = IF At("enable") THEN TRUE ELSE mcfg[1].alsc
    /\ Done
    /\ UNCHANGED <<flags, isr, cbs, alert, faults, restarts, told, missed>>

InstallIsr ==
    /\ At("install")
    /\ isr' = TRUE
    /\ Done
    /\ UNCHANGED <<chip, sem, cbs, alert, faults, restarts, history>>

CreateTask ==
    /\ At("create")
    /\ task' = "take"
    /\ Done
    /\ UNCHANGED <<chip, isr, sem, cbs, status, tcfg, calls, faults, restarts, history>>

\* max17048_register_alert_cb; the alert task holds the mutex in its calls.
RegisterCallback(f) ==
    /\ At(f)
    /\ task # "call"
    /\ cbs' = cbs \cup {f}
    /\ Done
    /\ UNCHANGED <<chip, isr, sem, alert, faults, restarts, history>>

\* Setup fails: a transfer, or a callback that keeps the mutex for longer
\* than the ten ticks.  ESP_ERROR_CHECK restarts the speaker; the chip goes
\* on.  A pin that is low is low for good.
SetupFails ==
    /\ restarts < MaxRestarts
    /\ \/ (At("clear") \/ At("enable") \/ At("threshold")) /\ Fault
       \/ At("SOC_CHANGE") /\ task = "call" /\ UNCHANGED faults
       \/ At("SOC_LOW") /\ task = "call" /\ UNCHANGED faults
    /\ restarts' = restarts + 1
    /\ isr' = FALSE /\ sem' = FALSE /\ cbs' = {}
    /\ step' = 1 /\ mcfg' = Unread
    /\ task' = "none" /\ status' = {} /\ calls' = {}
    /\ tcfg' = [alrt |-> FALSE, alsc |-> FALSE]
    /\ told' = {}
    /\ deaf' = alrt
    /\ missed' = flags
    /\ UNCHANGED chip

Main ==
    \/ MainReadConfig \/ MainWriteConfig \/ InstallIsr \/ CreateTask
    \/ \E f \in Flags : RegisterCallback(f)

-----------------------------------------------------------------------------
(* alert_handler_task.                                                       *)

Take ==
    /\ task = "take"
    /\ sem
    /\ sem' = FALSE
    /\ task' = "status"
    /\ UNCHANGED <<chip, isr, cbs, main, status, tcfg, calls, faults, restarts, history>>

ReadStatus ==
    /\ task = "status"
    /\ status' = flags
    /\ task' = "read"
    /\ UNCHANGED <<chip, isr, sem, cbs, main, tcfg, calls, faults, restarts, history>>

\* The task gives up and waits for another edge.
StatusFails ==
    /\ task = "status"
    /\ Fault
    /\ task' = "take"
    /\ deaf' = (deaf \/ (alrt /\ ~sem))
    /\ missed' = missed \cup flags
    /\ UNCHANGED <<chip, isr, sem, cbs, main, status, tcfg, calls, restarts, told>>

\* max17048_clear_alert.
ReadConfig ==
    /\ task = "read"
    /\ tcfg' = [alrt |-> alrt, alsc |-> alsc]
    /\ task' = "write"
    /\ UNCHANGED <<chip, isr, sem, cbs, main, status, calls, faults, restarts, history>>

\* Mutant of ClearAlert: ALRT is written back as it was read.
ClearNothing ==
    /\ task = "write"
    /\ SetAlrt(tcfg.alrt)
    /\ alsc' = tcfg.alsc
    /\ task' = "lock"
    /\ UNCHANGED <<flags, isr, cbs, main, status, tcfg, calls, faults, restarts, told, missed>>

ClearAlert ==
    /\ task = "write"
    /\ SetAlrt(FALSE)
    /\ alsc' = tcfg.alsc
    /\ task' = "lock"
    /\ UNCHANGED <<flags, isr, cbs, main, status, tcfg, calls, faults, restarts, told, missed>>

ClearFails ==
    /\ task \in {"read", "write"}
    /\ Fault
    /\ task' = "lock"
    /\ deaf' = (deaf \/ (alrt /\ ~sem))
    /\ UNCHANGED <<chip, isr, sem, cbs, main, status, tcfg, calls, restarts, told, missed>>

Lock ==
    /\ task = "lock"
    /\ calls' = status \cap cbs
    /\ task' = "call"
    /\ missed' = missed \cup (status \ cbs)
    /\ UNCHANGED <<chip, isr, sem, cbs, main, status, tcfg, faults, restarts, told, deaf>>

\* Mutant of CallBack: only the first callback is called.
CallOne ==
    /\ task = "call"
    /\ \E f \in calls :
           /\ calls' = {}
           /\ told' = told \cup {f}
    /\ UNCHANGED <<chip, isr, sem, cbs, main, task, status, tcfg, faults, restarts, deaf, missed>>

\* soc_change_cb or soc_low_cb.
CallBack ==
    /\ task = "call"
    /\ \E f \in calls :
           /\ calls' = calls \ {f}
           /\ told' = told \cup {f}
    /\ UNCHANGED <<chip, isr, sem, cbs, main, task, status, tcfg, faults, restarts, deaf, missed>>

Unlock ==
    /\ task = "call"
    /\ calls = {}
    /\ task' = "take"
    /\ UNCHANGED <<chip, isr, sem, cbs, main, status, tcfg, calls, faults, restarts, history>>

AlertTask == Take \/ ReadStatus \/ ReadConfig \/ ClearAlert \/ Lock \/ CallBack \/ Unlock

-----------------------------------------------------------------------------
Next ==
    \/ \E f \in Flags : Raise(f)
    \/ Main \/ SetupFails
    \/ AlertTask \/ StatusFails \/ ClearFails

SafetySpec == Init /\ [][Next]_vars

\* Both tasks keep running.
Spec == SafetySpec /\ WF_vars(Main) /\ WF_vars(AlertTask)

-----------------------------------------------------------------------------
Clearing == task \in {"status", "read", "write"}

(* A low pin has somebody who will see to it: the semaphore, or the task    *)
(* before its write to CONFIG, whatever the two unlocked updates of CONFIG  *)
(* do to each other; unless its edge came before the handler was installed  *)
(* (203-221) or a transfer of the task failed (150-155).                    *)
LowPinSeen == alrt => sem \/ Clearing \/ deaf

(* SOC changes are alerts once the gauge is set up: no stale copy of CONFIG  *)
(* written by the other task turns them off again (104-118, 227, 262).      *)
ChangeAlertsOn == step > Len(Setup) => alsc

(* When the alert task waits, every flag that was raised has reached its    *)
(* callback, except those raised before the handler was installed, between  *)
(* the task's read of STATUS and its write to CONFIG (150-155) or behind a  *)
(* pin that gives no edges, and those the task read before their callback   *)
(* was registered or failed to read.                                        *)
FlagsReported ==
    task = "take" /\ ~sem => flags \subseteq told \cup missed

(* A low battery comes to the callback that shows it, with the same         *)
(* exceptions and unless setup fails first.                                 *)
LowBatteryShown == "SOC_LOW" \in flags ~> "SOC_LOW" \in told \cup missed

-----------------------------------------------------------------------------
(* The inductive invariant behind the first three.                           *)

\* The task starts with setup's fifth step, and from the fourth on nobody
\* holds a copy of CONFIG in which SOC changes are no alerts.
SetupInOrder ==
    /\ mcfg # Unread => step <= Len(Setup)
    /\ step <= 5 => task = "none"
    /\ step >= 4 => /\ alsc
                    /\ mcfg # Unread => mcfg[1].alsc
                    /\ task = "write" => tcfg.alsc

\* A flag that is neither reported nor missed is on its way.
FlagsUnderWay ==
    \A f \in flags \ (told \cup missed) :
        \/ sem
        \/ task = "status"
        \/ task \in {"read", "write", "lock"} /\ f \in status
        \/ task = "call" /\ f \in calls

IInv == TypeOK /\ LowPinSeen /\ SetupInOrder /\ FlagsUnderWay
=============================================================================
