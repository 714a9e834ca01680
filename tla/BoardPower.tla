------------------------------ MODULE BoardPower ------------------------------
(***************************************************************************)
(* Board revision, IO expander and power manager (main/BoardRevision.c,    *)
(* main/drivers/PI4IOE5V6408.c, main/Power_Manager.c and the sleep and     *)
(* wake handlers of main/daftpunk_speaker.c).  From revision 2 on, the     *)
(* amplifier's shutdown signal, the status LED's supply and the power LED  *)
(* hang on an I2C expander; earlier boards have the first two on GPIOs.    *)
(* The revision is read from the expander once and cached; every pin       *)
(* change reads a register and writes it back.                             *)
(*                                                                         *)
(* All of it runs in the main task.  A bus transfer may fail, up to        *)
(* MaxFaults times; ESP_ERROR_CHECK restarts the chip, which keeps the     *)
(* expander powered and its registers as they are.                         *)
(***************************************************************************)
EXTENDS Naturals, Sequences

CONSTANTS
    Boards,      \* revisions to build the speaker on
    MaxFaults    \* bound: failed transfers to an expander that is present

\* board_rev_t; V0 stands for V0 and V1.
V2 == 0
V3 == 1
V0 == 8
INVALID == 9

BoardAssumption ==
    /\ Boards \subseteq {V0, V2, V3}
    /\ MaxFaults \in Nat

Rails == {"amp", "rgb", "power"}
Pins == 0 .. 7
Pin == [amp |-> 0, rgb |-> 1, power |-> 5]
VidPins == {2, 3, 4}
VbusPin == 6

VARIABLES
    board,        \* the board's true revision
    exp,          \* the expander's registers, each the set of pins with bit 1
    gpio,         \* amp and rgb GPIO levels, "float" before they are outputs
    revision,     \* the cached revision
    phase,        \* "boot", "fallback", "start", "run", "sleep", "asleep" or "wake"
    step,         \* position in the script of the phase
    failed,       \* the error bits or-ed together in one group of steps
    bt,           \* Bluetooth is enabled
    faults,       \* failed transfers so far
    initFailed,   \* history: PI4IOE5V6408_init failed in this boot
    bad           \* history: rails whose last write failed; "bt" once a
                  \* teardown of Bluetooth has failed

history == <<faults, initFailed, bad>>
vars == <<board, exp, gpio, revision, phase, step, failed, bt, history>>

Registers == {"dir", "out", "hiz", "strap", "default", "mask"}

TypeOK ==
    /\ board \in Boards
    /\ exp \in [Registers -> SUBSET Pins]
    /\ gpio \in [{"amp", "rgb"} -> {"float", "low", "high"}]
    /\ revision \in {V2, V3, V0, INVALID}
    /\ phase \in {"boot", "fallback", "start", "run", "sleep", "asleep", "wake"}
    /\ step \in Nat
    /\ failed \in BOOLEAN
    /\ bt \in BOOLEAN
    /\ faults \in 0 .. MaxFaults
    /\ initFailed \in BOOLEAN
    /\ bad \subseteq Rails \cup {"bt"}

\* The expander after power-up or a software reset.
ResetRegisters ==
    [dir |-> {}, out |-> {}, hiz |-> Pins, strap |-> Pins, default |-> {}, mask |-> {}]

Init ==
    /\ board \in Boards
    /\ exp = ResetRegisters
    /\ gpio = [p \in {"amp", "rgb"} |-> "float"]
    /\ revision = INVALID
    /\ phase = "boot"
    /\ step = 1
    /\ failed = FALSE
    /\ bt = FALSE
    /\ faults = 0
    /\ initFailed = FALSE
    /\ bad = {}

-----------------------------------------------------------------------------
(* The expander's driver.                                                    *)

Present == board # V0

\* A transfer to the expander fails.
TransferFails ==
    IF Present THEN faults < MaxFaults /\ faults' = faults + 1
               ELSE UNCHANGED faults

\* Mutant of PinSet: the register is written without the other pins' bits.
PinWritten(reg, pin, on) ==
    exp' = [exp EXCEPT ![reg] = IF on THEN {pin} ELSE {}]

\* reg_set_pin_template: read, change one bit, write.
PinSet(reg, pin, on) ==
    exp' = [exp EXCEPT ![reg] = IF on THEN @ \cup {pin} ELSE @ \ {pin}]

-----------------------------------------------------------------------------
(* config_io_expander, one entry for each call.  kind says what a failure    *)
(* does: "init" gives up the expander, "check" restarts the chip, "group"    *)
(* sets the error that the "end" of the group tests.                         *)

Set(kind, reg, pin, on) == [kind |-> kind, op |-> "set", reg |-> reg, pin |-> pin, on |-> on]
Call(kind, op) == [kind |-> kind, op |-> op]

\* The sequence of chip calls of PI4IOE5V6408_init, then the VID pins, the
\* revision, the three rails' outputs and the VBUS input with its default.
Script == <<
    Call("init", "reset"), Call("init", "mask"), Call("init", "identify"),
    Set("check", "dir", 2, FALSE), Set("check", "strap", 2, FALSE),
    Set("check", "dir", 3, FALSE), Set("check", "strap", 3, FALSE),
    Set("check", "dir", 4, FALSE), Set("check", "strap", 4, FALSE),
    Call("revision", "revision"),
    Set("group", "dir", Pin.amp, TRUE), Set("group", "out", Pin.amp, FALSE),
    Set("group", "strap", Pin.amp, FALSE), Set("group", "hiz", Pin.amp, FALSE),
    Call("end", "end"),
    Set("group", "dir", Pin.rgb, TRUE), Set("group", "out", Pin.rgb, TRUE),
    Set("group", "strap", Pin.rgb, FALSE), Set("group", "hiz", Pin.rgb, FALSE),
    Call("end", "end"),
    Set("group", "dir", Pin.power, TRUE), Set("group", "out", Pin.power, FALSE),
    Set("group", "strap", Pin.power, FALSE), Set("group", "hiz", Pin.power, FALSE),
    Call("end", "end"),
    Set("group", "dir", VbusPin, FALSE), Set("group", "strap", VbusPin, FALSE),
    Call("group", "read"), Call("group", "read"), Call("group", "vbus"),
    Call("end", "end") >>

\* What a successful call does to the registers.
Effect(call) ==
    CASE call.op = "reset" -> exp' = ResetRegisters
      [] call.op = "mask" -> exp' = [exp EXCEPT !["mask"] = Pins]
      [] call.op = "set" -> PinSet(call.reg, call.pin, call.on)
      [] call.op = "vbus" -> \E present \in BOOLEAN : PinSet("default", VbusPin, present)
      [] OTHER -> UNCHANGED exp

\* The next call of the script succeeds.
ConfigSucceeds ==
    /\ phase = "boot" /\ Present
    /\ step <= Len(Script)
    /\ Script[step].kind # "end"
    /\ Effect(Script[step])
    /\ revision' = IF Script[step].op = "revision" THEN board ELSE revision
    /\ step' = step + 1
    /\ UNCHANGED <<board, gpio, phase, failed, bt, history>>

\* A restart: RAM and GPIOs are reset, the expander is not.
Restart ==
    /\ gpio' = [p \in {"amp", "rgb"} |-> "float"]
    /\ revision' = INVALID
    /\ phase' = "boot"
    /\ step' = 1
    /\ failed' = FALSE
    /\ bt' = FALSE
    /\ initFailed' = FALSE
    /\ bad' = {}

\* Mutant of InitFails: the failure is reported to app_main.
InitFailsAborts ==
    /\ phase = "boot" /\ step <= Len(Script) /\ Script[step].kind = "init"
    /\ TransferFails
    /\ Restart
    /\ UNCHANGED <<board, exp>>

InitFails ==
    /\ phase = "boot" /\ step <= Len(Script) /\ Script[step].kind = "init"
    /\ TransferFails
    /\ initFailed' = TRUE
    /\ phase' = "fallback"
    /\ UNCHANGED <<board, exp, gpio, revision, step, failed, bt, bad>>

CheckFails ==
    /\ phase = "boot" /\ step <= Len(Script) /\ Script[step].kind = "check"
    /\ TransferFails
    /\ Restart
    /\ UNCHANGED <<board, exp>>

\* get_board_revision takes a failed read for a board without expander.
RevisionFails ==
    /\ phase = "boot" /\ step <= Len(Script) /\ Script[step].kind = "revision"
    /\ TransferFails
    /\ revision' = V0
    /\ step' = step + 1
    /\ UNCHANGED <<board, exp, gpio, phase, failed, bt, initFailed, bad>>

GroupCallFails ==
    /\ phase = "boot" /\ step <= Len(Script) /\ Script[step].kind = "group"
    /\ TransferFails
    /\ failed' = TRUE
    /\ step' = step + 1
    /\ UNCHANGED <<board, exp, gpio, revision, phase, bt, initFailed, bad>>

\* A group with an error makes config_io_expander fail and app_main restart.
GroupEnds ==
    /\ phase = "boot" /\ step <= Len(Script) /\ Script[step].kind = "end"
    /\ IF failed
         THEN Restart /\ UNCHANGED <<board, exp, faults>>
         ELSE /\ step' = step + 1
              /\ UNCHANGED <<board, exp, gpio, revision, phase, failed, bt, history>>

ConfigDone ==
    /\ phase = "boot" /\ step > Len(Script)
    /\ phase' = "start"
    /\ UNCHANGED <<board, exp, gpio, revision, step, failed, bt, history>>

\* After a failed init, get_board_revision still asks the expander.
Fallback ==
    /\ phase = "fallback"
    /\ phase' = "start"
    /\ \/ Present /\ revision' = board /\ UNCHANGED faults
       \/ TransferFails /\ revision' = V0
    /\ UNCHANGED <<board, exp, gpio, step, failed, bt, initFailed, bad>>

Boot ==
    \/ ConfigSucceeds \/ InitFails \/ CheckFails \/ RevisionFails
    \/ GroupCallFails \/ GroupEnds \/ ConfigDone \/ Fallback

-----------------------------------------------------------------------------
(* amp_shutdown_assert, rgb_led_enable, power_led_enable.                    *)

\* The level that turns the rail on or off: the amplifier's shutdown signal
\* and the power LED are active low.
High(rail, on) == IF rail = "rgb" THEN on ELSE ~on

SetRail(rail, on) ==
    \/ /\ revision = V0
       /\ gpio' = IF rail = "power" \/ gpio[rail] = "float" THEN gpio
                  ELSE [gpio EXCEPT ![rail] = IF High(rail, on) THEN "high" ELSE "low"]
       /\ UNCHANGED <<exp, faults, bad>>
    \/ /\ revision # V0 /\ Present
       /\ PinSet("out", Pin[rail], High(rail, on))
       /\ bad' = bad \ {rail}
       /\ UNCHANGED <<gpio, faults>>
    \/ /\ revision # V0
       /\ TransferFails
       /\ bad' = bad \cup {rail}
       /\ UNCHANGED <<exp, gpio>>

\* app_main: the power LED, the LED's and the amplifier's GPIOs (the latter
\* on every board), Bluetooth.
Start ==
    /\ phase = "start"
    /\ phase' = "run"
    /\ revision # V0 =>
           \/ Present /\ PinSet("out", Pin.power, FALSE) /\ UNCHANGED <<faults, bad>>
           \/ TransferFails /\ bad' = {"power"} /\ UNCHANGED exp
    /\ revision = V0 => UNCHANGED <<exp, faults, bad>>
    /\ gpio' = [amp |-> "low", rgb |-> "high"]
    /\ bt' \in BOOLEAN
    /\ UNCHANGED <<board, revision, step, failed, initFailed>>

-----------------------------------------------------------------------------
(* The power manager: pm_perform_sleep and pm_perform_wake call the          *)
(* registered handlers in the order of their registration.                   *)

Handlers == <<"bt", "amp", "rgb", "display", "power">>

\* bt_audio_deinit, called while Bluetooth is enabled: it returns early when a
\* call of the stack fails and leaves Bluetooth enabled.  After that, or when
\* its request found the work queue full, it does not return: there is no step.
DeinitBluetooth ==
    /\ bt /\ "bt" \notin bad
    /\ bt' \in BOOLEAN
    /\ bad' = IF bt' THEN bad \cup {"bt"} ELSE bad

EnterSleep ==
    /\ phase = "run"
    /\ phase' = "sleep"
    /\ step' = 1
    /\ UNCHANGED <<board, exp, gpio, revision, failed, bt, history>>

\* The handlers' errors are ignored: those of the rails and of Bluetooth do
\* not even pass them on.
SleepHandler ==
    /\ phase = "sleep" /\ step <= Len(Handlers)
    /\ \/ /\ Handlers[step] \in Rails
          /\ SetRail(Handlers[step], FALSE)
          /\ UNCHANGED bt
       \/ /\ Handlers[step] \notin Rails
          /\ \/ Handlers[step] = "bt" /\ DeinitBluetooth
             \/ (Handlers[step] = "bt" => ~bt) /\ UNCHANGED <<bt, bad>>
          /\ UNCHANGED <<exp, gpio, faults>>
    /\ step' = step + 1
    /\ UNCHANGED <<board, revision, phase, failed, initFailed>>

\* The main task waits in bt_audio_deinit, perhaps for ever.
SleepHandlerWaits ==
    /\ phase = "sleep" /\ step <= Len(Handlers) /\ Handlers[step] = "bt" /\ bt
    /\ UNCHANGED vars

LightSleep ==
    /\ phase = "sleep" /\ step > Len(Handlers)
    /\ phase' = "asleep"
    /\ UNCHANGED <<board, exp, gpio, revision, step, failed, bt, history>>

\* The volume button's pin is low; gpio_trigger_wake gives it back its edges.
Wake ==
    /\ phase = "asleep"
    /\ phase' = "wake"
    /\ step' = 1
    /\ UNCHANGED <<board, exp, gpio, revision, failed, bt, history>>

\* bt_wake finds the I2S task running and does nothing.
WakeHandler ==
    /\ phase = "wake" /\ step <= Len(Handlers)
    /\ \/ Handlers[step] \in Rails /\ SetRail(Handlers[step], TRUE)
       \/ Handlers[step] \notin Rails /\ UNCHANGED <<exp, gpio, faults, bad>>
    /\ step' = step + 1
    /\ UNCHANGED <<board, revision, phase, failed, bt, initFailed>>

Awake ==
    /\ phase = "wake" /\ step > Len(Handlers)
    /\ phase' = "run"
    /\ UNCHANGED <<board, exp, gpio, revision, step, failed, bt, history>>

\* PAIRING enables Bluetooth again, a failed pairing disables it.
EnableBluetooth ==
    /\ phase = "run" /\ ~bt
    /\ bt' = TRUE
    /\ UNCHANGED <<board, exp, gpio, revision, phase, step, failed, history>>

DisableBluetooth ==
    /\ phase = "run"
    /\ DeinitBluetooth
    /\ UNCHANGED <<board, exp, gpio, revision, phase, step, failed, faults, initFailed>>

Power ==
    \/ EnterSleep \/ SleepHandler \/ SleepHandlerWaits \/ LightSleep
    \/ Wake \/ WakeHandler \/ Awake \/ EnableBluetooth \/ DisableBluetooth

Next == Boot \/ Start \/ Power

SafetySpec == Init /\ [][Next]_vars

\* The main task keeps running.
Spec == SafetySpec /\ WF_vars(Boot \/ Start)

-----------------------------------------------------------------------------
\* The level at a rail's pin: an expander pin is driven when it is an output
\* and not Hi-Z; otherwise strapping pulls it down.
Level(rail) ==
    IF ~Present THEN (IF rail = "power" THEN "low" ELSE gpio[rail])
    ELSE IF Pin[rail] \in exp["dir"] \ exp["hiz"]
           THEN IF Pin[rail] \in exp["out"] THEN "high" ELSE "low"
    ELSE IF Pin[rail] \in exp["strap"] THEN "low" ELSE "float"

On(rail) == Level(rail) = IF High(rail, TRUE) THEN "high" ELSE "low"
Off(rail) == Level(rail) = IF High(rail, FALSE) THEN "high" ELSE "low"
Switched == IF board = V0 THEN Rails \ {"power"} ELSE Rails

(* A speaker that knows its board sleeps with its rails off and runs with   *)
(* them on, except for the rails whose own write failed: the                *)
(* read-modify-write of the registers all rails share, restarts in the      *)
(* middle of the configuration and failures of other rails do not disturb   *)
(* a rail (PI4IOE5V6408.c 84-95, BoardRevision.c 97-149).  It sleeps with   *)
(* Bluetooth down, unless a call of the stack failed in a teardown          *)
(* (bt_audio.c 291-316), and then its rails are off all the same            *)
(* (daftpunk_speaker.c 57-65).                                              *)
RailsFollowPower ==
    /\ phase = "asleep" /\ bt => "bt" \in bad
    /\ revision = board /\ (Present => ~initFailed) =>
           \A rail \in Switched \ bad :
               /\ phase = "asleep" => Off(rail)
               /\ phase = "run" => On(rail)

(* The speaker never starts with a half-configured expander: a failure on   *)
(* the way restarts it until everything is set (101-163), and only a        *)
(* failed init skips the rest.                                              *)
NoHalfConfiguration ==
    phase \notin {"boot", "fallback"} /\ Present /\ ~initFailed =>
        /\ {Pin[rail] : rail \in Rails} \subseteq exp["dir"] \ (exp["hiz"] \cup exp["strap"])
        /\ (VidPins \cup {VbusPin}) \cap (exp["dir"] \cup exp["strap"]) = {}
        /\ exp["mask"] = Pins

(* Every board comes up, with an expander that fails now and then and       *)
(* without any.                                                             *)
SpeakerStarts == phase \in {"boot", "fallback", "start"} ~> phase = "run"
-----------------------------------------------------------------------------
(* The inductive invariant behind these two properties.                      *)

\* A call of the script that only sets a pin or the mask has its effect in
\* the registers.
Made(call) ==
    /\ call.op = "mask" => exp["mask"] = Pins
    /\ call.op = "set" => (call.pin \in exp[call.reg] <=> call.on)

\* The script sets every pin of a register once, so that what it has set
\* stays while it goes on without a failure.
ScriptFollowed ==
    phase = "boot" =>
        /\ step \in 1 .. Len(Script) + 1
        /\ failed => step <= Len(Script)
        /\ Present /\ ~failed => \A i \in 1 .. step - 1 : Made(Script[i])

\* All of it is made when the speaker starts; from then on only the levels of
\* the rails change.
ConfigurationMade ==
    Present /\ ~initFailed =>
        \A i \in 1 .. Len(Script) :
            \/ phase = "boot"
            \/ phase \notin {"fallback", "start"} /\ Script[i].op = "set" /\ Script[i].reg = "out"
            \/ Made(Script[i])

\* The position of a rail's handler.
HandlerOf(rail) == CASE rail = "amp" -> 2 [] rail = "rgb" -> 3 [] OTHER -> 5

\* A rail follows the handlers that have run.
RailsFollowHandlers ==
    revision = board /\ (Present => ~initFailed) =>
        \A rail \in Switched \ bad :
            /\ \/ phase = "asleep"
               \/ phase = "sleep" /\ step > HandlerOf(rail)
               \/ phase = "wake" /\ step <= HandlerOf(rail)
               => Off(rail)
            /\ \/ phase = "run"
               \/ phase = "sleep" /\ step <= HandlerOf(rail)
               \/ phase = "wake" /\ step > HandlerOf(rail)
               => On(rail)

\* The first handler ends Bluetooth, or has failed to.
BluetoothEnds ==
    /\ phase \in {"sleep", "wake"} => step \in 1 .. Len(Handlers) + 1
    /\ bt /\ ((phase = "sleep" /\ step > 1) \/ phase = "asleep") => "bt" \in bad

IInv ==
    /\ TypeOK /\ ScriptFollowed /\ ConfigurationMade
    /\ RailsFollowHandlers /\ BluetoothEnds
=============================================================================
