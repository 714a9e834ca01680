-------------------------------- MODULE MCBoard --------------------------------
(***************************************************************************)
(* The RGB LED (RgbManager), the display while pairing (PairingDisplay),   *)
(* the supply of board and peripherals (BoardPower), the fuel gauge's      *)
(* alerts (FuelGauge) and its registers (GaugeRegisters).  They share no   *)
(* variable: each behaviour is one of one part.                            *)
(*                                                                         *)
(* In the run the display has two columns, for texts that are narrower, as *)
(* wide and wider.  The gauge measures words whose bytes differ, on both   *)
(* sides of the sign; its thresholds and voltages are on and beyond the    *)
(* limits.                                                                 *)
(***************************************************************************)
EXTENDS Integers, Sequences

CONSTANTS
    None, Boards, BoardFaults, GaugeFaults, MaxRestarts,
    Cols, SearchWidth, Names, Addresses, EyeFrames, Closed, EyeUpdates, ArrowFrames,
    Words, Thresholds, Voltages

Eyes == <<2, 1, 2, 3>>
Arrows == <<2, 3>>
Readings == {<<1, 128>>, <<254, 3>>}

\* -2^-22 V, 0, 3.3f, 5.1f and the float after it.
Limits == {-1, 0, 13841203, 21390950, 21390952}

VARIABLES
    part,
    current_state, rgb_data, pixel, led, led_pc, colour, screen, enabled, event_pc, led_raced,
    mode, sub, idx, cnt, bt_name, address, eye, arrow, entered, at, held,
    board, exp, gpio, revision, phase, step, failed, bt, faults, initFailed, bad,
    flags, alrt, alsc, isr, sem, cbs, setup, mcfg, task, status, tcfg, calls, bus_faults,
    restarts, told, deaf, missed,
    reg, reading, wanted

L == INSTANCE RgbManager WITH pc <- led_pc, raced <- led_raced
D == INSTANCE PairingDisplay
B == INSTANCE BoardPower WITH MaxFaults <- BoardFaults
G == INSTANCE FuelGauge WITH MaxFaults <- GaugeFaults, step <- setup, faults <- bus_faults
R == INSTANCE GaugeRegisters

ASSUME PartsAssumption ==
       /\ D!PairingAssumption /\ B!BoardAssumption
       /\ G!GaugeAssumption /\ R!ArgumentAssumption

ledVars == <<current_state, rgb_data, pixel, led, led_pc, colour, screen, enabled, event_pc,
             led_raced>>
pairingVars == <<mode, sub, idx, cnt, bt_name, address, eye, arrow, entered, at, held>>
powerVars == <<board, exp, gpio, revision, phase, step, failed, bt, faults, initFailed, bad>>
gaugeVars == <<flags, alrt, alsc, isr, sem, cbs, setup, mcfg, task, status, tcfg, calls,
               bus_faults, restarts, told, deaf, missed>>
registerVars == <<reg, reading, wanted>>
boardVars == <<ledVars, pairingVars, powerVars, gaugeVars, registerVars>>

MCInit ==
    /\ part \in {"led", "pairing", "power", "gauge", "registers"}
    /\ L!Init /\ D!Init /\ B!Init /\ G!Init /\ R!Init
    /\ part # "led" => ~enabled
    /\ part # "power" => board = B!V0
    /\ part # "gauge" => ~alsc

\* The gauge may have nothing more to report.
MCNext ==
    /\ UNCHANGED part
    /\ \/ /\ part = "led" /\ L!Next
          /\ UNCHANGED <<pairingVars, powerVars, gaugeVars, registerVars>>
       \/ /\ part = "pairing" /\ D!Next
          /\ UNCHANGED <<ledVars, powerVars, gaugeVars, registerVars>>
       \/ /\ part = "power" /\ B!Next
          /\ UNCHANGED <<ledVars, pairingVars, gaugeVars, registerVars>>
       \/ /\ part = "gauge" /\ G!Next
          /\ UNCHANGED <<ledVars, pairingVars, powerVars, registerVars>>
       \/ /\ part = "registers" /\ R!Next
          /\ UNCHANGED <<ledVars, pairingVars, powerVars, gaugeVars>>
       \/ part = "gauge" /\ UNCHANGED boardVars

MCSpec ==
    /\ MCInit /\ [][MCNext]_<<part, boardVars>>
    /\ WF_ledVars(part = "led" /\ (L!SetRgbLed("rgb") \/ L!Animate) /\ L!CountRace)
    /\ WF_ledVars(part = "led" /\ L!SetRgbLed("main") /\ L!CountRace)
    /\ WF_pairingVars(part = "pairing" /\ D!Update)
    /\ WF_powerVars(part = "power" /\ (B!Boot \/ B!Start))
    /\ WF_gaugeVars(part = "gauge" /\ G!Main)
    /\ WF_gaugeVars(part = "gauge" /\ G!AlertTask)

-----------------------------------------------------------------------------
(* In RGB_MANUAL the LED keeps the colour the main task set last, unless    *)
(* the animation was being set at once (rgb_manager.c 120-212); the display *)
(* of PAIRING keeps to its columns and frames.                              *)
LightsRight ==
    /\ L!TypeOK /\ L!ManualColourKept
    /\ part = "pairing" => D!TypeOK

(* While PAIRING the LED comes to pulse in its pure colours when its state  *)
(* says so for good (rgb_manager.c 120-212).  A text enters the display     *)
(* from the right whenever PAIRING is entered or its state machine moves    *)
(* on, whatever the shared counter was used for (pairing_state.c 286-296,   *)
(* 331-343, 377-387); every frame of an animation is drawn as often as its  *)
(* hold count says (Animation.c 30-53); and as long as PAIRING lasts the    *)
(* three displays take turns, also while the address comes and goes         *)
(* (pairing_state.c 313-322, 365-368, 400-437).                             *)
PairingShown ==
    /\ part = "led" => L!PairingPulses
    /\ D!TextEntersRight
    /\ D!FramesHeld
    /\ part = "pairing" => D!DisplaysTakeTurns

(* A speaker that knows its board sleeps with its rails off and runs with   *)
(* them on, except for those whose own write failed (PI4IOE5V6408.c 84-95,  *)
(* BoardRevision.c 97-149), and with Bluetooth down unless its teardown     *)
(* failed (bt_audio.c 291-316); and it never starts with a half-configured  *)
(* expander (101-163).  A board whose expander init failed (initFailed) is  *)
(* left out: its rails are where the expander's reset left them.            *)
RailsRight ==
    part = "power" => B!TypeOK /\ B!RailsFollowPower /\ B!NoHalfConfiguration

(* Every board comes up, with an expander that fails now and then and       *)
(* without any.                                                             *)
SpeakerStarts == part = "power" => B!SpeakerStarts

(* A low alert pin has somebody who will see to it, unless its edge or a    *)
(* transfer was lost; no stale copy of CONFIG turns the alerts of SOC       *)
(* changes off again; and when the alert task waits, every flag that was    *)
(* raised has reached its callback, but for the windows that FuelGauge      *)
(* names (MAX17048.c 104-118, 131-221, 227, 262).                           *)
AlertsHeard ==
    part = "gauge" => G!TypeOK /\ G!LowPinSeen /\ G!ChangeAlertsOn /\ G!FlagsReported

(* A low battery comes to the callback that shows it, with the same         *)
(* exceptions (MAX17048.c 131-182), and no setting acknowledges an alert    *)
(* (290-294).                                                               *)
LowBatteryShown ==
    /\ R!SettingsKeepAlert
    /\ part = "gauge" => G!LowBatteryShown

(* After any sequence of settings every field of the gauge's registers      *)
(* holds the one last accepted, a voltage to within a step (MAX17048.c      *)
(* 278-327), and a reading is what the chip meant by the bytes it sent      *)
(* (248-276, 344-366).                                                      *)
SettingsRight ==
    /\ part = "registers" => R!TypeOK
    /\ R!SettingsKept /\ R!ReadingsRight
===============================================================================
