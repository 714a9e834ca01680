----------------------------- MODULE RgbManager -----------------------------
(***************************************************************************)
(* The RGB LED (rgb_manager.c).  Its own task animates it in the states    *)
(* RGB_PAIRING and RGB_LOW_BATTERY; in RGB_MANUAL it keeps what the main   *)
(* task has set.  The main task sets the LED's state and colour as it goes *)
(* through the system states; the event manager's task and the fuel        *)
(* gauge's alert task set the state alone.  The LED's state, rgb_data and  *)
(* the strip driver's buffer are shared by all of them without a lock.     *)
(*                                                                         *)
(* RGB_1HZ_CYCLE is set by nobody, and BLINK_N only by oneshot_blink(),    *)
(* which nobody calls.                                                     *)
(***************************************************************************)
EXTENDS Naturals

VARIABLES
    current_state,  \* rgb_manager.c: current_state
    rgb_data,       \* the colour to be set, one component at a time
    pixel,          \* the strip driver's buffer
    led,            \* what the LED shows
    pc,             \* where each task is in set_rgb_led()
    colour,         \* the arguments of its call
    screen,         \* the main task's system state, as far as the LED goes
    enabled,        \* bt_audio_enabled()
    event_pc,       \* where bt_disconnected_action() is
    raced           \* history: since the last manual colour two tasks set the LED

ledVars == <<rgb_data, pixel, led>>
mainVars == <<screen, enabled>>
vars == <<current_state, ledVars, pc, colour, mainVars, event_pc, raced>>

Tasks == {"main", "rgb"}
RgbStates == {"RGB_MANUAL", "RGB_PAIRING", "RGB_LOW_BATTERY"}
Colours == {"off", "green", "red", "orange", "pairing", "battery"}
Components == {"r", "g", "b"}
Plain(c) == [i \in Components |-> c]

(* IDLE stands for the states that leave the LED alone, too. *)
Screens == {"PAIRING", "PAIR_SUCCESS", "FAILING", "PAIR_FAIL", "LEAVING", "IDLE"}

TypeOK ==
    /\ current_state \in RgbStates
    /\ rgb_data \in [Components -> Colours]
    /\ pixel \in [Components -> Colours]
    /\ led \in [Components -> Colours]
    /\ pc \in [Tasks -> {"idle", "r", "g", "b", "pixel", "refresh"}]
    /\ colour \in [Tasks -> Colours]
    /\ screen \in Screens
    /\ enabled \in BOOLEAN
    /\ event_pc \in {"idle", "set"}
    /\ raced \in BOOLEAN

(* The state machine starts in PAIRING, the LED's state set by app_main. *)
Init ==
    /\ current_state = "RGB_PAIRING"
    /\ rgb_data = Plain("off") /\ pixel = Plain("off") /\ led = Plain("off")
    /\ pc = [t \in Tasks |-> "idle"]
    /\ colour = [t \in Tasks |-> "off"]
    /\ screen = "PAIRING"
    /\ enabled \in BOOLEAN
    /\ event_pc = "idle"
    /\ raced = FALSE

-----------------------------------------------------------------------------
(* set_rgb_led(), called by the main task and by the RGB task. *)

Goto(t, next) == pc' = [pc EXCEPT ![t] = next]

(* rgb_data.r = r; rgb_data.g = g; rgb_data.b = b; *)
StoreColour(t) ==
    /\ pc[t] \in Components
    /\ rgb_data' = [rgb_data EXCEPT ![pc[t]] = colour[t]]
    /\ Goto(t, CASE pc[t] = "r" -> "g" [] pc[t] = "g" -> "b" [] OTHER -> "pixel")
    /\ UNCHANGED <<current_state, pixel, led, colour, mainVars, event_pc>>

(* Mutant of SetPixel: the strip is refreshed before it has the new colour. *)
SetPixelTooLate(t) ==
    /\ pc[t] = "pixel"
    /\ pixel' = rgb_data
    /\ led' = pixel
    /\ Goto(t, "idle")
    /\ UNCHANGED <<current_state, rgb_data, colour, mainVars, event_pc>>

(* strip->set_pixel() with the colour now in rgb_data. *)
SetPixel(t) ==
    /\ pc[t] = "pixel"
    /\ pixel' = rgb_data
    /\ Goto(t, "refresh")
    /\ UNCHANGED <<current_state, rgb_data, led, colour, mainVars, event_pc>>

(* strip->refresh() sends the driver's buffer to the LED. *)
Refresh(t) ==
    /\ pc[t] = "refresh"
    /\ led' = pixel
    /\ Goto(t, "idle")
    /\ UNCHANGED <<current_state, rgb_data, pixel, colour, mainVars, event_pc>>

SetRgbLed(t) == StoreColour(t) \/ SetPixel(t) \/ Refresh(t)

-----------------------------------------------------------------------------
(* The RGB task: one round of its loop; MANUAL only waits. *)
Animate ==
    /\ pc["rgb"] = "idle"
    /\ \/ /\ current_state = "RGB_PAIRING"
          /\ colour' = [colour EXCEPT !["rgb"] = "pairing"]
       \/ /\ current_state = "RGB_LOW_BATTERY"
          /\ colour' = [colour EXCEPT !["rgb"] = "battery"]
    /\ Goto("rgb", "r")
    /\ UNCHANGED <<current_state, ledVars, mainVars, event_pc>>

-----------------------------------------------------------------------------
(* The main task. *)

(* The states' calls of set_rgb_state(RGB_MANUAL) and set_rgb_led(): from  *)
(* which screen to which, and the colour.                                  *)
ManualCalls ==
    {<<"PAIRING", "PAIRING", "orange">>,        \* BT_AUDIO_CONNECTING
     <<"PAIRING", "PAIR_SUCCESS", "green">>,
     <<"FAILING", "PAIR_FAIL", "red">>,
     <<"PAIR_FAIL", "LEAVING", "off">>,         \* on_exit ...
     <<"LEAVING", "IDLE", "off">>,              \* ... and on_enter of IDLE
     <<"PAIR_SUCCESS", "IDLE", "off">>,
     <<"IDLE", "IDLE", "off">>}                 \* from STREAMING, MENU, ...

SetManual ==
    \E call \in ManualCalls :
        /\ pc["main"] = "idle" /\ screen = call[1]
        /\ screen' = call[2]
        /\ current_state' = "RGB_MANUAL"
        /\ colour' = [colour EXCEPT !["main"] = call[3]]
        /\ Goto("main", "r")
        /\ UNCHANGED <<ledVars, enabled, event_pc>>

(* pairing_state_on_enter(): Bluetooth is started if it is off, which may  *)
(* fail, then the LED is to pulse.                                         *)
EnterPairing ==
    /\ pc["main"] = "idle" /\ screen = "IDLE"
    /\ screen' = "PAIRING"
    /\ enabled' \in {TRUE, enabled}
    /\ current_state' = "RGB_PAIRING"
    /\ UNCHANGED <<ledVars, pc, colour, event_pc>>

(* bt_audio_deinit() on the way to PAIR_FAIL or into light sleep. *)
ShutDown ==
    /\ pc["main"] = "idle" /\ screen \in {"PAIRING", "IDLE"}
    /\ screen' = IF screen = "PAIRING" THEN "FAILING" ELSE screen
    /\ enabled' \in {FALSE, enabled}
    /\ UNCHANGED <<current_state, ledVars, pc, colour, event_pc>>

-----------------------------------------------------------------------------
(* bt_disconnected_action() in the event manager's task. *)
DisconnectedTest ==
    /\ event_pc = "idle" /\ enabled
    /\ event_pc' = "set"
    /\ UNCHANGED <<current_state, ledVars, pc, colour, mainVars>>

DisconnectedSet ==
    /\ event_pc = "set"
    /\ event_pc' = "idle"
    /\ current_state' = "RGB_PAIRING"
    /\ UNCHANGED <<ledVars, pc, colour, mainVars>>

(* soc_low_cb() in the fuel gauge's alert task. *)
LowBattery ==
    /\ current_state' = "RGB_LOW_BATTERY"
    /\ UNCHANGED <<ledVars, pc, colour, mainVars, event_pc>>

-----------------------------------------------------------------------------
Steps ==
    \/ \E t \in Tasks : SetRgbLed(t)
    \/ Animate
    \/ SetManual \/ EnterPairing \/ ShutDown
    \/ DisconnectedTest \/ DisconnectedSet \/ LowBattery

(* Both tasks are in set_rgb_led(). *)
Overlap == \A t \in Tasks : pc[t] # "idle"

(* A manual colour starts a new count of races. *)
ManualBegins == pc["main"] = "idle" /\ pc'["main"] # "idle"

CountRace == raced' = ((raced /\ ~ManualBegins) \/ Overlap')

Next == Steps /\ CountRace

(* Both tasks go on with what they have begun. *)
Fairness ==
    /\ WF_vars((SetRgbLed("rgb") \/ Animate) /\ CountRace)
    /\ WF_vars(SetRgbLed("main") /\ CountRace)

SafetySpec == Init /\ [][Next]_vars
Spec == SafetySpec /\ Fairness

-----------------------------------------------------------------------------
(* Properties. *)

Quiet == current_state = "RGB_MANUAL" /\ \A t \in Tasks : pc[t] = "idle"

(* In RGB_MANUAL the LED keeps the colour the main task set last, whatever *)
(* the animation showed before, unless the two were in set_rgb_led() at    *)
(* once.                                                                   *)
ManualColourKept == Quiet /\ ~raced => led = Plain(colour["main"])

(* The LED comes to pulse for pairing, in its pure colours, when the state *)
(* says so for good: no half-written colour and no warning sticks.         *)
PairingPulses ==
    <>[](current_state = "RGB_PAIRING") => <>[](led = Plain("pairing"))

-----------------------------------------------------------------------------
(* The inductive invariant behind ManualColourKept. *)

(* What the main task has stored so far of its colour, unless the RGB task *)
(* came in between.                                                        *)
MainStores ==
    LET c == colour["main"]
    IN /\ pc["main"] = "g" => rgb_data["r"] = c
       /\ pc["main"] = "b" => rgb_data["r"] = c /\ rgb_data["g"] = c
       /\ pc["main"] = "pixel" => rgb_data = Plain(c)
       /\ pc["main"] = "refresh" => pixel = Plain(c)

(* The RGB task does not begin in RGB_MANUAL. *)
ManualAlone ==
    /\ Overlap => raced
    /\ ~raced => MainStores
    /\ ~raced /\ current_state = "RGB_MANUAL" /\ pc["main"] = "idle" =>
          pc["rgb"] = "idle" /\ led = Plain(colour["main"])
=============================================================================
