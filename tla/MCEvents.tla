-------------------------------- MODULE MCEvents --------------------------------
(***************************************************************************)
(* The event manager (EventManager) and the buttons, whose handlers push   *)
(* the events (Buttons).  They share no variable: each behaviour is one of *)
(* one part, chosen at the start.                                          *)
(*                                                                         *)
(* "owners" is the event manager with both owners and one event of each    *)
(* producer, "events" with more events and one owner.  "volume" and        *)
(* "pair" are one button each whose interrupts and timer run on time,      *)
(* "late" is a volume button on which they may be late.                    *)
(***************************************************************************)
EXTENDS EventManager

CONSTANTS Second, Plus, Pair, Off, Debounce, Short, Period, Width, TimerQueue

VARIABLES
    part,
    now, down, intr, press_time, left, commands, callback, hold, given, longs,
    unstarted

K == INSTANCE Buttons WITH VolumeKeys <- {Plus}, PairKeys <- {Pair}

ASSUME KeysAssumption == K!ButtonsAssumption

buttonVars == <<now, down, intr, press_time, left, commands, callback, hold, given, longs,
                unstarted>>

MCInit ==
    /\ part \in {"owners", "events", "volume", "pair", "late"}
    /\ Init
    /\ K!Init
    /\ part # "pair" => ~down[Pair]
    /\ part \notin {"volume", "late"} => ~down[Plus]

Only(b) == \A other \in {Plus, Pair} \ {b} : ~down'[other]

\* Owners and clients stop when the bounds are reached; the buttons do not.
MCNext ==
    /\ UNCHANGED part
    /\ \/ /\ part = "owners" /\ Next /\ UNCHANGED buttonVars
          /\ \A p \in Producers : pushed'[p] <= 1
       \/ part = "events" /\ Next /\ owner_pc'[Second] = "idle" /\ UNCHANGED buttonVars
       \/ part = "volume" /\ K!PromptNext /\ Only(Plus) /\ UNCHANGED vars
       \/ part = "pair" /\ K!PromptNext /\ Only(Pair) /\ UNCHANGED vars
       \/ part = "late" /\ K!Next /\ Only(Plus) /\ UNCHANGED vars
       \/ part \in {"owners", "events"} /\ UNCHANGED <<vars, buttonVars>>

MCSpec ==
    /\ MCInit /\ [][MCNext]_<<part, vars, buttonVars>>
    /\ Fairness
    /\ WF_buttonVars(part = "late" /\ K!Tick)
    /\ WF_buttonVars(part = "late" /\ K!TimerTask)
    /\ WF_buttonVars(part = "late" /\ K!Isr(Plus))

-----------------------------------------------------------------------------
(* A press of a volume button gives one step for each full period, and one  *)
(* if it was short; when interrupts and the timer task are late, and two    *)
(* edges may come before one interrupt, it gives no more than one for each  *)
(* full period and one for its release (Buttons.c 121-166, 208-236).  A     *)
(* press of the pair button gives one event, chosen by how long it was      *)
(* held, and none if it was too short (177-206).                            *)
PressesRight ==
    /\ K!TypeOK
    /\ part = "volume" => K!VolumeSteps
    /\ part = "late" => K!StepsBounded
    /\ part = "pair" => K!PairClassified

(* A button that is held steps the volume again and again, unless the timer *)
(* task's queue was full at a command to start its timer, and the timer of  *)
(* a button that stays released runs out, though a command to stop it may   *)
(* be dropped or overtaken by the callback's restart (Buttons.c 131, 141,   *)
(* 230).                                                                    *)
HoldRepeats == part = "late" => K!HeldRepeats /\ K!ReleasedStops
-----------------------------------------------------------------------------
(* What is inductive in PressesRight.  While a press lasts, each step given *)
(* stands for a full period of it, and the timer, or the command to start   *)
(* it, counts from the end of these periods.                                *)
Measured(b) == hold[b] < Width - 1
Handled(b) == ~down[b] /\ ~intr[b]
Last == commands[Len(commands)]
Full == given[Plus] * Period

\* However late they are, no step comes before its period is over.
StepsNotEarly ==
    /\ ~Handled(Plus) => Full <= hold[Plus]
    /\ Handled(Plus) => given[Plus] <= (hold[Plus] \div Period) + 1
    /\ down[Plus] /\ intr[Plus] => given[Plus] = 0
    /\ down[Plus] /\ ~intr[Plus] =>
          /\ commands # <<>> /\ Last.start => Full + Last.age <= hold[Plus]
          /\ commands = <<>> /\ left[Plus] # Off => Full + (Period - left[Plus]) <= hold[Plus]

LateInv == part = "late" /\ Measured(Plus) /\ ~unstarted[Plus] => StepsNotEarly

\* On time, the handlers measure how long the button was held.
HoldMeasured(b) ==
    /\ down[b] /\ intr[b] => hold[b] = 0 /\ given[b] = 0 /\ longs[b] = 0
    /\ Measured(b) /\ down[b] # intr[b] => K!Delta(b) = hold[b]

\* On time, whatever command was dropped.
NoStepTooMany ==
    /\ ~Handled(Plus) => Full <= hold[Plus]
    /\ down[Plus] /\ ~intr[Plus] /\ commands = <<>> /\ left[Plus] # Off =>
          Full + (Period - left[Plus]) <= hold[Plus]
    /\ Handled(Plus) =>
          given[Plus] <= (hold[Plus] \div Period)
              + (IF Debounce <= hold[Plus] /\ hold[Plus] <= Short THEN 1 ELSE 0)

\* On time, and no command to start was dropped.
NoStepMissing ==
    /\ down[Plus] /\ ~intr[Plus] =>
          IF callback # Off \/ commands # <<>>
          THEN hold[Plus] = Full /\ (commands # <<>> => Last.start)
          ELSE left[Plus] # Off /\ hold[Plus] = Full + (Period - left[Plus])
    /\ ~down[Plus] /\ intr[Plus] => hold[Plus] <= Full + Period
    /\ Handled(Plus) /\ hold[Plus] >= Debounce =>
          given[Plus] >= 1 /\ given[Plus] >= (hold[Plus] - 1) \div Period

\* On time, no command waits.
Fresh == \A i \in DOMAIN commands : commands[i].age = 0

VolumeInv ==
    part = "volume" =>
        /\ HoldMeasured(Plus)
        /\ Fresh
        /\ Measured(Plus) => NoStepTooMany
        /\ Measured(Plus) /\ ~unstarted[Plus] => NoStepMissing

OneEvent ==
    /\ ~Handled(Pair) => given[Pair] = 0 /\ longs[Pair] = 0
    /\ Handled(Pair) =>
          /\ given[Pair] = IF Debounce <= hold[Pair] /\ hold[Pair] <= Short THEN 1 ELSE 0
          /\ longs[Pair] = IF hold[Pair] > Short THEN 1 ELSE 0

PairInv == part = "pair" => HoldMeasured(Pair) /\ (Measured(Pair) => OneEvent)

PressInv == K!TypeOK /\ LateInv /\ VolumeInv /\ PairInv
===============================================================================
