--------------------------------- MODULE Clock ---------------------------------
(***************************************************************************)
(* The clock: Misc/Time_Helpers.c, its display in IDLE, its menu (MENU) and *)
(* the RTC commands of the TCP shell.  The system time is external; of the *)
(* date and the time zone ("PST" without an offset, which is UTC to the    *)
(* C library) nothing is shown, so time is a time of day here.  The length *)
(* of half a day, an hour and a minute are constants.                      *)
(***************************************************************************)
EXTENDS Naturals

CONSTANTS
    HalfDay,    \* hours in half a day: 12
    Minutes,    \* minutes in an hour: 60
    Seconds,    \* seconds in a minute: 60
    MenuTime,   \* the time of day of 1727802395, the menu's constant
    Numbers     \* bound: the numbers sent in an RTC_SET_TIME

Hours == 2 * HalfDay
Day == Hours * Minutes * Seconds

ClockAssumption ==
    /\ HalfDay \in Nat \ {0} /\ Minutes \in Nat \ {0}
    /\ Seconds \in Nat /\ Seconds >= 2
    /\ MenuTime \in 0 .. Day - 1
    /\ Numbers \subseteq Nat

VARIABLES
    time,       \* the system's time of day in seconds
    mode,       \* the state of the main loop: "IDLE", "MENU" or any "OTHER"
    screen,     \* the text on the display
    time_buf,   \* IDLE's text
    prev_sec,   \* IDLE's seconds
    set_hour,   \* MENU's hour
    set_min,    \* MENU's minute
    time_idx,   \* MENU's field: "HOURS", "MINUTES" or "IDLE"
    fresh,      \* history: the state's update has run in this second
    settled     \* history: a second has passed since IDLE began or time was set

idle == <<time_buf, prev_sec>>
menu == <<set_hour, set_min, time_idx>>
vars == <<time, mode, screen, idle, menu, fresh, settled>>

-----------------------------------------------------------------------------
(* localtime_r, and what the code makes of it.                               *)

Hour(t) == t \div (Minutes * Seconds)
Minute(t) == (t \div Seconds) % Minutes
Second(t) == t % Seconds

\* mktime of any hour, minute and second.
TimeOf(h, m, s) == (h * Minutes * Seconds + m * Seconds + s) % Day

convert_24hour_to_12hour(hour) ==
    IF hour % HalfDay = 0 THEN HalfDay ELSE hour % HalfDay

get_time_components(t) ==
    [hour |-> convert_24hour_to_12hour(Hour(t)), min |-> Minute(t), sec |-> Second(t),
     am |-> Hour(t) < HalfDay]

\* MENU's text; it has no seconds, and neither has an empty display.  An hour
\* of 0 or a minute of Minutes is a blank field.
MenuText(h, m) ==
    [hour |-> convert_24hour_to_12hour(h), min |-> m, sec |-> Seconds, am |-> h < HalfDay]
Blank == [hour |-> 0, min |-> 0, sec |-> Seconds, am |-> FALSE]

\* The field that is set blinks: it is blank in every other half second.
MenuTexts(h, m, field) ==
    LET text == MenuText(h, m)
    IN {text, IF field = "HOURS" THEN [text EXCEPT !.hour = 0]
                                 ELSE [text EXCEPT !.min = Minutes]}

Text == [hour : 0 .. HalfDay, min : 0 .. Minutes, sec : 0 .. Seconds, am : BOOLEAN]

TypeOK ==
    /\ time \in 0 .. Day - 1
    /\ mode \in {"IDLE", "MENU", "OTHER"}
    /\ screen \in Text /\ time_buf \in Text
    /\ prev_sec \in 0 .. Seconds - 1
    /\ set_hour \in 0 .. Hours - 1 /\ set_min \in 0 .. Minutes - 1
    /\ time_idx \in {"HOURS", "MINUTES", "IDLE"}
    /\ mode = "MENU" => time_idx # "IDLE"
    /\ fresh \in BOOLEAN /\ settled \in BOOLEAN

\* app_main has set the time; PAIRING comes before the first IDLE.
Init ==
    /\ time \in 0 .. Day - 1
    /\ mode = "OTHER"
    /\ screen = Blank /\ time_buf = Blank
    /\ prev_sec = 0
    /\ set_hour = 0 /\ set_min = 0 /\ time_idx = "IDLE"
    /\ fresh = FALSE /\ settled = FALSE

-----------------------------------------------------------------------------
\* IDLE is updated every 50 ms, so at least once a second.
Tick ==
    /\ mode = "IDLE" => fresh
    /\ time' = (time + 1) % Day
    /\ fresh' = FALSE
    /\ settled' = TRUE
    /\ UNCHANGED <<mode, screen, idle, menu>>

\* rtc_set_time: nothing checks the numbers, mktime carries them over.
RtcSetTime(h, m, s) ==
    /\ time' = TimeOf(h, m, s)
    /\ settled' = FALSE /\ fresh' = FALSE
    /\ UNCHANGED <<mode, screen, idle, menu>>

\* idle_state_on_enter, at time t.
IdleEnter(t) ==
    /\ mode' = "IDLE"
    /\ time_buf' = get_time_components(t)
    /\ prev_sec' = Second(t)
    /\ settled' = FALSE /\ fresh' = FALSE

OtherToIdle ==
    /\ mode = "OTHER"
    /\ IdleEnter(time)
    /\ UNCHANGED <<time, screen, menu>>

\* Mutant of IdleShow: the text is made only once a minute.
IdleShowMinutes ==
    LET now == get_time_components(time)
    IN time_buf' = IF now.sec = 0 /\ prev_sec # 0 THEN [now EXCEPT !.sec = prev_sec] ELSE time_buf

\* The text is made when the seconds change, with the previous ones.
IdleShow ==
    LET now == get_time_components(time)
    IN time_buf' = IF now.sec # prev_sec THEN [now EXCEPT !.sec = prev_sec] ELSE time_buf

IdleUpdate ==
    /\ mode = "IDLE"
    /\ IdleShow
    /\ prev_sec' = Second(time)
    /\ screen' = time_buf'
    /\ fresh' = TRUE
    /\ UNCHANGED <<time, mode, menu, settled>>

\* idle_state_on_exit clears the display.
IdleLeave ==
    /\ mode = "IDLE"
    /\ mode' = "OTHER"
    /\ screen' = Blank
    /\ fresh' = FALSE
    /\ UNCHANGED <<time, idle, menu, settled>>

\* PAIR_SHORT_PRESS: menu_state_on_enter takes the hour of the half day.
IdleToMenu ==
    /\ mode = "IDLE"
    /\ mode' = "MENU"
    /\ screen' = Blank
    /\ LET now == get_time_components(time)
       IN set_hour' = now.hour /\ set_min' = now.min
    /\ time_idx' = "HOURS"
    /\ fresh' = FALSE
    /\ UNCHANGED <<time, idle, settled>>

-----------------------------------------------------------------------------
(* menu_state_update; with both volume buttons pressed, none counts.         *)

Drawn == fresh' = TRUE /\ screen' \in MenuTexts(set_hour', set_min', time_idx')

MenuSelect ==
    /\ mode = "MENU"
    /\ time_idx = "HOURS"
    /\ time_idx' = "MINUTES"
    /\ UNCHANGED <<time, mode, idle, set_hour, set_min, settled>>
    /\ Drawn

\* The update goes on and draws after the change of state.
MenuCommit ==
    /\ mode = "MENU"
    /\ time_idx = "MINUTES"
    /\ time_idx' = "IDLE"
    /\ time' = MenuTime
    /\ IdleEnter(MenuTime)
    /\ screen' = MenuText(set_hour, set_min)
    /\ UNCHANGED <<set_hour, set_min>>

MenuCancel ==
    /\ mode = "MENU"
    /\ IdleEnter(time)
    /\ UNCHANGED <<time, screen, menu>>

Stepped(n, limit, up) ==
    IF up THEN (n + 1) % limit ELSE IF n > 0 THEN n - 1 ELSE limit - 1

MenuStep(up) ==
    /\ mode = "MENU"
    /\ \/ /\ time_idx = "HOURS"
          /\ set_hour' = Stepped(set_hour, Hours, up) /\ UNCHANGED set_min
       \/ /\ time_idx = "MINUTES"
          /\ set_min' = Stepped(set_min, Minutes, up) /\ UNCHANGED set_hour
    /\ UNCHANGED <<time, mode, idle, time_idx, settled>>
    /\ Drawn

MenuDraw ==
    /\ mode = "MENU"
    /\ UNCHANGED menu
    /\ Drawn
    /\ UNCHANGED <<time, mode, idle, settled>>

-----------------------------------------------------------------------------
Next ==
    \/ Tick
    \/ \E h, m, s \in Numbers : RtcSetTime(h, m, s)
    \/ OtherToIdle \/ IdleUpdate \/ IdleLeave \/ IdleToMenu
    \/ MenuSelect \/ MenuCommit \/ MenuCancel \/ MenuDraw
    \/ \E up \in BOOLEAN : MenuStep(up)

Spec == Init /\ [][Next]_vars

-----------------------------------------------------------------------------
\* The hour of the day that a text tells.
HourShown(text) == (text.hour % HalfDay) + (IF text.am THEN 0 ELSE HalfDay)

(* A second after IDLE began or the time was set, the display has the hour   *)
(* and minute of now and the seconds of the update before (idle_state.c      *)
(* 221-236), though the text is made only when the seconds change.           *)
ScreenFollows ==
    mode = "IDLE" /\ fresh /\ settled =>
        /\ HourShown(screen) = Hour(time)
        /\ screen.min = Minute(time)
        /\ screen.sec = (Second(time) + Seconds - 1) % Seconds

(* The menu's text tells the hour and minute it would set, in either half of *)
(* the day and around its ends; only the field being set is ever blank       *)
(* (menu_state.c 155-236).                                                   *)
MenuShowsChoice ==
    mode = "MENU" /\ fresh =>
        /\ screen.am = (set_hour < HalfDay)
        /\ HourShown(screen) = set_hour \/ (time_idx = "HOURS" /\ screen.hour = 0)
        /\ screen.min = set_min \/ (time_idx = "MINUTES" /\ screen.min = Minutes)

\* Between two ticks IDLE is updated at least once, which shows its text; after
\* a tick, and before the update, it remembers the second before.
IdleText ==
    mode = "IDLE" =>
        /\ fresh => prev_sec = Second(time) /\ screen = time_buf
        /\ settled /\ ~fresh => prev_sec = (Second(time) + Seconds - 1) % Seconds

\* The inductive invariant of both.
IInv == TypeOK /\ IdleText /\ ScreenFollows /\ MenuShowsChoice
=============================================================================
