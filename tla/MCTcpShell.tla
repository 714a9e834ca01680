------------------------------- MODULE MCTcpShell -------------------------------
(***************************************************************************)
(* The TCP shell, and the clock that is set through it (Clock).  Each      *)
(* behaviour is one of one part: the shell's replies are TcpShell's        *)
(* subject, and what the RTC commands do to the time is Clock's.           *)
(*                                                                         *)
(* There are two kinds of clients: "any" may do all that TcpShell allows,  *)
(* "known" sends whole messages with ids the firmware has and expects a    *)
(* reply to each.                                                          *)
(***************************************************************************)
EXTENDS TcpShell

CONSTANTS
    AnyReq, AnyConn,    \* bounds: requests and connections of the clients "any"
    HalfDay, Minutes, Seconds, MenuTime, Numbers

VARIABLES
    part,
    time, mode, screen, time_buf, prev_sec, set_hour, set_min, time_idx, fresh, settled

K == INSTANCE TcpShell
         WITH Ids <- Ids \ {Unknown}, CanForgo <- FALSE, CanSplit <- FALSE
C == INSTANCE Clock

ASSUME DayAssumption == C!ClockAssumption

clockVars == <<time, mode, screen, time_buf, prev_sec, set_hour, set_min, time_idx, fresh,
               settled>>

MCInit ==
    /\ part \in {"any", "known", "clock"}
    /\ Init
    /\ C!Init /\ (part # "clock" => time = 0)

\* The clients stop when the bounds are reached.
MCNext ==
    /\ UNCHANGED part
    /\ \/ part = "any" /\ Next /\ sent' <= AnyReq /\ conn' <= AnyConn /\ UNCHANGED clockVars
       \/ part = "known" /\ K!Next /\ UNCHANGED clockVars
       \/ part = "clock" /\ C!Next /\ UNCHANGED vars
       \/ part # "clock" /\ UNCHANGED <<vars, clockVars>>

MCSpec == MCInit /\ [][MCNext]_<<part, vars, clockVars>> /\ Fairness

-----------------------------------------------------------------------------
(* A request of a client that sends whole messages with known ids is        *)
(* answered (socket_test.py 134-135), though clients may leave before the   *)
(* reply and come back (tcp_shell.c 170-210, 351-390), unless the server    *)
(* task has got into the loop that sends a NACK for ever; and it gets there *)
(* only with a client it accepted before it had come to rest.               *)
KnownRequestsAnswered ==
    part = "known" => EveryRequestAnswered /\ []RefusedAfterHurry

(* A second after IDLE began or the time was set, the display has the hour  *)
(* and minute of now (idle_state.c 221-236); the menu's text tells the hour *)
(* and minute it would set, in either half of the day and around its ends   *)
(* (menu_state.c 155-232).                                                  *)
ClockRight == C!TypeOK /\ C!ScreenFollows /\ C!MenuShowsChoice
===============================================================================
