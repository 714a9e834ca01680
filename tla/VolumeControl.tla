----------------------------- MODULE VolumeControl -----------------------------
(***************************************************************************)
(* The volume shared by the buttons and the AVRCP controller               *)
(* (main/bluetooth_audio/bt_app_av.c, volume callbacks in                  *)
(* main/daftpunk_speaker.c).  The event manager's task runs the button     *)
(* callbacks: it reads s_volume, steps and stores it, and tells a          *)
(* controller that registered for changes.  BtAppTask handles the          *)
(* controller's commands: set absolute volume and register notification.   *)
(* A notification is good for one change; the controller registers again.  *)
(* Only single accesses of s_volume and s_volume_notify are atomic: the    *)
(* lock covers one store.                                                  *)
(*                                                                         *)
(* The controller and the Bluetooth link are external: commands and        *)
(* responses stay in order, and the link loses them only with the          *)
(* connection.  The speaker itself may: the stack's callback hands each    *)
(* command to BtAppTask through the work queue, which it shares with the   *)
(* events of all profiles and which drops what it has no room for.  The    *)
(* stack has accepted the command by then, so the controller never knows.  *)
(***************************************************************************)
EXTENDS Integers, Sequences

CONSTANTS
    MaxVol,     \* the largest volume, 127 in the code
    Step,       \* the step of a button press, 7 in the code
    MaxQueue,   \* bound: commands in the work queue
    MaxRsp      \* bound: responses on their way as a button is pressed

VolumeAssumption ==
    /\ MaxVol \in Nat
    /\ Step \in Nat
    /\ MaxQueue \in Nat
    /\ MaxRsp \in Nat

VARIABLES
    vol,      \* s_volume
    notify,   \* s_volume_notify
    press,    \* the button callback: "idle", "store", "test", "read", "send" or "clear"
    next,     \* the volume it is about to store, then rn_param.volume
    crossed,  \* history: the controller set the volume since the callback read it
    app,      \* BtAppTask in the register handler: "idle", "read" or "send"
    interim,  \* its rn_param.volume
    queue,    \* commands for BtAppTask, oldest first
    rsp,      \* notification responses on their way to the controller
    up,       \* the connection is up
    reg,      \* the controller's registration: "none", "asked", "live", or
              \* "unheard": asked, but the work queue dropped the request
    view,     \* the volume the controller shows while it is registered, or Unknown
    hasty,    \* history: registered, it has set the volume while an interim
              \* response could be on its way
    dropped   \* history: registered, it had its last command dropped

local == <<press, next, crossed>>
tg == <<app, interim>>
ctrl == <<up, reg, view, hasty, dropped>>
vars == <<vol, notify, local, tg, queue, rsp, ctrl>>

Vols == 0 .. MaxVol
Unknown == -1
Command == [kind : {"set"}, v : Vols] \cup [kind : {"register"}]
Response == [kind : {"interim", "changed"}, v : Vols]

TypeOK ==
    /\ vol \in Vols
    /\ notify \in BOOLEAN
    /\ press \in {"idle", "store", "test", "read", "send", "clear"}
    /\ next \in Vols
    /\ crossed \in BOOLEAN
    /\ app \in {"idle", "read", "send"}
    /\ interim \in Vols
    /\ queue \in Seq(Command)
    /\ rsp \in Seq(Response)
    /\ up \in BOOLEAN
    /\ reg \in {"none", "asked", "live", "unheard"}
    /\ view \in Vols \cup {Unknown}
    /\ hasty \in BOOLEAN
    /\ dropped \in BOOLEAN

Init ==
    /\ vol = 0
    /\ notify = FALSE
    /\ press = "idle"
    /\ next = 0
    /\ crossed = FALSE
    /\ app = "idle"
    /\ interim = 0
    /\ queue = <<>>
    /\ rsp = <<>>
    /\ up = FALSE
    /\ reg = "none"
    /\ view = Unknown
    /\ hasty = FALSE
    /\ dropped = FALSE

-----------------------------------------------------------------------------
(* The button callbacks, in the event manager's task.                        *)

\* Mutant of Louder: the sum is narrowed before it is clamped.
LouderWraps(v) == (v + Step) % (MaxVol + 1)

Louder(v) == IF v + Step > MaxVol THEN MaxVol ELSE v + Step
Softer(v) == IF v - Step < 0 THEN 0 ELSE v - Step

\* bt_audio_get_volume and the step.  A local is 0 once nobody reads it again.
PressRead ==
    /\ press = "idle"
    /\ Len(rsp) < MaxRsp
    /\ next' \in {Louder(vol), Softer(vol)}
    /\ press' = "store"
    /\ crossed' = FALSE
    /\ UNCHANGED <<vol, notify, tg, queue, rsp, ctrl>>

\* volume_set_by_local_host: the store, under the lock.
PressStore ==
    /\ press = "store"
    /\ vol' = next
    /\ press' = "test"
    /\ UNCHANGED <<notify, next, crossed, tg, queue, rsp, ctrl>>

PressTest ==
    /\ press = "test"
    /\ press' = IF notify THEN "read" ELSE "idle"
    /\ next' = 0
    /\ crossed' = FALSE
    /\ UNCHANGED <<vol, notify, tg, queue, rsp, ctrl>>

PressReadAgain ==
    /\ press = "read"
    /\ next' = vol
    /\ press' = "send"
    /\ UNCHANGED <<vol, notify, crossed, tg, queue, rsp, ctrl>>

\* A response is delivered only while there is a connection.
Respond(kind, v) ==
    rsp' = IF up THEN Append(rsp, [kind |-> kind, v |-> v]) ELSE rsp

PressSend ==
    /\ press = "send"
    /\ Respond("changed", next)
    /\ press' = "clear"
    /\ next' = 0
    /\ UNCHANGED <<vol, notify, crossed, tg, queue, ctrl>>

PressClear ==
    /\ press = "clear"
    /\ notify' = FALSE
    /\ press' = "idle"
    /\ UNCHANGED <<vol, next, crossed, tg, queue, rsp, ctrl>>

PressStep == PressStore \/ PressTest \/ PressReadAgain \/ PressSend \/ PressClear

-----------------------------------------------------------------------------
(* BtAppTask.                                                                *)

\* volume_set_by_controller.
SetByController ==
    /\ app = "idle"
    /\ queue # <<>>
    /\ Head(queue).kind = "set"
    /\ vol' = Head(queue).v
    /\ crossed' = (press = "store")
    /\ queue' = Tail(queue)
    /\ UNCHANGED <<notify, press, next, tg, rsp, ctrl>>

\* Mutant of RegisterEvent: the volume is read before the flag is set.
RegisterReadsFirst ==
    /\ \/ /\ app = "idle"
          /\ queue # <<>>
          /\ Head(queue).kind = "register"
          /\ interim' = vol
          /\ app' = "read"
          /\ queue' = Tail(queue)
          /\ UNCHANGED <<notify, rsp>>
       \/ /\ app = "read"
          /\ notify' = TRUE
          /\ app' = "send"
          /\ UNCHANGED <<interim, queue, rsp>>
       \/ /\ app = "send"
          /\ Respond("interim", interim)
          /\ app' = "idle"
          /\ interim' = 0
          /\ UNCHANGED <<notify, queue>>
    /\ UNCHANGED <<vol, local, ctrl>>

\* The register notification event: the flag, the volume, the response.
RegisterEvent ==
    /\ \/ /\ app = "idle"
          /\ queue # <<>>
          /\ Head(queue).kind = "register"
          /\ notify' = TRUE
          /\ app' = "read"
          /\ queue' = Tail(queue)
          /\ UNCHANGED <<interim, rsp>>
       \/ /\ app = "read"
          /\ interim' = vol
          /\ app' = "send"
          /\ UNCHANGED <<notify, queue, rsp>>
       \/ /\ app = "send"
          /\ Respond("interim", interim)
          /\ app' = "idle"
          /\ interim' = 0
          /\ UNCHANGED <<notify, queue>>
    /\ UNCHANGED <<vol, local, ctrl>>

BtAppStep == SetByController \/ RegisterEvent

\* bt_app_task_shut_down, when the session and its connection have ended: the
\* task goes in the middle of a command, the queue with what is left in it.
ShutDown ==
    /\ ~up
    /\ app' = "idle" /\ interim' = 0
    /\ queue' = <<>>
    /\ UNCHANGED <<vol, notify, local, rsp, ctrl>>

-----------------------------------------------------------------------------
(* The controller.                                                           *)

Connect ==
    /\ ~up
    /\ up' = TRUE
    /\ reg' = "none"
    /\ view' = Unknown
    /\ hasty' = FALSE
    /\ dropped' = FALSE
    /\ UNCHANGED <<vol, notify, local, tg, queue, rsp>>

\* What has not reached the speaker's queue is lost; s_volume_notify stays.
Disconnect ==
    /\ up
    /\ up' = FALSE
    /\ reg' = "none"
    /\ view' = Unknown
    /\ hasty' = FALSE
    /\ dropped' = FALSE
    /\ rsp' = <<>>
    /\ \E n \in 0 .. Len(queue) : queue' = SubSeq(queue, 1, n)
    /\ UNCHANGED <<vol, notify, local, tg>>

\* An interim response may be on its way with the volume of a moment ago.
InterimUnderWay ==
    \/ app # "idle"
    \/ \E i \in DOMAIN queue : queue[i].kind = "register"
    \/ \E i \in DOMAIN rsp : rsp[i].kind = "interim"
InterimComing == reg = "asked" \/ InterimUnderWay

\* bt_app_rc_tg_cb dispatches the command and ignores the result: what the
\* events of the other profiles leave no room for is dropped.
Dispatch(command, ok) ==
    IF ok THEN Len(queue) < MaxQueue /\ queue' = Append(queue, command)
          ELSE UNCHANGED queue

SendSet(v) ==
    /\ up
    /\ hasty' = (reg # "none" /\ (hasty \/ InterimComing))
    /\ \E ok \in BOOLEAN :
          /\ Dispatch([kind |-> "set", v |-> v], ok)
          /\ dropped' = (reg # "none" /\ ~ok /\ ~hasty')
    /\ view' = IF reg = "none" THEN Unknown ELSE v
    /\ UNCHANGED <<vol, notify, local, tg, rsp, up, reg>>

Register ==
    /\ up
    /\ reg = "none"
    /\ \E ok \in BOOLEAN :
          /\ Dispatch([kind |-> "register"], ok)
          /\ reg' = IF ok THEN "asked" ELSE "unheard"
          /\ dropped' = ~ok
    /\ UNCHANGED <<vol, notify, local, tg, rsp, up, view, hasty>>

\* A changed response ends the registration; without one both are ignored.
Receive ==
    /\ rsp # <<>>
    /\ rsp' = Tail(rsp)
    /\ \/ reg = "none" /\ UNCHANGED <<reg, view, hasty, dropped>>
       \/ /\ reg # "none" /\ Head(rsp).kind = "interim"
          /\ reg' = "live" /\ view' = Head(rsp).v
          /\ UNCHANGED <<hasty, dropped>>
       \/ /\ reg # "none" /\ Head(rsp).kind = "changed"
          /\ reg' = "none" /\ view' = Unknown
          /\ hasty' = FALSE /\ dropped' = FALSE
    /\ UNCHANGED <<vol, notify, local, tg, queue, up>>

Controller ==
    \/ Connect
    \/ Disconnect
    \/ \E v \in Vols : SendSet(v)
    \/ Register
    \/ Receive

-----------------------------------------------------------------------------
Next == PressRead \/ PressStep \/ BtAppStep \/ ShutDown \/ Controller

SafetySpec == Init /\ [][Next]_vars

\* Both tasks keep running; the controller takes responses and registers
\* again, as a player that follows the speaker's volume does.
Spec == SafetySpec /\ WF_vars(PressStep) /\ WF_vars(BtAppStep)
                   /\ WF_vars(Receive) /\ WF_vars(Register)

-----------------------------------------------------------------------------
\* Neither task is at work and nothing is on its way.
Quiet == press = "idle" /\ app = "idle" /\ queue = <<>> /\ rsp = <<>>

(* While the speaker owes the controller a notification and nothing is on   *)
(* its way, both show the same volume, however presses, commands and        *)
(* responses crossed: the flag is set before the volume of the interim      *)
(* response is read (415-418) and the volume stored before the flag is      *)
(* tested (183-187).  A controller that sets the volume before the interim  *)
(* response is in has itself to blame; a command that the work queue drops  *)
(* costs no more than this: the next one that gets through sets it right.   *)
ViewCurrent ==
    Quiet /\ reg = "live" /\ notify /\ ~hasty /\ ~dropped => view = vol

\* The controller is registered, has not set the volume too early, and what it
\* said last was heard.
Following == reg \in {"asked", "live"} /\ ~hasty /\ ~dropped
LastInterim(i) ==
    /\ rsp[i].kind = "interim"
    /\ \A j \in DOMAIN rsp : j > i => rsp[j].kind # "interim"

\* What the controller sent last decides what both sides will show: its
\* registration, or a volume it set after the interim response was in.
LastCommandDecides ==
    Following /\ queue # <<>> =>
        \/ queue[Len(queue)].kind = "register"
        \/ /\ queue[Len(queue)].kind = "set"
           /\ queue[Len(queue)].v = view
           /\ ~InterimUnderWay

\* With no command left, the last interim response has the volume, unless the
\* flag is about to be cleared by a press.
InterimCurrent ==
    Following /\ queue = <<>> /\ notify /\ press \in {"idle", "store"} =>
        /\ app = "send" => interim = vol
        /\ app = "idle" => \A i \in DOMAIN rsp : LastInterim(i) => rsp[i].v = vol
        /\ ~InterimUnderWay => view = vol

\* An unheard registration is not answered by the interim response of another.
UnheardUnanswered == reg = "unheard" /\ InterimUnderWay => hasty \/ dropped

\* Only a volume the controller sets can come between the read and the store.
StoreInStep == press = "store" /\ ~crossed => next - vol \in -Step .. Step

IInv ==
    /\ TypeOK
    /\ StoreInStep
    /\ reg # "none" => up
    /\ reg = "asked" => InterimUnderWay
    /\ LastCommandDecides
    /\ InterimCurrent
    /\ UnheardUnanswered

(* A press moves the volume by at most one step and stays in range at both  *)
(* ends; only a press that the controller's command overtook between the    *)
(* read (130) and the store (183) may jump, and then it undoes the command. *)
OneStepPerPress ==
    [][press = "store" /\ press' = "test" =>
          \/ vol' - vol \in -Step .. Step
          \/ crossed]_vars

(* A registration that was dispatched is answered: the register event sends *)
(* the interim response (418) whatever the button callbacks do to the flag  *)
(* meanwhile.  One that was dropped leaves reg "unheard".                   *)
RegistrationAnswered == reg = "asked" ~> reg # "asked"
=============================================================================
