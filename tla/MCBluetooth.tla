------------------------------ MODULE MCBluetooth ------------------------------
(***************************************************************************)
(* The parts of the Bluetooth component that share no variable: a session  *)
(* (BtAudio), the volume (VolumeControl) and the AVRCP controller          *)
(* (AvrcpController).  Each behaviour is one of one part, chosen at the    *)
(* start; the others stay in their initial states.                         *)
(***************************************************************************)
EXTENDS BtAudio

CONSTANTS MaxVol, Step, MaxQueue, MaxRsp, Supported, QLen, MaxTexts

VARIABLES
    part,
    vol, notify, press, next, crossed, bt_app, interim, commands, rsp, up, reg, view, hasty,
    dropped, rc_up, cmds, rc_registered, rc_queue, todo, caps, texts, missed

V == INSTANCE VolumeControl WITH app <- bt_app, queue <- commands
A == INSTANCE AvrcpController
         WITH up <- rc_up, registered <- rc_registered, queue <- rc_queue

ASSUME BtAssumption == V!VolumeAssumption /\ A!ControllerAssumption

volumeVars == <<vol, notify, press, next, crossed, bt_app, interim, commands, rsp,
                up, reg, view, hasty, dropped>>
controllerVars == <<rc_up, cmds, rc_registered, rc_queue, todo, caps, texts, missed>>

MCInit ==
    /\ part \in {"session", "volume", "controller"}
    /\ Init /\ V!Init /\ A!Init

MCNext ==
    /\ UNCHANGED part
    /\ \/ part = "session" /\ Next /\ UNCHANGED <<volumeVars, controllerVars>>
       \/ part = "volume" /\ V!Next /\ UNCHANGED <<vars, controllerVars>>
       \/ part = "controller" /\ A!Next /\ UNCHANGED <<vars, volumeVars>>

MCSpec ==
    /\ MCInit /\ [][MCNext]_<<part, vars, volumeVars, controllerVars>>
    /\ WF_vars(part = "session" /\ MainTask) /\ WF_vars(part = "session" /\ AppTask)
    /\ WF_volumeVars(part = "volume" /\ V!PressStep)
    /\ WF_volumeVars(part = "volume" /\ V!BtAppStep)
    /\ WF_volumeVars(part = "volume" /\ V!Receive)
    /\ WF_volumeVars(part = "volume" /\ V!Register)
    /\ WF_controllerVars(part = "controller" /\ A!BtAppTask)
    /\ WF_controllerVars(part = "controller" /\ A!Answer)

-----------------------------------------------------------------------------
(* Neither side forgets a notification: while the speaker owes one to the   *)
(* controller, has not dropped its last command, and nothing is on its way, *)
(* both show the same volume, across lost connections and sessions as well  *)
(* (bt_app_av.c 178-193, 405-424); and without a dropped event a connected  *)
(* player owes the speaker every notification it supports, or is about to   *)
(* be asked for it (138-163).                                               *)
RegistrationsKept ==
    /\ V!TypeOK /\ V!ViewCurrent
    /\ A!TypeOK /\ A!NotificationsKept

(* A press moves the volume by at most one step and stays in range, unless  *)
(* the controller's command overtook it (daftpunk_speaker.c 127-150).       *)
OneStepPerPress == V!OneStepPerPress

(* A teardown that was dispatched ends, and what the firmware takes for the *)
(* connection comes to be the peer's (bt_audio.c 279-300, bt_app_core.c     *)
(* 48-77).  A registration by the controller that was dispatched is answered*)
(* whatever the buttons do (bt_app_av.c 405-424), and after a connection the*)
(* speaker gets to register all that the player supports, unless the        *)
(* connection is lost or an event is dropped first (315-369).               *)
BluetoothSettles ==
    /\ SessionsSettle
    /\ V!RegistrationAnswered
    /\ A!PlayerFollowed

(* Every attribute text is freed once, but for that of an event the full    *)
(* queue drops and those the end of the session finds in the queue          *)
(* (bt_app_av.c 94-102, 337; bt_app_core.c 56, 150).                        *)
TextsFreed == A!TextsFreed
===============================================================================
