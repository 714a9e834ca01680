------------------------------ MODULE BtSession ------------------------------
(***************************************************************************)
(* What bt_audio.c is to the rest of the firmware: a session that is       *)
(* started when it is off and stopped when it is enabled.  There are no    *)
(* layers, messages, tasks or timers here.  BtAudio implements it with the *)
(* stack and the work queue; SpeakerStates calls it, and its Bluetooth     *)
(* flags change only as a session allows.                                  *)
(*                                                                         *)
(* A start either succeeds or leaves the session off.  The callbacks come   *)
(* up beside it, before or after it has ended.  A stop takes the profiles  *)
(* down first; what the callbacks have reported by then may be handled to  *)
(* the very end.                                                           *)
(***************************************************************************)
CONSTANT
    StopFaults      \* may a stop fail half-way?

VARIABLES
    stage,          \* where the session is
    enabled,        \* bt_audio_enabled()
    connected,      \* bt_audio_connected()
    up              \* the stack's callbacks are registered

vars == <<stage, enabled, connected, up>>

Stages == {"off", "starting", "on", "stopping", "down", "stuck"}

(* The firmware starts with a session that is off, or was started before   *)
(* anybody looks at it.                                                    *)
Init ==
    \/ /\ stage \in {"off", "starting"}
       /\ enabled = FALSE /\ up = FALSE /\ connected = FALSE
    \/ /\ stage = "on"
       /\ enabled = TRUE /\ up = TRUE /\ connected \in BOOLEAN

Start == stage = "off" /\ stage' = "starting" /\ UNCHANGED <<enabled, connected, up>>

Started ==
    /\ stage = "starting" /\ stage' = "on"
    /\ enabled' = TRUE /\ up' \in {up, TRUE}
    /\ UNCHANGED connected

StartFails ==
    /\ stage = "starting" /\ stage' = "off" /\ ~up
    /\ UNCHANGED <<enabled, connected, up>>

CallbacksUp ==
    /\ stage \in {"starting", "on", "stopping"}
    /\ up' = TRUE
    /\ UNCHANGED <<stage, enabled, connected>>

(* A connection is made or lost while the callbacks are registered, or was *)
(* reported while they were.                                               *)
Connection ==
    /\ up \/ stage = "down"
    /\ connected' \in BOOLEAN
    /\ UNCHANGED <<stage, enabled, up>>

Stop ==
    /\ stage \in {"on", "stuck"} /\ stage' = "stopping"
    /\ UNCHANGED <<enabled, connected, up>>

ProfilesDown ==
    /\ stage = "stopping" /\ stage' = "down"
    /\ up' = FALSE
    /\ UNCHANGED <<enabled, connected>>

Stopped ==
    /\ stage = "down" /\ stage' = "off"
    /\ enabled' = FALSE /\ connected' = FALSE
    /\ UNCHANGED up

StopFails ==
    /\ StopFaults
    /\ stage = "down" /\ stage' = "stuck"
    /\ UNCHANGED <<enabled, connected, up>>

Next ==
    \/ Start \/ Started \/ StartFails \/ CallbacksUp \/ Connection
    \/ Stop \/ ProfilesDown \/ Stopped \/ StopFails

SafetySpec == Init /\ [][Next]_vars

-----------------------------------------------------------------------------
(* What a caller may rely on: a session is enabled exactly from the end of *)
(* its start to the end of its stop, the callbacks are gone before the     *)
(* stack is taken down, and there is no connection without the session.    *)
CallerView ==
    /\ stage \in Stages
    /\ enabled <=> stage \notin {"off", "starting"}
    /\ up => stage \in {"starting", "on", "stopping"}
    /\ connected => enabled \/ up

=============================================================================
