------------------------------ MODULE BtAudio ------------------------------
(***************************************************************************)
(* Bringing the Bluetooth audio stack up and down (bt_audio.c) across the  *)
(* work queue of BtAppTask (bt_app_core.c).  Three tasks take part:        *)
(*   - the main task calls bt_audio_init() and bt_audio_deinit() from the  *)
(*     states' on_enter and from the sleep handler;                        *)
(*   - BtAppTask handles the dispatched work, one message at a time;       *)
(*   - the stack's own task (BTC) calls the registered callbacks, which    *)
(*     only dispatch work.                                                 *)
(* A message that finds the queue full is lost, and the callers ignore it. *)
(* bt_audio_deinit() waits on xWorkSem for the STACK_DOWN it dispatched,   *)
(* then deletes task and queue, whatever they hold.                        *)
(***************************************************************************)
EXTENDS Naturals, Sequences

CONSTANTS
    QueueLen,   \* capacity of s_bt_app_task_queue
    Sessions,   \* calls of bt_audio_init() (bound)
    Faults      \* may a call into the Bluetooth stack fail?

ASSUME QueueLenAssumption == QueueLen \in Nat \ {0}
ASSUME SessionsAssumption == Sessions \in Nat
ASSUME FaultsAssumption == Faults \in BOOLEAN

VARIABLES
    pc,                 \* where the main task is in init or deinit
    layers,             \* how many of the four layers of the stack are up
    audio_enabled,      \* audio_enabled
    active_connection,  \* active_connection
    queue,              \* the messages in s_bt_app_task_queue
    queue_exists,       \* s_bt_app_task_queue # NULL
    app,                \* BtAppTask: none, waiting, or busy with a message
    sem,                \* xWorkSem is available
    registered,         \* profiles initialised, callbacks registered
    link,               \* a peer is connected (environment)
    session,            \* history: the number of bt_audio_init() calls
    lost                \* history: some dispatch has failed

vars == <<pc, layers, audio_enabled, active_connection, queue, queue_exists, app,
          sem, registered, link, session, lost>>
mainVars == <<pc, layers, audio_enabled, session>>
appVars == <<queue, queue_exists, app>>
btcVars == <<registered, link>>

(* A message names its event and the session that dispatched it. *)
Kinds == {"STACK_UP", "STACK_DOWN", "CONNECTED", "DISCONNECTED", "OTHER"}
Messages == [kind : Kinds, session : 0..Sessions]

(* app is a message while BtAppTask handles it. *)
NoTask == [kind |-> "none", session |-> 0]
Waiting == [kind |-> "waiting", session |-> 0]

(* The layers in the order init brings them up: controller initialised and *)
(* enabled, bluedroid initialised and enabled.                             *)
AllLayers == 4

TypeOK ==
    /\ pc \in {"idle", "init", "start_task", "enable", "deinit", "wait",
               "delete_task", "delete_queue", "teardown"}
    /\ layers \in 0..AllLayers
    /\ audio_enabled \in BOOLEAN /\ active_connection \in BOOLEAN
    /\ queue \in Seq(Messages) /\ Len(queue) <= QueueLen
    /\ queue_exists \in BOOLEAN
    /\ app \in Messages \cup {NoTask, Waiting}
    /\ sem \in BOOLEAN /\ registered \in BOOLEAN /\ link \in BOOLEAN
    /\ session \in 0..Sessions
    /\ lost \in BOOLEAN

-----------------------------------------------------------------------------
Init ==
    /\ pc = "idle" /\ layers = 0
    /\ audio_enabled = FALSE /\ active_connection = FALSE
    /\ queue = <<>> /\ queue_exists = FALSE
    /\ app = NoTask
    /\ sem = FALSE
    /\ registered = FALSE /\ link = FALSE
    /\ session = 0 /\ lost = FALSE

Msg(kind) == [kind |-> kind, session |-> session]

(* bt_app_work_dispatch(): false without a queue or with a full one.       *)
Dispatch(kind) ==
    IF queue_exists /\ Len(queue) < QueueLen
    THEN queue' = Append(queue, Msg(kind)) /\ UNCHANGED lost
    ELSE lost' = TRUE /\ UNCHANGED queue

-----------------------------------------------------------------------------
(* The main task. *)

(* bt_audio_init(); callers ask bt_audio_enabled() first.  Over the remains*)
(* of a failed start-up or teardown its first call, which expects the      *)
(* controller to be down, fails and changes nothing.                       *)
InitCall ==
    /\ pc = "idle" /\ ~audio_enabled /\ layers = 0 /\ session < Sessions
    /\ pc' = "init"
    /\ session' = session + 1
    /\ UNCHANGED <<layers, audio_enabled, active_connection, appVars, sem, btcVars, lost>>

(* One call that brings a layer up; a failure returns with the layers so   *)
(* far left up.                                                            *)
LayerUp ==
    /\ pc = "init"
    /\ layers' = layers + 1
    /\ pc' = IF layers' = AllLayers THEN "start_task" ELSE "init"
    /\ UNCHANGED <<audio_enabled, active_connection, appVars, sem, btcVars, session, lost>>

LayerUpFails ==
    /\ pc = "init" /\ Faults
    /\ pc' = "idle"
    /\ UNCHANGED <<layers, audio_enabled, active_connection, appVars, sem, btcVars,
                   session, lost>>

(* bt_app_task_start_up() and the STACK_UP message. *)
StartTask ==
    /\ pc = "start_task"
    /\ queue_exists' = TRUE
    /\ queue' = <<Msg("STACK_UP")>>
    /\ app' = Waiting
    /\ pc' = "enable"
    /\ UNCHANGED <<layers, audio_enabled, active_connection, sem, btcVars, session, lost>>

(* audio_enabled = true, with BtAppTask at work already. *)
Enable ==
    /\ pc = "enable"
    /\ audio_enabled' = TRUE
    /\ pc' = "idle"
    /\ UNCHANGED <<layers, active_connection, appVars, sem, btcVars, session, lost>>

(* bt_audio_deinit(); callers ask bt_audio_enabled() first. *)
DeinitCall ==
    /\ pc = "idle" /\ audio_enabled
    /\ pc' = "deinit"
    /\ UNCHANGED <<layers, audio_enabled, active_connection, appVars, sem, btcVars,
                   session, lost>>

DispatchDown ==
    /\ pc = "deinit"
    /\ Dispatch("STACK_DOWN")
    /\ pc' = "wait"
    /\ UNCHANGED <<layers, audio_enabled, active_connection, queue_exists, app, sem,
                   btcVars, session>>

(* Mutant of WaitForDown: the wait has a time-out. *)
WaitForDownOrTimeout ==
    /\ pc = "wait"
    /\ sem' = FALSE
    /\ pc' = "delete_task"
    /\ UNCHANGED <<layers, audio_enabled, active_connection, appVars, btcVars,
                   session, lost>>

(* xSemaphoreTake(xWorkSem, portMAX_DELAY). *)
WaitForDown ==
    /\ pc = "wait" /\ sem
    /\ sem' = FALSE
    /\ pc' = "delete_task"
    /\ UNCHANGED <<layers, audio_enabled, active_connection, appVars, btcVars,
                   session, lost>>

(* bt_app_task_shut_down(): the task first, in the middle of a message if  *)
(* need be, then the queue with the messages left in it.                   *)
DeleteTask ==
    /\ pc = "delete_task"
    /\ app' = NoTask
    /\ pc' = "delete_queue"
    /\ UNCHANGED <<layers, audio_enabled, active_connection, queue, queue_exists, sem,
                   btcVars, session, lost>>

DeleteQueue ==
    /\ pc = "delete_queue"
    /\ queue' = <<>> /\ queue_exists' = FALSE
    /\ pc' = "teardown"
    /\ UNCHANGED <<layers, audio_enabled, active_connection, app, sem, btcVars,
                   session, lost>>

(* Mutant of LayerDown: a session ends with its connection still set. *)
LayerDownKeepingConnection ==
    /\ pc = "teardown" /\ layers > 0
    /\ layers' = layers - 1
    /\ IF layers' = 0
       THEN pc' = "idle" /\ audio_enabled' = FALSE
       ELSE UNCHANGED <<pc, audio_enabled>>
    /\ UNCHANGED <<active_connection, appVars, sem, btcVars, session, lost>>

(* One call that takes a layer down; an early return on failure leaves     *)
(* audio_enabled and active_connection as they were.                       *)
LayerDown ==
    /\ pc = "teardown" /\ layers > 0
    /\ layers' = layers - 1
    /\ IF layers' = 0
       THEN pc' = "idle" /\ active_connection' = FALSE /\ audio_enabled' = FALSE
       ELSE UNCHANGED <<pc, active_connection, audio_enabled>>
    /\ UNCHANGED <<appVars, sem, btcVars, session, lost>>

LayerDownFails ==
    /\ pc = "teardown" /\ Faults
    /\ pc' = "idle"
    /\ UNCHANGED <<layers, audio_enabled, active_connection, appVars, sem, btcVars,
                   session, lost>>

-----------------------------------------------------------------------------
(* BtAppTask. *)

ReceiveMessage ==
    /\ app = Waiting /\ queue # <<>>
    /\ app' = Head(queue)
    /\ queue' = Tail(queue)
    /\ UNCHANGED <<mainVars, active_connection, queue_exists, sem, btcVars, lost>>

(* Mutant of HandleMessage: a disconnection leaves active_connection set. *)
HandleMessageKeepingConnection ==
    /\ app \notin {NoTask, Waiting}
    /\ app' = Waiting
    /\ registered' = CASE app.kind = "STACK_UP"   -> TRUE
                       [] app.kind = "STACK_DOWN" -> FALSE
                       [] OTHER                   -> registered
    /\ link' = (link /\ app.kind # "STACK_DOWN")
    /\ sem' = (sem \/ app.kind = "STACK_DOWN")
    /\ active_connection' = (active_connection \/ app.kind = "CONNECTED")
    /\ UNCHANGED <<mainVars, queue, queue_exists, lost>>

(* bt_av_hdl_stack_evt() and bt_av_hdl_a2d_evt(), as far as they matter    *)
(* here: connection events set active_connection, others take their time.  *)
HandleMessage ==
    /\ app \notin {NoTask, Waiting}
    /\ app' = Waiting
    /\ registered' = CASE app.kind = "STACK_UP"   -> TRUE
                       [] app.kind = "STACK_DOWN" -> FALSE
                       [] OTHER                   -> registered
    /\ link' = (link /\ app.kind # "STACK_DOWN")
    /\ sem' = (sem \/ app.kind = "STACK_DOWN")
    /\ active_connection' = CASE app.kind = "CONNECTED"    -> TRUE
                              [] app.kind = "DISCONNECTED" -> FALSE
                              [] OTHER                     -> active_connection
    /\ UNCHANGED <<mainVars, queue, queue_exists, lost>>

-----------------------------------------------------------------------------
(* The stack's callbacks: bt_app_a2d_cb() and the AVRC ones. *)

PeerConnects ==
    /\ registered /\ ~link
    /\ link' = TRUE
    /\ Dispatch("CONNECTED")
    /\ UNCHANGED <<mainVars, active_connection, queue_exists, app, sem, registered>>

PeerDisconnects ==
    /\ registered /\ link
    /\ link' = FALSE
    /\ Dispatch("DISCONNECTED")
    /\ UNCHANGED <<mainVars, active_connection, queue_exists, app, sem, registered>>

OtherCallback ==
    /\ registered /\ link
    /\ Dispatch("OTHER")
    /\ UNCHANGED <<mainVars, active_connection, queue_exists, app, sem, btcVars>>

-----------------------------------------------------------------------------
MainTask ==
    \/ LayerUp \/ LayerUpFails \/ StartTask \/ Enable
    \/ DispatchDown \/ WaitForDown \/ DeleteTask \/ DeleteQueue
    \/ LayerDown \/ LayerDownFails

Calls == InitCall \/ DeinitCall
AppTask == ReceiveMessage \/ HandleMessage
Btc == PeerConnects \/ PeerDisconnects \/ OtherCallback

Next == MainTask \/ Calls \/ AppTask \/ Btc

(* Both tasks run when they are ready; nobody has to call, connect or      *)
(* disconnect.                                                             *)
Fairness == WF_vars(MainTask) /\ WF_vars(AppTask)

SafetySpec == Init /\ [][Next]_vars
Spec == SafetySpec /\ Fairness

-----------------------------------------------------------------------------
(* Properties. *)

(* The messages BtAppTask still has to handle or is handling. *)
Pending == {queue[i] : i \in DOMAIN queue} \cup ({app} \ {NoTask, Waiting})
IsPending(kind) == \E m \in Pending : m.kind = kind

(* bt_audio_deinit() goes on to delete BtAppTask and to disable bluedroid  *)
(* only when the profiles are down: no xWorkSem of an earlier session lets *)
(* it through before its own STACK_DOWN has been handled.                  *)
DisableAfterStackDown ==
    pc \in {"delete_task", "delete_queue", "teardown"} => ~registered

(* What BtAppTask handles was dispatched in this session: a connection     *)
(* event of the last one cannot set active_connection.                     *)
NoOldMessages == \A m \in Pending : m.session = session

(* bt_audio.c:281 says "Wait for dispatched work to complete": the main    *)
(* task waits only if its STACK_DOWN was dispatched.  A full queue, or a   *)
(* teardown that failed before, makes it wait for nothing, for ever.       *)
WaitsOnlyForDispatched == pc = "wait" => sem \/ IsPending("STACK_DOWN")

(* A teardown whose STACK_DOWN was queued ends, whatever is queued before  *)
(* it and whatever the peer does.                                          *)
DeinitEnds == IsPending("STACK_DOWN") ~> pc = "idle"

(* bt_audio_connected() comes to agree with the peer, unless a message was *)
(* lost to a full queue.                                                   *)
ConnectionViewConverges ==
    /\ <>[](link /\ ~lost) => <>[]active_connection
    /\ <>[](~link /\ ~lost /\ queue_exists) => <>[](~active_connection)

(* Sessions do not mix: the stack goes down in its order, and nothing that *)
(* was dispatched in one is handled in the next (bt_audio.c 279-300,       *)
(* bt_app_core.c 154).                                                     *)
SessionsApart == TypeOK /\ DisableAfterStackDown /\ NoOldMessages

(* A teardown that was dispatched ends, and what the firmware takes for    *)
(* the connection comes to be the peer's.                                  *)
SessionsSettle == DeinitEnds /\ ConnectionViewConverges

-----------------------------------------------------------------------------
(* The inductive invariant. *)

(* A layer is brought up only while one is missing. *)
LayersMissing == pc = "init" => layers < AllLayers

Busy == app \notin {NoTask, Waiting}
Queued(kind) == \E i \in DOMAIN queue : queue[i].kind = kind

(* STACK_UP is the first message of a session. *)
UpComesFirst ==
    \A i \in DOMAIN queue : queue[i].kind = "STACK_UP" => i = 1 /\ ~Busy

(* There is one STACK_DOWN at a time, and somebody waits for it. *)
OneDown ==
    /\ \A i, j \in DOMAIN queue :
          queue[i].kind = "STACK_DOWN" /\ queue[j].kind = "STACK_DOWN" => i = j
    /\ Busy /\ app.kind = "STACK_DOWN" => ~Queued("STACK_DOWN")
    /\ Queued("STACK_DOWN") \/ (Busy /\ app.kind = "STACK_DOWN")
          => pc = "wait" /\ ~sem

(* Once xWorkSem is given the profiles are down and stay down. *)
DownIsFinal ==
    /\ sem => pc = "wait"
    /\ sem \/ pc \in {"delete_task", "delete_queue", "teardown"} =>
          ~registered /\ ~Queued("STACK_UP") /\ ~(Busy /\ app.kind = "STACK_UP")

(* Without a session there is neither a task nor a queue. *)
NoSessionNoTask ==
    /\ ~queue_exists => queue = <<>> /\ ~registered
    /\ pc \in {"init", "start_task", "teardown"} => ~queue_exists
    /\ ~audio_enabled => (queue_exists <=> pc = "enable")
    /\ pc = "delete_queue" \/ ~queue_exists => app = NoTask

OwnMessages ==
    /\ \A i \in DOMAIN queue : queue[i].session = session
    /\ Busy => app.session = session

(* While there is a queue, STACK_UP is in it or was handled, and STACK_DOWN*)
(* was handled only if the teardown has got so far.                        *)
UpUntilDown ==
    queue_exists =>
        \/ Queued("STACK_UP") \/ (Busy /\ app.kind = "STACK_UP") \/ registered
        \/ sem \/ pc \in {"delete_task", "delete_queue"}

(* The flag is set by a start that has succeeded, and cleared by a stop. *)
EnabledInSession ==
    /\ pc \in {"deinit", "wait", "delete_task", "delete_queue", "teardown"}
          => audio_enabled
    /\ pc \in {"init", "start_task", "enable"} => ~audio_enabled

IInv ==
    /\ UpComesFirst /\ OneDown /\ DownIsFinal /\ NoSessionNoTask /\ OwnMessages
    /\ UpUntilDown /\ EnabledInSession

-----------------------------------------------------------------------------
(* The session as its callers see it. *)
Stage ==
    CASE pc \in {"init", "start_task", "enable"} -> "starting"
      [] pc = "deinit" \/ (pc = "wait" /\ ~sem) -> "stopping"
      [] pc = "wait" /\ sem -> "down"
      [] pc \in {"delete_task", "delete_queue", "teardown"} -> "down"
      [] pc = "idle" /\ ~audio_enabled -> "off"
      [] pc = "idle" /\ audio_enabled /\ queue_exists -> "on"
      [] pc = "idle" /\ audio_enabled /\ ~queue_exists -> "stuck"

S == INSTANCE BtSession WITH
         StopFaults <- Faults, stage <- Stage, enabled <- audio_enabled,
         connected <- active_connection, up <- registered

(* To its callers, start-up and teardown across three tasks are a session: *)
(* a connection is reported only by callbacks of this session, the flags   *)
(* of one that has ended are both clear, and the profiles are down before  *)
(* the stack is (bt_audio.c 190-300, bt_app_av.c 205-215).                 *)
ImplementsSession == S!SafetySpec

=============================================================================
