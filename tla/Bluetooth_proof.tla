---------------------------- MODULE Bluetooth_proof ----------------------------
(***************************************************************************)
(* Proofs about the Bluetooth component: start-up and teardown of the      *)
(* stack, for every queue length and any number of sessions, with or       *)
(* without faults; the shared volume, for every range and step; and the    *)
(* AVRCP controller, for every set of notifications and queue length.      *)
(***************************************************************************)
EXTENDS MCBluetooth, FiniteSetTheorems, FunctionTheorems, SequenceTheorems, TLAPS

-----------------------------------------------------------------------------
(* What Append, Head and Tail do to the positions of a queue. *)
LEMMA AppendIndex ==
    ASSUME NEW X, NEW q \in Seq(X), NEW e \in X
    PROVE  /\ Append(q, e) \in Seq(X)
           /\ Len(Append(q, e)) = Len(q) + 1
           /\ \A i \in DOMAIN q : i \in DOMAIN Append(q, e) /\ Append(q, e)[i] = q[i]
           /\ \A i \in DOMAIN Append(q, e) :
                 \/ i \in DOMAIN q /\ Append(q, e)[i] = q[i]
                 \/ i = Len(q) + 1 /\ Append(q, e)[i] = e
OBVIOUS

LEMMA TailIndex ==
    ASSUME NEW X, NEW q \in Seq(X), q # <<>>
    PROVE  /\ Head(q) = q[1] /\ 1 \in DOMAIN q /\ Head(q) \in X
           /\ Tail(q) \in Seq(X) /\ Len(Tail(q)) = Len(q) - 1
           /\ \A i \in DOMAIN Tail(q) :
                 i \in Nat \ {0} /\ i + 1 \in DOMAIN q /\ Tail(q)[i] = q[i + 1]
OBVIOUS

(* A message is neither of the two marks, which are no messages. *)
LEMMA MessagesAreNoMarks ==
    NoTask \notin Messages /\ Waiting \notin Messages /\ NoTask # Waiting
BY DEF NoTask, Waiting, Messages, Kinds

(* What the stack's callbacks and the main task dispatch is a message. *)
LEMMA MsgType ==
    ASSUME NEW k \in Kinds, TypeOK
    PROVE  Msg(k) \in Messages
BY DEF Msg, Messages, TypeOK

(* Dispatch keeps the queue within its capacity and adds one message of    *)
(* this session at most, at the end.                                       *)
LEMMA DispatchEffect ==
    ASSUME TypeOK, NEW k \in Kinds, Dispatch(k)
    PROVE  /\ queue' \in Seq(Messages) /\ Len(queue') <= QueueLen
           /\ lost' \in BOOLEAN
           /\ \A i \in DOMAIN queue' :
                 \/ i \in DOMAIN queue /\ queue'[i] = queue[i]
                 \/ queue_exists /\ i = Len(queue) + 1 /\ queue'[i] = Msg(k)
           /\ \A i \in DOMAIN queue : i \in DOMAIN queue' /\ queue'[i] = queue[i]
           /\ ~queue_exists => queue' = queue
<1>1. CASE queue_exists /\ Len(queue) < QueueLen
  <2>1. Msg(k) \in Messages
    BY MsgType
  <2>. QED
    BY <1>1, <2>1, AppendIndex, QueueLenAssumption DEF Dispatch, TypeOK
<1>2. CASE ~(queue_exists /\ Len(queue) < QueueLen)
  BY <1>2 DEF Dispatch, TypeOK
<1>. QED
  BY <1>1, <1>2

-----------------------------------------------------------------------------
(* Type correctness. *)
LEMMA InitTypeOK == Init => TypeOK /\ LayersMissing
<1> SUFFICES ASSUME Init PROVE TypeOK /\ LayersMissing
  OBVIOUS
<1>1. layers \in 0..AllLayers /\ session \in 0..Sessions /\ LayersMissing
  BY SessionsAssumption DEF Init, AllLayers, LayersMissing
<1>2. queue \in Seq(Messages) /\ Len(queue) <= QueueLen
  BY QueueLenAssumption DEF Init
<1>. QED
  BY <1>1, <1>2 DEF Init, TypeOK

(* What the main task does to the queue and the layers keeps their types. *)
LEMMA MainTypeOK ==
    ASSUME TypeOK, LayersMissing, MainTask \/ Calls
    PROVE  TypeOK' /\ LayersMissing'
<1>. USE DEF appVars, btcVars, LayersMissing
<1>1. CASE LayerUp
  <2>1. layers' \in 0..AllLayers /\ LayersMissing'
    BY <1>1 DEF LayerUp, TypeOK, AllLayers
  <2>. QED
    BY <1>1, <2>1 DEF LayerUp, TypeOK
<1>2. CASE \/ LayerUpFails \/ Enable \/ WaitForDown \/ DeinitCall
           \/ DeleteTask \/ LayerDownFails
  BY <1>2 DEF LayerUpFails, Enable, WaitForDown, DeinitCall, DeleteTask, LayerDownFails, TypeOK
<1>3. CASE StartTask
  <2>1. queue' \in Seq(Messages) /\ Len(queue') <= QueueLen
    <3>1. queue' \in Seq(Messages) /\ Len(queue') = 1
      BY <1>3, MsgType DEF StartTask, Kinds
    <3>. QED
      BY <3>1, QueueLenAssumption
  <2>. QED
    BY <1>3, <2>1 DEF StartTask, TypeOK
<1>4. CASE DispatchDown
  BY <1>4, DispatchEffect DEF DispatchDown, TypeOK, Kinds
<1>5. CASE DeleteQueue
  <2>1. queue' \in Seq(Messages) /\ Len(queue') <= QueueLen
    BY <1>5, QueueLenAssumption DEF DeleteQueue
  <2>. QED
    BY <1>5, <2>1 DEF DeleteQueue, TypeOK
<1>6. CASE LayerDown
  <2>1. layers' \in 0..AllLayers
    BY <1>6 DEF LayerDown, TypeOK, AllLayers
  <2>. QED
    BY <1>6, <2>1 DEF LayerDown, TypeOK
<1>7. CASE InitCall
  <2>1. session' \in 0..Sessions /\ LayersMissing'
    BY <1>7, SessionsAssumption DEF InitCall, TypeOK, AllLayers
  <2>. QED
    BY <1>7, <2>1 DEF InitCall, TypeOK
<1>. QED
  BY <1>1, <1>2, <1>3, <1>4, <1>5, <1>6, <1>7 DEF MainTask, Calls

(* BtAppTask and the callbacks keep the types. *)
LEMMA AppAndBtcTypeOK ==
    ASSUME TypeOK, LayersMissing, AppTask \/ Btc
    PROVE  TypeOK' /\ LayersMissing'
<1>. USE DEF mainVars, btcVars, LayersMissing
<1>1. CASE ReceiveMessage
  <2>1. queue' \in Seq(Messages) /\ Len(queue') <= QueueLen /\ app' \in Messages
    BY <1>1, TailIndex, QueueLenAssumption DEF ReceiveMessage, TypeOK
  <2>. QED
    BY <1>1, <2>1 DEF ReceiveMessage, TypeOK
<1>2. CASE HandleMessage
  <2>1. /\ registered' \in BOOLEAN /\ link' \in BOOLEAN
        /\ sem' \in BOOLEAN /\ active_connection' \in BOOLEAN
    BY <1>2, Zenon DEF HandleMessage, TypeOK
  <2>. QED
    BY <1>2, <2>1 DEF HandleMessage, TypeOK
<1>3. CASE Btc
  BY <1>3, DispatchEffect
  DEF Btc, PeerConnects, PeerDisconnects, OtherCallback, TypeOK, Kinds
<1>. QED
  BY <1>1, <1>2, <1>3 DEF AppTask

(* Every variable keeps its type and the queue its capacity. *)
THEOREM TypeCorrect == SafetySpec => []TypeOK
<1>1. TypeOK /\ LayersMissing /\ [Next]_vars => TypeOK' /\ LayersMissing'
  <2> SUFFICES ASSUME TypeOK, LayersMissing, [Next]_vars
               PROVE  TypeOK' /\ LayersMissing'
    OBVIOUS
  <2>1. CASE UNCHANGED vars
    BY <2>1 DEF vars, TypeOK, LayersMissing
  <2>. QED
    BY <2>1, MainTypeOK, AppAndBtcTypeOK DEF Next
<1>. QED
  BY <1>1, InitTypeOK, PTL DEF SafetySpec

-----------------------------------------------------------------------------
(* The inductive invariant. *)
LEMMA InitIInv == Init => IInv
BY DEF Init, IInv, UpComesFirst, OneDown, DownIsFinal, NoSessionNoTask, OwnMessages,
       UpUntilDown, EnabledInSession, Busy, Queued

(* A step that touches neither the queue nor BtAppTask. *)
LEMMA MainIInv ==
    ASSUME TypeOK, IInv, MainTask \/ Calls
    PROVE  IInv'
<1>. USE DEF IInv, UpComesFirst, OneDown, DownIsFinal, NoSessionNoTask, OwnMessages,
             UpUntilDown, EnabledInSession, Busy, Queued, appVars, btcVars
<1>1. CASE InitCall
  BY <1>1 DEF InitCall
<1>2. CASE DeinitCall \/ LayerUp \/ LayerUpFails \/ Enable \/ WaitForDown
  BY <1>2 DEF DeinitCall, LayerUp, LayerUpFails, Enable, WaitForDown
<1>3. CASE StartTask
  <2>1. /\ queue' = <<Msg("STACK_UP")>> /\ ~sem /\ pc = "start_task" /\ pc' = "enable"
        /\ app' = Waiting /\ session' = session /\ sem' = sem
        /\ queue_exists' = TRUE /\ UNCHANGED <<audio_enabled, registered>>
    BY <1>3 DEF StartTask
  <2>2. /\ DOMAIN queue' = {1} /\ queue'[1].kind = "STACK_UP"
        /\ queue'[1].session = session
    BY <2>1 DEF Msg
  <2>. QED
    BY <2>1, <2>2
<1>4. CASE DispatchDown
  <2>1. Dispatch("STACK_DOWN") /\ "STACK_DOWN" \in Kinds
    BY <1>4 DEF DispatchDown, Kinds
  <2>2. /\ Msg("STACK_DOWN").kind = "STACK_DOWN"
        /\ Msg("STACK_DOWN").session = session
    BY DEF Msg
  <2>3. /\ \A i \in DOMAIN queue' :
              \/ i \in DOMAIN queue /\ queue'[i] = queue[i]
              \/ queue_exists /\ i = Len(queue) + 1 /\ queue'[i] = Msg("STACK_DOWN")
        /\ \A i \in DOMAIN queue : i \in DOMAIN queue' /\ queue'[i] = queue[i]
        /\ ~queue_exists => queue' = queue
    BY <2>1, DispatchEffect
  <2>4. /\ pc = "deinit" /\ pc' = "wait"
        /\ UNCHANGED <<audio_enabled, queue_exists, app, sem, registered, session>>
    BY <1>4 DEF DispatchDown
  <2>5. UpComesFirst' /\ NoSessionNoTask' /\ OwnMessages'
    BY <2>2, <2>3, <2>4
  <2>6. OneDown' /\ DownIsFinal'
    BY <2>2, <2>3, <2>4
  <2>7. UpUntilDown' /\ EnabledInSession'
    BY <2>3, <2>4
  <2>. QED
    BY <2>5, <2>6, <2>7
<1>5. CASE DeleteTask
  BY <1>5 DEF DeleteTask
<1>6. CASE DeleteQueue
  BY <1>6 DEF DeleteQueue
<1>7. CASE LayerDown \/ LayerDownFails
  BY <1>7 DEF LayerDown, LayerDownFails
<1>. QED
  BY <1>1, <1>2, <1>3, <1>4, <1>5, <1>6, <1>7 DEF MainTask, Calls

(* BtAppTask keeps it: a message moves from the queue into its hands. *)
LEMMA AppIInv ==
    ASSUME TypeOK, IInv, AppTask
    PROVE  IInv'
<1>. USE DEF IInv, UpComesFirst, OneDown, DownIsFinal, NoSessionNoTask, OwnMessages,
             UpUntilDown, EnabledInSession, Busy, Queued, mainVars, btcVars
<1>1. CASE ReceiveMessage
  <2>1. queue \in Seq(Messages) /\ queue # <<>> /\ queue' = Tail(queue)
        /\ app = Waiting /\ app' = queue[1] /\ app' \in Messages /\ 1 \in DOMAIN queue
    BY <1>1, TailIndex DEF ReceiveMessage, TypeOK
  <2>2. \A i \in DOMAIN queue' :
            i \in Nat \ {0} /\ i + 1 \in DOMAIN queue /\ queue'[i] = queue[i + 1]
    BY <2>1, TailIndex
  <2>3. ~Busy /\ Busy'
    BY <2>1, MessagesAreNoMarks
  <2>4. UpComesFirst'
    BY <2>1, <2>2
  <2>5. OneDown'
    BY <1>1, <2>1, <2>2, <2>3 DEF ReceiveMessage
  <2>6. DownIsFinal'
    BY <1>1, <2>1, <2>2 DEF ReceiveMessage
  <2>7. NoSessionNoTask'
    BY <1>1, <2>1 DEF ReceiveMessage, NoTask, Waiting
  <2>8. OwnMessages'
    BY <1>1, <2>1, <2>2 DEF ReceiveMessage
  <2>9. UpUntilDown' /\ EnabledInSession'
    BY <1>1, <2>1, <2>2, <2>3 DEF ReceiveMessage
  <2>. QED
    BY <2>4, <2>5, <2>6, <2>7, <2>8, <2>9
<1>2. CASE HandleMessage
  BY <1>2 DEF HandleMessage
<1>. QED
  BY <1>1, <1>2 DEF AppTask

(* The callbacks keep it: they only add messages of their session. *)
LEMMA BtcIInv ==
    ASSUME TypeOK, IInv, Btc
    PROVE  IInv'
<1>. USE DEF IInv, UpComesFirst, OneDown, DownIsFinal, NoSessionNoTask, OwnMessages,
             UpUntilDown, EnabledInSession, Busy, Queued, mainVars, btcVars
<1>1. PICK k \in Kinds \ {"STACK_UP", "STACK_DOWN"} : Dispatch(k)
  BY DEF Btc, PeerConnects, PeerDisconnects, OtherCallback, Kinds
<1>2. /\ UNCHANGED <<pc, audio_enabled, session, queue_exists, app, sem, registered>>
      /\ registered
  BY DEF Btc, PeerConnects, PeerDisconnects, OtherCallback
<1>3. /\ Msg(k).kind \notin {"STACK_UP", "STACK_DOWN"}
      /\ Msg(k).session = session
  BY DEF Msg
<1>. QED
  BY <1>1, <1>2, <1>3, DispatchEffect

(* The invariant that ties xWorkSem, the two stack messages and the        *)
(* session of every message together.                                      *)
THEOREM SessionInvariant == SafetySpec => []IInv
<1>1. TypeOK /\ IInv /\ [Next]_vars => IInv'
  <2> SUFFICES ASSUME TypeOK, IInv, [Next]_vars PROVE IInv'
    OBVIOUS
  <2>1. CASE UNCHANGED vars
    BY <2>1 DEF vars, IInv, UpComesFirst, OneDown, DownIsFinal, NoSessionNoTask,
                OwnMessages, UpUntilDown, EnabledInSession, Busy, Queued
  <2>. QED
    BY <2>1, MainIInv, AppIInv, BtcIInv DEF Next
<1>. QED
  BY <1>1, InitIInv, TypeCorrect, PTL DEF SafetySpec

(* bt_audio_deinit() deletes BtAppTask and disables bluedroid only after   *)
(* its own STACK_DOWN has been handled.                                    *)
THEOREM StackIsDownBeforeDisable == SafetySpec => []DisableAfterStackDown
<1>1. IInv => DisableAfterStackDown
  BY DEF IInv, DownIsFinal, DisableAfterStackDown
<1>. QED
  BY <1>1, SessionInvariant, PTL

(* No message outlives its session. *)
THEOREM MessagesDieWithSession == SafetySpec => []NoOldMessages
<1>1. IInv => NoOldMessages
  BY DEF IInv, OwnMessages, NoOldMessages, Pending, Busy
<1>. QED
  BY <1>1, SessionInvariant, PTL

(* Sessions do not mix: the stack goes down in order, messages stay in     *)
(* their session.                                                          *)
THEOREM SessionsDoNotMix == SafetySpec => []SessionsApart
BY TypeCorrect, StackIsDownBeforeDisable, MessagesDieWithSession, PTL DEF SessionsApart

-----------------------------------------------------------------------------
(* The session that the states use.                                         *)

(* The stage in every position of the main task. *)
LEMMA StageIs ==
    /\ pc \in {"init", "start_task", "enable"} => Stage = "starting"
    /\ pc = "deinit" \/ (pc = "wait" /\ ~sem) => Stage = "stopping"
    /\ (pc = "wait" /\ sem) \/ pc \in {"delete_task", "delete_queue", "teardown"}
          => Stage = "down"
    /\ pc = "idle" /\ ~audio_enabled => Stage = "off"
    /\ pc = "idle" /\ audio_enabled => Stage = IF queue_exists THEN "on" ELSE "stuck"
BY DEF Stage

LEMMA StageWillBe ==
    /\ pc' \in {"init", "start_task", "enable"} => Stage' = "starting"
    /\ pc' = "deinit" \/ (pc' = "wait" /\ ~sem') => Stage' = "stopping"
    /\ (pc' = "wait" /\ sem') \/ pc' \in {"delete_task", "delete_queue", "teardown"}
          => Stage' = "down"
    /\ pc' = "idle" /\ ~audio_enabled' => Stage' = "off"
    /\ pc' = "idle" /\ audio_enabled' => Stage' = IF queue_exists' THEN "on" ELSE "stuck"
BY StageIs DEF Stage

LEMMA SameStage ==
    ASSUME UNCHANGED <<pc, sem, queue_exists, audio_enabled, active_connection, registered>>
    PROVE  UNCHANGED S!vars
BY DEF Stage, S!vars

(* The main task starts and stops the session. *)
LEMMA MainSession ==
    ASSUME TypeOK, IInv, MainTask \/ Calls
    PROVE  S!Next \/ UNCHANGED S!vars
<1>0. /\ sem => pc = "wait"
      /\ pc \in {"init", "start_task", "teardown"} => ~queue_exists
      /\ ~queue_exists => ~registered
      /\ ~audio_enabled => (queue_exists <=> pc = "enable")
      /\ pc \in {"deinit", "wait", "delete_task", "delete_queue", "teardown"} => audio_enabled
      /\ pc \in {"init", "start_task", "enable"} => ~audio_enabled
  BY DEF IInv, DownIsFinal, NoSessionNoTask, EnabledInSession
<1>1. CASE InitCall
  <2>1. /\ Stage = "off" /\ Stage' = "starting"
        /\ UNCHANGED <<audio_enabled, active_connection, registered>>
    BY <1>1, StageIs, StageWillBe DEF InitCall, btcVars
  <2>. QED
    BY <2>1 DEF S!Next, S!Start
<1>2. CASE LayerUp \/ StartTask
  <2>1. /\ Stage = "starting" /\ Stage' = "starting"
        /\ UNCHANGED <<audio_enabled, active_connection, registered>>
    BY <1>2, StageIs, StageWillBe DEF LayerUp, StartTask, btcVars
  <2>. QED
    BY <2>1 DEF S!vars
<1>3. CASE LayerUpFails
  <2>1. /\ Stage = "starting" /\ Stage' = "off" /\ ~registered
        /\ UNCHANGED <<audio_enabled, active_connection, registered>>
    BY <1>0, <1>3, StageIs, StageWillBe DEF LayerUpFails, btcVars
  <2>. QED
    BY <2>1 DEF S!Next, S!StartFails
<1>4. CASE Enable
  <2>1. /\ Stage = "starting" /\ Stage' = "on" /\ audio_enabled' = TRUE
        /\ UNCHANGED <<active_connection, registered>>
    BY <1>0, <1>4, StageIs, StageWillBe DEF Enable, btcVars, appVars
  <2>. QED
    BY <2>1 DEF S!Next, S!Started
<1>5. CASE DeinitCall
  <2>1. /\ Stage \in {"on", "stuck"} /\ Stage' = "stopping"
        /\ UNCHANGED <<audio_enabled, active_connection, registered>>
    BY <1>5, StageIs, StageWillBe DEF DeinitCall, btcVars
  <2>. QED
    BY <2>1 DEF S!Next, S!Stop
<1>6. CASE DispatchDown
  <2>1. /\ Stage = "stopping" /\ Stage' = "stopping"
        /\ UNCHANGED <<audio_enabled, active_connection, registered>>
    BY <1>0, <1>6, StageIs, StageWillBe DEF DispatchDown, btcVars
  <2>. QED
    BY <2>1 DEF S!vars
<1>7. CASE WaitForDown \/ DeleteTask \/ DeleteQueue
  <2>1. /\ Stage = "down" /\ Stage' = "down"
        /\ UNCHANGED <<audio_enabled, active_connection, registered>>
    BY <1>7, StageIs, StageWillBe DEF WaitForDown, DeleteTask, DeleteQueue, btcVars
  <2>. QED
    BY <2>1 DEF S!vars
<1>8. CASE LayerDown
  <2>1. pc = "teardown" /\ Stage = "down" /\ UNCHANGED registered
    BY <1>8, StageIs DEF LayerDown, btcVars
  <2>2. CASE layers' = 0
    <3>1. Stage' = "off" /\ audio_enabled' = FALSE /\ active_connection' = FALSE
      BY <1>8, <2>2, StageWillBe DEF LayerDown
    <3>. QED
      BY <2>1, <3>1 DEF S!Next, S!Stopped
  <2>3. CASE layers' # 0
    <3>1. Stage' = "down" /\ UNCHANGED <<audio_enabled, active_connection>>
      BY <1>8, <2>1, <2>3, StageWillBe DEF LayerDown
    <3>. QED
      BY <2>1, <3>1 DEF S!vars
  <2>. QED
    BY <2>2, <2>3
<1>9. CASE LayerDownFails
  <2>1. /\ Faults /\ Stage = "down" /\ Stage' = "stuck"
        /\ UNCHANGED <<audio_enabled, active_connection, registered>>
    BY <1>0, <1>9, StageIs, StageWillBe DEF LayerDownFails, btcVars, appVars
  <2>. QED
    BY <2>1 DEF S!Next, S!StopFails
<1>. QED
  BY <1>1, <1>2, <1>3, <1>4, <1>5, <1>6, <1>7, <1>8, <1>9 DEF MainTask, Calls

(* BtAppTask takes the profiles up and down and reports connections; the   *)
(* callbacks of the stack only queue what they report.                     *)
LEMMA TasksSession ==
    ASSUME TypeOK, IInv, AppTask \/ Btc
    PROVE  S!Next \/ UNCHANGED S!vars
<1>1. CASE ReceiveMessage \/ Btc
  BY <1>1, SameStage DEF ReceiveMessage, Btc, PeerConnects, PeerDisconnects, OtherCallback,
     mainVars, btcVars
<1>2. CASE HandleMessage
  <2>1. /\ Busy /\ app \in Messages
        /\ UNCHANGED <<pc, audio_enabled, queue_exists>>
        /\ sem' = (sem \/ app.kind = "STACK_DOWN")
    BY <1>2 DEF HandleMessage, Busy, TypeOK, mainVars
  <2>2. queue_exists /\ pc # "delete_queue"
    BY <2>1, MessagesAreNoMarks DEF IInv, NoSessionNoTask, Busy
  <2>3. pc # "init" /\ pc # "start_task" /\ pc # "teardown" /\ (pc = "idle" => audio_enabled)
    BY <2>2 DEF IInv, NoSessionNoTask
  <2>4. CASE app.kind = "STACK_UP"
    <3>1. registered' = TRUE /\ sem' = sem /\ active_connection' = active_connection
      BY <1>2, <2>1, <2>4 DEF HandleMessage, TypeOK
    <3>2. ~sem /\ pc # "delete_task"
      BY <2>1, <2>4 DEF IInv, DownIsFinal
    <3>3. Stage \in {"starting", "on", "stopping"} /\ Stage' = Stage
      BY <2>1, <2>2, <2>3, <3>1, <3>2, StageIs, StageWillBe DEF TypeOK
    <3>. QED
      BY <2>1, <3>1, <3>3 DEF S!Next, S!CallbacksUp
  <2>5. CASE app.kind = "STACK_DOWN"
    <3>1. registered' = FALSE /\ sem' = TRUE /\ active_connection' = active_connection
      BY <1>2, <2>1, <2>5 DEF HandleMessage
    <3>2. pc = "wait" /\ ~sem
      BY <2>1, <2>5 DEF IInv, OneDown
    <3>3. Stage = "stopping" /\ Stage' = "down"
      BY <2>1, <3>1, <3>2, StageIs, StageWillBe
    <3>. QED
      BY <2>1, <3>1, <3>3 DEF S!Next, S!ProfilesDown
  <2>6. CASE app.kind \notin {"STACK_UP", "STACK_DOWN"}
    <3>1. registered' = registered /\ active_connection' \in BOOLEAN
      BY <1>2, <2>6 DEF HandleMessage, TypeOK
    <3>2. sem' = sem
      BY <2>1, <2>6 DEF TypeOK
    <3>3. Stage' = Stage
      BY <2>1, <3>2 DEF Stage
    <3>4. ~Queued("STACK_UP")
      BY <2>1 DEF IInv, UpComesFirst, Queued
    <3>5. registered \/ sem \/ pc = "delete_task"
      BY <2>2, <2>6, <3>4 DEF IInv, UpUntilDown
    <3>6. registered \/ Stage = "down"
      BY <3>5, StageIs DEF IInv, DownIsFinal
    <3>. QED
      BY <2>1, <3>1, <3>3, <3>6 DEF S!Next, S!Connection
  <2>. QED
    BY <2>4, <2>5, <2>6
<1>. QED
  BY <1>1, <1>2 DEF AppTask

(* bt_audio.c and bt_app_core.c implement a session, for every queue length *)
(* and number of sessions, and whatever call into the stack fails.          *)
THEOREM StackImplementsSession == SafetySpec => ImplementsSession
<1>1. Init => S!Init
  BY StageIs DEF Init, S!Init
<1>2. TypeOK /\ IInv /\ [Next]_vars => [S!Next]_(S!vars)
  <2> SUFFICES ASSUME TypeOK, IInv, [Next]_vars PROVE S!Next \/ UNCHANGED S!vars
    OBVIOUS
  <2>1. CASE UNCHANGED vars
    BY <2>1, SameStage DEF vars
  <2>. QED
    BY <2>1, MainSession, TasksSession DEF Next
<1>. QED
  BY <1>1, <1>2, TypeCorrect, SessionInvariant, PTL
  DEF SafetySpec, ImplementsSession, S!SafetySpec

(* Whatever implements a session shows its callers what they rely on. *)
THEOREM SessionsAreSound == S!SafetySpec => []S!CallerView
<1>1. S!Init => S!CallerView
  BY DEF S!Init, S!CallerView, S!Stages
<1>2. S!CallerView /\ [S!Next]_(S!vars) => S!CallerView'
  <2> SUFFICES ASSUME S!CallerView, [S!Next]_(S!vars) PROVE S!CallerView'
    OBVIOUS
  <2>1. CASE UNCHANGED S!vars
    BY <2>1 DEF S!vars, S!CallerView
  <2>2. CASE S!Start \/ S!StartFails \/ S!Stop \/ S!StopFails
    BY <2>2 DEF S!CallerView, S!Stages, S!Start, S!StartFails, S!Stop, S!StopFails
  <2>3. CASE S!Started
    <3>1. /\ Stage' = "on" /\ audio_enabled' /\ UNCHANGED active_connection
      BY <2>3 DEF S!Started
    <3>. QED
      BY <3>1 DEF S!CallerView, S!Stages
  <2>4. CASE S!CallbacksUp
    <3>1. /\ Stage' = Stage /\ UNCHANGED <<audio_enabled, active_connection>> /\ registered'
          /\ Stage \in {"starting", "on", "stopping"}
      BY <2>4 DEF S!CallbacksUp
    <3>. QED
      BY <3>1 DEF S!CallerView
  <2>5. CASE S!Connection
    <3>1. /\ Stage' = Stage /\ UNCHANGED <<audio_enabled, registered>>
          /\ registered \/ Stage = "down"
      BY <2>5 DEF S!Connection
    <3>. QED
      BY <3>1 DEF S!CallerView
  <2>6. CASE S!ProfilesDown
    <3>1. Stage = "stopping" /\ Stage' = "down" /\ ~registered'
          /\ UNCHANGED <<audio_enabled, active_connection>>
      BY <2>6 DEF S!ProfilesDown
    <3>. QED
      BY <3>1 DEF S!CallerView, S!Stages
  <2>7. CASE S!Stopped
    <3>1. Stage = "down" /\ Stage' = "off" /\ ~audio_enabled' /\ ~active_connection'
          /\ UNCHANGED registered
      BY <2>7 DEF S!Stopped
    <3>. QED
      BY <3>1 DEF S!CallerView, S!Stages
  <2>. QED
    BY <2>1, <2>2, <2>3, <2>4, <2>5, <2>6, <2>7 DEF S!Next
<1>. QED
  BY <1>1, <1>2, PTL DEF S!SafetySpec

-----------------------------------------------------------------------------
(* The volume: types.                                                       *)

LEMMA VolumeConstants == MaxVol \in Nat /\ Step \in Nat /\ MaxQueue \in Nat /\ MaxRsp \in Nat
BY BtAssumption DEF V!VolumeAssumption

(* A step up or down stays in range and is at most Step wide. *)
LEMMA StepsInRange ==
    ASSUME NEW v \in V!Vols
    PROVE  /\ V!Louder(v) \in V!Vols /\ V!Louder(v) - v \in -Step .. Step
           /\ V!Softer(v) \in V!Vols /\ V!Softer(v) - v \in -Step .. Step
BY VolumeConstants DEF V!Vols, V!Louder, V!Softer

(* A prefix of a queue. *)
LEMMA PrefixIndex ==
    ASSUME NEW X, NEW q \in Seq(X), NEW n \in 0 .. Len(q)
    PROVE  /\ SubSeq(q, 1, n) \in Seq(X)
           /\ Len(SubSeq(q, 1, n)) = n
           /\ \A i \in 1 .. n : SubSeq(q, 1, n)[i] = q[i]
OBVIOUS

(* A response is appended or lost with the connection. *)
LEMMA RespondEffect ==
    ASSUME V!TypeOK, NEW k \in {"interim", "changed"}, NEW v \in V!Vols, V!Respond(k, v)
    PROVE  /\ rsp' \in Seq(V!Response)
           /\ ~up => rsp' = rsp
           /\ up => /\ Len(rsp') = Len(rsp) + 1
                    /\ \A i \in DOMAIN rsp : rsp'[i] = rsp[i]
                    /\ rsp'[Len(rsp) + 1] = [kind |-> k, v |-> v]
<1>1. [kind |-> k, v |-> v] \in V!Response
  BY DEF V!Response
<1>2. rsp \in Seq(V!Response)
  BY DEF V!TypeOK
<1>. QED
  BY <1>1, <1>2 DEF V!Respond

LEMMA VolumeInitially == V!Init => V!IInv
<1> SUFFICES ASSUME V!Init PROVE V!IInv
  OBVIOUS
<1>1. 0 \in V!Vols
  BY VolumeConstants DEF V!Vols
<1>2. commands \in Seq(V!Command) /\ rsp \in Seq(V!Response)
  BY DEF V!Init
<1>3. V!TypeOK
  BY <1>1, <1>2 DEF V!Init, V!TypeOK
<1>. QED
  BY <1>3 DEF V!Init, V!IInv, V!StoreInStep, V!LastCommandDecides, V!InterimCurrent, V!Following,
              V!UnheardUnanswered

LEMMA PressType ==
    ASSUME V!TypeOK, V!PressRead \/ V!PressStep
    PROVE  V!TypeOK'
<1>. USE DEF V!TypeOK, V!tg, V!ctrl
<1>1. CASE V!PressRead
  BY <1>1, StepsInRange DEF V!PressRead
<1>2. CASE V!PressStore \/ V!PressTest \/ V!PressReadAgain \/ V!PressClear
  <2>1. 0 \in V!Vols
    BY VolumeConstants DEF V!Vols
  <2>. QED
    BY <1>2, <2>1 DEF V!PressStore, V!PressTest, V!PressReadAgain, V!PressClear
<1>3. CASE V!PressSend
  <2>1. 0 \in V!Vols
    BY VolumeConstants DEF V!Vols
  <2>2. rsp' \in Seq(V!Response)
    BY <1>3, RespondEffect DEF V!PressSend
  <2>. QED
    BY <1>3, <2>1, <2>2 DEF V!PressSend
<1>. QED
  BY <1>1, <1>2, <1>3 DEF V!PressStep

LEMMA BtAppType ==
    ASSUME V!TypeOK, V!BtAppStep
    PROVE  V!TypeOK'
<1>. USE DEF V!TypeOK, V!local, V!tg, V!ctrl
<1>0. 0 \in V!Vols
  BY VolumeConstants DEF V!Vols
<1>1. commands # <<>> => Head(commands) \in V!Command /\ Tail(commands) \in Seq(V!Command)
  BY TailIndex
<1>2. CASE V!SetByController
  <2>1. Head(commands).v \in V!Vols
    BY <1>1, <1>2 DEF V!SetByController, V!Command
  <2>. QED
    BY <1>1, <1>2, <2>1 DEF V!SetByController
<1>3. CASE V!RegisterEvent
  <2>1. CASE bt_app # "send"
    <3>1. UNCHANGED <<vol, press, next, crossed, rsp, up, reg, view, hasty, dropped>>
      BY <1>3, <2>1 DEF V!RegisterEvent
    <3>2. commands' \in Seq(V!Command)
      BY <1>1, <1>3, <2>1 DEF V!RegisterEvent
    <3>3. notify' \in BOOLEAN /\ bt_app' \in {"idle", "read", "send"} /\ interim' \in V!Vols
      BY <1>3, <2>1 DEF V!RegisterEvent
    <3>. QED
      BY <3>1, <3>2, <3>3
  <2>2. CASE bt_app = "send"
    <3>1. V!Respond("interim", interim)
      BY <1>3, <2>2 DEF V!RegisterEvent
    <3>2. rsp' \in Seq(V!Response)
      BY <3>1, RespondEffect
    <3>. QED
      BY <1>0, <1>3, <2>2, <3>2 DEF V!RegisterEvent
  <2>. QED
    BY <2>1, <2>2
<1>. QED
  BY <1>2, <1>3 DEF V!BtAppStep

(* A command is appended to the work queue or dropped. *)
LEMMA HeardOrDropped ==
    ASSUME V!TypeOK, NEW c \in V!Command, NEW ok, V!Dispatch(c, ok)
    PROVE  /\ commands \in Seq(V!Command) /\ commands' \in Seq(V!Command)
           /\ ~ok => commands' = commands
           /\ ok => /\ commands' # <<>> /\ Len(commands') = Len(commands) + 1
                    /\ commands'[Len(commands')] = c
                    /\ DOMAIN commands' = DOMAIN commands \cup {Len(commands) + 1}
                    /\ \A i \in DOMAIN commands : commands'[i] = commands[i]
<1>1. commands \in Seq(V!Command)
  BY DEF V!TypeOK
<1>2. CASE ok
  <2>1. commands' = Append(commands, c)
    BY <1>2 DEF V!Dispatch
  <2>. QED
    BY <1>1, <1>2, <2>1
<1>3. CASE ~ok
  BY <1>1, <1>3 DEF V!Dispatch
<1>. QED
  BY <1>2, <1>3

LEMMA ControllerType ==
    ASSUME V!TypeOK, V!Controller
    PROVE  V!TypeOK'
<1>. USE DEF V!TypeOK, V!local, V!tg
<1>1. CASE V!Connect
  BY <1>1 DEF V!Connect
<1>2. CASE V!Disconnect
  <2>1. commands' \in Seq(V!Command)
    BY <1>2, PrefixIndex DEF V!Disconnect
  <2>2. rsp' \in Seq(V!Response) /\ view' = V!Unknown
    BY <1>2 DEF V!Disconnect
  <2>3. UNCHANGED <<vol, notify, press, next, crossed, bt_app, interim>>
    BY <1>2 DEF V!Disconnect
  <2>4. up' = FALSE /\ reg' = "none" /\ hasty' = FALSE /\ dropped' = FALSE
    BY <1>2 DEF V!Disconnect
  <2>. QED
    BY <2>1, <2>2, <2>3, <2>4
<1>3. ASSUME NEW v \in V!Vols, V!SendSet(v) PROVE V!TypeOK'
  <2>1. [kind |-> "set", v |-> v] \in V!Command
    BY DEF V!Command
  <2>2. commands' \in Seq(V!Command)
    BY <1>3, <2>1, HeardOrDropped DEF V!SendSet
  <2>3. hasty' \in BOOLEAN /\ dropped' \in BOOLEAN
    BY <1>3 DEF V!SendSet
  <2>4. view' \in V!Vols \cup {V!Unknown} /\ UNCHANGED <<vol, notify, press, next, crossed,
                                                       bt_app, interim, rsp, up, reg>>
    BY <1>3 DEF V!SendSet
  <2>. QED
    BY <2>2, <2>3, <2>4
<1>4. CASE V!Register
  <2>1. [kind |-> "register"] \in V!Command
    BY DEF V!Command
  <2>2. commands' \in Seq(V!Command)
    BY <1>4, <2>1, HeardOrDropped DEF V!Register
  <2>3. reg' \in {"asked", "unheard"} /\ dropped' \in BOOLEAN
    BY <1>4 DEF V!Register
  <2>4. UNCHANGED <<vol, notify, press, next, crossed, bt_app, interim, rsp, up, view, hasty>>
    BY <1>4 DEF V!Register
  <2>. QED
    BY <2>2, <2>3, <2>4
<1>5. CASE V!Receive
  <2>1. Head(rsp) \in V!Response /\ Tail(rsp) \in Seq(V!Response)
    BY <1>5, TailIndex DEF V!Receive
  <2>2. Head(rsp).v \in V!Vols
    BY <2>1 DEF V!Response
  <2>. QED
    BY <1>5, <2>1, <2>2 DEF V!Receive
<1>. QED
  BY <1>1, <1>2, <1>3, <1>4, <1>5 DEF V!Controller

-----------------------------------------------------------------------------
(* The volume: the inductive invariant.                                     *)

(* The button callbacks: the flag is TRUE between two presses only when no  *)
(* press changed the volume since the interim response was made.            *)
LEMMA PressKeeps ==
    ASSUME V!IInv, V!PressRead \/ V!PressStep
    PROVE  V!IInv'
<1>. USE DEF V!tg, V!ctrl
<1>0. V!TypeOK /\ V!TypeOK'
  BY PressType DEF V!IInv
<1>1. UNCHANGED <<bt_app, interim, commands, up, reg, view, hasty, dropped>>
  BY DEF V!PressStep, V!PressRead, V!PressStore, V!PressTest, V!PressReadAgain, V!PressSend,
         V!PressClear
<1>2. V!StoreInStep'
  <2>1. CASE V!PressRead
    BY <2>1, <1>0, StepsInRange DEF V!PressRead, V!StoreInStep, V!TypeOK
  <2>2. CASE V!PressStep
    BY <2>2 DEF V!PressStep, V!PressStore, V!PressTest, V!PressReadAgain, V!PressSend,
                V!PressClear, V!StoreInStep
  <2>. QED
    BY <2>1, <2>2
<1>3. \/ /\ UNCHANGED rsp
         /\ UNCHANGED <<vol, notify>> \/ press' = "test" \/ ~notify'
         /\ press \in {"idle", "store"} \/ press' \notin {"idle", "store"} \/ ~notify'
      \/ V!PressSend /\ up
  <2>1. CASE V!PressRead \/ V!PressStore \/ V!PressReadAgain \/ V!PressClear
    BY <2>1 DEF V!PressRead, V!PressStore, V!PressReadAgain, V!PressClear
  <2>2. CASE V!PressTest
    BY <2>2 DEF V!PressTest
  <2>3. CASE V!PressSend
    <3>1. ~up => rsp' = rsp
      BY <2>3 DEF V!PressSend, V!Respond
    <3>. QED
      BY <2>3, <3>1 DEF V!PressSend
  <2>. QED
    BY <2>1, <2>2, <2>3 DEF V!PressStep
<1>4. CASE /\ UNCHANGED rsp
           /\ UNCHANGED <<vol, notify>> \/ press' = "test" \/ ~notify'
           /\ press \in {"idle", "store"} \/ press' \notin {"idle", "store"} \/ ~notify'
  <2>1. V!InterimUnderWay' <=> V!InterimUnderWay
    BY <1>1, <1>4 DEF V!InterimUnderWay
  <2>2. V!LastCommandDecides'
    BY <1>1, <2>1 DEF V!IInv, V!LastCommandDecides, V!Following
  <2>3. V!InterimCurrent'
    BY <1>1, <1>4, <2>1 DEF V!IInv, V!InterimCurrent, V!Following, V!LastInterim
  <2>. QED
    BY <1>0, <1>1, <1>2, <2>1, <2>2, <2>3 DEF V!IInv, V!UnheardUnanswered
<1>5. CASE V!PressSend /\ up
  <2>1. /\ rsp \in Seq(V!Response) /\ rsp' \in Seq(V!Response)
        /\ Len(rsp') = Len(rsp) + 1
        /\ \A i \in DOMAIN rsp : rsp'[i] = rsp[i]
        /\ rsp'[Len(rsp) + 1].kind = "changed"
    <3>1. /\ rsp \in Seq(V!Response) /\ next \in V!Vols
          /\ V!Respond("changed", next)
      BY <1>0, <1>5 DEF V!PressSend, V!TypeOK
    <3>2. /\ rsp' \in Seq(V!Response) /\ Len(rsp') = Len(rsp) + 1
          /\ \A i \in DOMAIN rsp : rsp'[i] = rsp[i]
          /\ rsp'[Len(rsp) + 1] = [kind |-> "changed", v |-> next]
      BY <1>0, <1>5, <3>1, RespondEffect
    <3>. QED
      BY <3>1, <3>2
  <2>2. DOMAIN rsp' = DOMAIN rsp \cup {Len(rsp) + 1}
    BY <2>1
  <2>3. V!InterimUnderWay' <=> V!InterimUnderWay
    BY <1>1, <2>1, <2>2 DEF V!InterimUnderWay
  <2>4. V!LastCommandDecides'
    BY <1>1, <2>3 DEF V!IInv, V!LastCommandDecides, V!Following
  <2>5. V!InterimCurrent'
    BY <1>5 DEF V!PressSend, V!InterimCurrent
  <2>. QED
    BY <1>0, <1>1, <1>2, <2>3, <2>4, <2>5 DEF V!IInv, V!UnheardUnanswered
<1>. QED
  BY <1>3, <1>4, <1>5

(* The controller's volume: the last command left decides what is shown.    *)
LEMMA SetKeeps ==
    ASSUME V!IInv, V!SetByController
    PROVE  V!IInv'
<1>. USE DEF V!tg, V!ctrl
<1>0. V!TypeOK /\ V!TypeOK'
  BY BtAppType DEF V!IInv, V!BtAppStep
<1>1. /\ commands \in Seq(V!Command) /\ commands # <<>> /\ commands' = Tail(commands)
      /\ Head(commands) = commands[1] /\ commands[1].kind = "set" /\ vol' = commands[1].v
      /\ bt_app = "idle" /\ UNCHANGED <<notify, press, bt_app, interim, rsp>>
      /\ UNCHANGED <<up, reg, view, hasty, dropped>>
      /\ next' = next /\ crossed' = (press = "store")
  BY <1>0, TailIndex DEF V!SetByController, V!TypeOK
<1>2. /\ commands' \in Seq(V!Command) /\ Len(commands') = Len(commands) - 1
      /\ \A i \in DOMAIN commands' : i + 1 \in DOMAIN commands /\ commands'[i] = commands[i + 1]
      /\ Len(commands) \in Nat \ {0}
  BY <1>1, TailIndex
<1>3. V!StoreInStep'
  BY <1>1 DEF V!StoreInStep
<1>4. V!InterimUnderWay' => V!InterimUnderWay
  BY <1>1, <1>2 DEF V!InterimUnderWay
<1>5. V!InterimUnderWay => V!InterimUnderWay'
  <2>1. ASSUME NEW i \in DOMAIN commands, commands[i].kind = "register"
        PROVE  V!InterimUnderWay'
    <3>1. i - 1 \in DOMAIN commands' /\ commands'[i - 1] = commands[i]
      BY <1>1, <1>2, <2>1
    <3>. QED
      BY <2>1, <3>1 DEF V!InterimUnderWay
  <2>. QED
    BY <1>1, <2>1 DEF V!InterimUnderWay
<1>6. commands' # <<>> => /\ Len(commands') \in DOMAIN commands'
                          /\ commands'[Len(commands')] = commands[Len(commands)]
  BY <1>1, <1>2
<1>7. V!LastCommandDecides'
  BY <1>1, <1>4, <1>6 DEF V!IInv, V!LastCommandDecides, V!Following
<1>8. V!InterimCurrent'
  <2> SUFFICES ASSUME V!Following, commands' = <<>>
               PROVE  ~V!InterimUnderWay /\ view' = vol'
    BY <1>1, <1>5, <1>4 DEF V!InterimCurrent, V!Following, V!InterimUnderWay, V!LastInterim
  <2>1. Len(commands) = 1
    BY <1>2
  <2>. QED
    BY <1>1, <2>1 DEF V!IInv, V!LastCommandDecides
<1>. QED
  BY <1>0, <1>1, <1>3, <1>4, <1>5, <1>7, <1>8 DEF V!IInv, V!UnheardUnanswered

(* The register event: the interim response carries the volume read after   *)
(* the flag was set.                                                        *)
LEMMA RegisterEventKeeps ==
    ASSUME V!IInv, V!RegisterEvent
    PROVE  V!IInv'
<1>. USE DEF V!local, V!ctrl
<1>0. V!TypeOK /\ V!TypeOK'
  BY BtAppType DEF V!IInv, V!BtAppStep
<1>1. UNCHANGED <<vol, press, next, crossed, up, reg, view, hasty, dropped>>
  BY DEF V!RegisterEvent
<1>2. V!StoreInStep'
  BY <1>1 DEF V!IInv, V!StoreInStep
<1>3. CASE bt_app = "idle"
  <2>1. /\ commands \in Seq(V!Command) /\ commands # <<>> /\ commands' = Tail(commands)
        /\ bt_app' = "read" /\ rsp' = rsp
        /\ Head(commands) = commands[1] /\ commands[1].kind = "register"
        /\ 1 \in DOMAIN commands
    BY <1>0, <1>3, TailIndex DEF V!RegisterEvent, V!TypeOK
  <2>2. /\ commands' \in Seq(V!Command) /\ Len(commands') = Len(commands) - 1
        /\ \A i \in DOMAIN commands' : i + 1 \in DOMAIN commands /\ commands'[i] = commands[i + 1]
    BY <2>1, TailIndex
  <2>3. V!InterimUnderWay /\ V!InterimUnderWay'
    BY <2>1 DEF V!InterimUnderWay
  <2>4. commands' # <<>> => commands'[Len(commands')] = commands[Len(commands)]
    BY <2>1, <2>2
  <2>5. V!LastCommandDecides'
    BY <1>1, <2>1, <2>3, <2>4 DEF V!IInv, V!LastCommandDecides, V!Following
  <2>6. V!InterimCurrent'
    BY <2>1, <2>3 DEF V!InterimCurrent
  <2>. QED
    BY <1>0, <1>1, <1>2, <2>3, <2>5, <2>6 DEF V!IInv, V!UnheardUnanswered
<1>4. CASE bt_app = "read"
  <2>1. bt_app' = "send" /\ interim' = vol /\ UNCHANGED <<commands, rsp>>
    BY <1>4 DEF V!RegisterEvent
  <2>2. V!InterimUnderWay /\ V!InterimUnderWay'
    BY <1>4, <2>1 DEF V!InterimUnderWay
  <2>3. V!LastCommandDecides'
    BY <1>1, <2>1, <2>2 DEF V!IInv, V!LastCommandDecides, V!Following
  <2>4. V!InterimCurrent'
    BY <1>1, <2>1, <2>2 DEF V!InterimCurrent
  <2>. QED
    BY <1>0, <1>1, <1>2, <2>2, <2>3, <2>4 DEF V!IInv, V!UnheardUnanswered
<1>5. CASE bt_app = "send"
  <2>1. bt_app' = "idle" /\ UNCHANGED <<commands, notify>> /\ V!Respond("interim", interim)
    BY <1>5 DEF V!RegisterEvent
  <2>2. /\ rsp \in Seq(V!Response) /\ rsp' \in Seq(V!Response)
        /\ up => /\ Len(rsp') = Len(rsp) + 1
                 /\ rsp'[Len(rsp) + 1] = [kind |-> "interim", v |-> interim]
    BY <1>0, <2>1, RespondEffect DEF V!TypeOK
  <2>3. up => Len(rsp) + 1 \in DOMAIN rsp'
    BY <2>2
  <2>4. V!InterimUnderWay /\ (up => V!InterimUnderWay')
    BY <1>5, <2>2, <2>3 DEF V!InterimUnderWay
  <2>5. V!LastCommandDecides'
    BY <1>1, <2>1, <2>4 DEF V!IInv, V!LastCommandDecides, V!Following
  <2>6. V!InterimCurrent'
    <3> SUFFICES ASSUME V!Following, commands = <<>>, notify, press \in {"idle", "store"}
                 PROVE  \A i \in DOMAIN rsp' : V!LastInterim(i)' => rsp'[i].v = vol
      BY <1>1, <2>1, <2>4 DEF V!InterimCurrent, V!Following, V!IInv
    <3>1. up /\ interim = vol
      BY <1>5 DEF V!IInv, V!InterimCurrent, V!Following
    <3>2. ASSUME NEW i \in DOMAIN rsp', V!LastInterim(i)'
          PROVE  i = Len(rsp) + 1
      BY <2>2, <2>3, <3>1, <3>2 DEF V!LastInterim
    <3>. QED
      BY <2>2, <3>1, <3>2
  <2>. QED
    BY <1>0, <1>1, <1>2, <2>4, <2>5, <2>6 DEF V!IInv, V!UnheardUnanswered
<1>. QED
  BY <1>3, <1>4, <1>5 DEF V!RegisterEvent

(* The end of the session finds the connection, and with it the             *)
(* registration, gone.                                                      *)
LEMMA ShutDownKeeps ==
    ASSUME V!IInv, V!ShutDown
    PROVE  V!IInv'
<1>. USE DEF V!local, V!ctrl
<1>1. /\ bt_app' = "idle" /\ interim' = 0 /\ commands' = <<>> /\ ~up
      /\ UNCHANGED <<vol, notify, press, next, crossed, rsp, up, reg, view, hasty, dropped>>
  BY DEF V!ShutDown
<1>2. V!TypeOK'
  <2>1. 0 \in V!Vols
    BY VolumeConstants DEF V!Vols
  <2>. QED
    BY <1>1, <2>1 DEF V!IInv, V!TypeOK
<1>3. reg' = "none"
  BY <1>1 DEF V!IInv
<1>. QED
  BY <1>1, <1>2, <1>3
  DEF V!IInv, V!StoreInStep, V!LastCommandDecides, V!InterimCurrent, V!Following,
      V!UnheardUnanswered

(* The controller: a volume set while an interim response is on its way     *)
(* counts as too early.                                                     *)
LEMMA ControllerKeeps ==
    ASSUME V!IInv, V!Controller
    PROVE  V!IInv'
<1>. USE DEF V!tg, V!local
<1>0. V!TypeOK /\ V!TypeOK'
  BY ControllerType DEF V!IInv
<1>1. UNCHANGED <<vol, notify, press, next, crossed, bt_app, interim>>
  BY DEF V!Controller, V!Connect, V!Disconnect, V!SendSet, V!Register, V!Receive
<1>2. V!StoreInStep'
  BY <1>1 DEF V!IInv, V!StoreInStep
<1>3. CASE V!Connect \/ V!Disconnect
  <2>1. reg' = "none"
    BY <1>3 DEF V!Connect, V!Disconnect
  <2>. QED
    BY <1>0, <1>2, <2>1
    DEF V!IInv, V!LastCommandDecides, V!InterimCurrent, V!Following, V!UnheardUnanswered
<1>4. ASSUME NEW v \in V!Vols, V!SendSet(v) PROVE V!IInv'
  <2>1. PICK ok \in BOOLEAN : /\ V!Dispatch([kind |-> "set", v |-> v], ok)
                              /\ dropped' = (reg # "none" /\ ~ok /\ ~hasty')
    BY <1>4 DEF V!SendSet
  <2>2. /\ UNCHANGED <<rsp, up, reg>> /\ [kind |-> "set", v |-> v] \in V!Command
        /\ hasty' = (reg # "none" /\ (hasty \/ V!InterimComing))
        /\ reg # "none" => view' = v
    BY <1>4 DEF V!SendSet, V!Command
  <2>3. V!Following' => ok /\ reg # "none" /\ ~V!InterimComing /\ view' = v
    <3>1. V!Following' => reg' \in {"asked", "live"} /\ ~hasty' /\ ~dropped'
      BY DEF V!Following
    <3>2. V!Following' => reg # "none"
      BY <2>2, <3>1
    <3>3. V!Following' /\ ~ok => FALSE
      BY <2>1, <3>1, <3>2, Zenon
    <3>4. V!Following' => ~V!InterimComing
      BY <2>2, <3>1, <3>2, Zenon
    <3>. QED
      BY <2>2, <3>2, <3>3, <3>4
  <2>4. /\ ~ok => commands' = commands
        /\ ok => /\ commands' # <<>> /\ Len(commands') = Len(commands) + 1
                 /\ commands'[Len(commands')] = [kind |-> "set", v |-> v]
                 /\ DOMAIN commands' = DOMAIN commands \cup {Len(commands) + 1}
                 /\ \A i \in DOMAIN commands : commands'[i] = commands[i]
    BY <1>0, <2>1, <2>2, HeardOrDropped
  <2>5. V!InterimUnderWay' <=> V!InterimUnderWay
    BY <1>1, <2>2, <2>4 DEF V!InterimUnderWay
  <2>6. V!LastCommandDecides'
    BY <2>2, <2>3, <2>4, <2>5 DEF V!LastCommandDecides, V!InterimComing
  <2>7. V!InterimCurrent'
    BY <2>3, <2>4 DEF V!InterimCurrent
  <2>8. V!UnheardUnanswered'
    BY <2>2, <2>5 DEF V!UnheardUnanswered, V!InterimComing
  <2>. QED
    BY <1>0, <1>2, <2>2, <2>5, <2>6, <2>7, <2>8 DEF V!IInv
<1>5. CASE V!Register
  <2>1. PICK ok \in BOOLEAN : /\ V!Dispatch([kind |-> "register"], ok)
                              /\ reg' = IF ok THEN "asked" ELSE "unheard"
                              /\ dropped' = ~ok
    BY <1>5 DEF V!Register
  <2>2. [kind |-> "register"] \in V!Command /\ up /\ up'
    BY <1>5 DEF V!Register, V!Command
  <2>3. CASE ok
    <3>1. /\ commands \in Seq(V!Command) /\ commands' \in Seq(V!Command)
          /\ commands' # <<>> /\ Len(commands') = Len(commands) + 1
          /\ commands'[Len(commands')] = [kind |-> "register"]
      BY <1>0, <2>1, <2>2, <2>3, HeardOrDropped
    <3>2. /\ Len(commands') \in DOMAIN commands'
          /\ commands'[Len(commands')].kind = "register"
      BY <3>1
    <3>3. reg' = "asked" /\ V!InterimUnderWay'
      BY <2>1, <2>3, <3>2 DEF V!InterimUnderWay
    <3>. QED
      BY <1>0, <1>2, <2>2, <3>1, <3>2, <3>3
      DEF V!IInv, V!InterimUnderWay, V!LastCommandDecides, V!InterimCurrent, V!UnheardUnanswered
  <2>4. CASE ~ok
    <3>1. reg' = "unheard" /\ dropped'
      BY <2>1, <2>4
    <3>. QED
      BY <1>0, <1>2, <2>2, <3>1
      DEF V!IInv, V!Following, V!LastCommandDecides, V!InterimCurrent, V!UnheardUnanswered
  <2>. QED
    BY <2>3, <2>4
<1>6. CASE V!Receive
  <2>1. /\ rsp \in Seq(V!Response) /\ rsp # <<>> /\ rsp' = Tail(rsp) /\ Head(rsp) = rsp[1]
        /\ UNCHANGED <<commands, up>>
    BY <1>0, <1>6, TailIndex DEF V!Receive, V!TypeOK
  <2>2. CASE reg = "none" \/ rsp[1].kind # "interim"
    <3>1. reg' = "none"
      BY <1>6, <2>1, <2>2 DEF V!Receive
    <3>. QED
      BY <1>0, <1>2, <3>1
      DEF V!IInv, V!LastCommandDecides, V!InterimCurrent, V!Following, V!UnheardUnanswered
  <2>3. CASE reg # "none" /\ rsp[1].kind = "interim"
    <3>1. /\ reg' = "live" /\ view' = rsp[1].v /\ 1 \in DOMAIN rsp
          /\ UNCHANGED <<hasty, dropped>>
      BY <1>6, <2>1, <2>3 DEF V!Receive
    <3>2. /\ rsp' \in Seq(V!Response) /\ Len(rsp') = Len(rsp) - 1
          /\ \A i \in DOMAIN rsp' : i + 1 \in DOMAIN rsp /\ rsp'[i] = rsp[i + 1]
      BY <2>1, TailIndex
    <3>3. /\ V!InterimUnderWay
          /\ V!Following' => V!Following
      <4>1. V!InterimUnderWay
        BY <2>1, <2>3, <3>1 DEF V!InterimUnderWay
      <4>2. reg = "unheard" => hasty \/ dropped
        BY <4>1 DEF V!IInv, V!UnheardUnanswered
      <4>3. reg \in {"asked", "live", "unheard"}
        BY <1>0, <2>3 DEF V!TypeOK
      <4>. QED
        BY <3>1, <4>1, <4>2, <4>3 DEF V!Following
    <3>4. V!LastCommandDecides'
      BY <2>1, <3>3 DEF V!IInv, V!LastCommandDecides
    <3>5. V!InterimCurrent'
      <4> SUFFICES ASSUME V!Following, commands = <<>>, notify, press \in {"idle", "store"}
                   PROVE  /\ bt_app = "send" => interim = vol
                          /\ bt_app = "idle" => \A i \in DOMAIN rsp' :
                                                    V!LastInterim(i)' => rsp'[i].v = vol
                          /\ ~V!InterimUnderWay' => view' = vol
        BY <1>1, <2>1, <3>3 DEF V!InterimCurrent
      <4>1. /\ bt_app = "send" => interim = vol
            /\ bt_app = "idle" => \A i \in DOMAIN rsp : V!LastInterim(i) => rsp[i].v = vol
        BY DEF V!IInv, V!InterimCurrent
      <4>2. ASSUME NEW i \in DOMAIN rsp', V!LastInterim(i)'
            PROVE  i + 1 \in DOMAIN rsp /\ V!LastInterim(i + 1) /\ rsp'[i] = rsp[i + 1]
        <5>1. i \in Nat \ {0} /\ i + 1 \in DOMAIN rsp /\ rsp'[i] = rsp[i + 1]
          BY <3>2
        <5>2. ASSUME NEW j \in DOMAIN rsp, j > i + 1
              PROVE  rsp[j].kind # "interim"
          <6>1. j - 1 \in DOMAIN rsp' /\ j - 1 > i /\ rsp'[j - 1] = rsp[j]
            BY <2>1, <3>2, <5>1, <5>2
          <6>. QED
            BY <4>2, <6>1 DEF V!LastInterim
        <5>. QED
          BY <4>2, <5>1, <5>2 DEF V!LastInterim
      <4>3. ASSUME ~V!InterimUnderWay' PROVE bt_app = "idle" /\ V!LastInterim(1)
        <5>1. bt_app = "idle" /\ \A i \in DOMAIN rsp' : rsp'[i].kind # "interim"
          BY <1>1, <4>3 DEF V!InterimUnderWay
        <5>2. ASSUME NEW j \in DOMAIN rsp, j > 1
              PROVE  rsp[j].kind # "interim"
          <6>1. j - 1 \in DOMAIN rsp' /\ rsp'[j - 1] = rsp[j]
            BY <2>1, <3>2, <5>2
          <6>. QED
            BY <5>1, <6>1
        <5>. QED
          BY <2>3, <5>1, <5>2 DEF V!LastInterim
      <4>. QED
        BY <3>1, <4>1, <4>2, <4>3
    <3>. QED
      BY <1>0, <1>2, <2>1, <3>1, <3>4, <3>5, <2>3 DEF V!IInv, V!UnheardUnanswered
  <2>. QED
    BY <2>2, <2>3
<1>. QED
  BY <1>3, <1>4, <1>5, <1>6 DEF V!Controller

LEMMA VolumeStep == V!IInv /\ [MCNext]_<<part, vars, volumeVars, controllerVars>> => V!IInv'
<1> SUFFICES ASSUME V!IInv, [MCNext]_<<part, vars, volumeVars, controllerVars>> PROVE V!IInv'
  OBVIOUS
<1>1. CASE V!Next
  BY <1>1, PressKeeps, SetKeeps, RegisterEventKeeps, ShutDownKeeps, ControllerKeeps
  DEF V!Next, V!BtAppStep
<1>2. CASE UNCHANGED volumeVars
  BY <1>2 DEF volumeVars, V!IInv, V!TypeOK, V!StoreInStep, V!LastCommandDecides, V!Following,
              V!InterimUnderWay, V!InterimCurrent, V!LastInterim, V!UnheardUnanswered
<1>. QED
  BY <1>1, <1>2 DEF MCNext

(* A press moves the volume by at most one step, for every range and every  *)
(* step: only the controller's command comes between its read and its store *)
(* (daftpunk_speaker.c 127-150, bt_app_av.c 178-193).                       *)
THEOREM StepsStayWithinReach == MCSpec => OneStepPerPress
<1>1. V!IInv /\ [MCNext]_<<part, vars, volumeVars, controllerVars>> =>
          [press = "store" /\ press' = "test" =>
              \/ vol' - vol \in -Step .. Step
              \/ crossed]_(V!vars)
  <2> SUFFICES ASSUME V!IInv, [MCNext]_<<part, vars, volumeVars, controllerVars>>,
                      press = "store", press' = "test", ~crossed
               PROVE  vol' - vol \in -Step .. Step
    OBVIOUS
  <2>1. V!Next
    BY DEF MCNext, volumeVars
  <2>2. V!PressStore
    BY <2>1 DEF V!Next, V!PressStep, V!PressRead, V!PressTest, V!PressReadAgain, V!PressSend,
                V!PressClear, V!BtAppStep, V!SetByController, V!RegisterEvent, V!Controller,
                V!Connect, V!Disconnect, V!SendSet, V!Register, V!Receive, V!local,
                V!ShutDown
  <2>. QED
    BY <2>2 DEF V!PressStore, V!IInv, V!StoreInStep
<1>. QED
  BY <1>1, VolumeInitially, VolumeStep, PTL DEF MCSpec, MCInit, OneStepPerPress, V!OneStepPerPress

-----------------------------------------------------------------------------
(* The AVRCP controller: how many texts a queue holds.                      *)

MetadataIn(q) == {i \in DOMAIN q : q[i].kind = "metadata"}

LEMMA CountsAgree == ASSUME NEW X PROVE A!Cardinality(X) = Cardinality(X)
BY DEF A!Cardinality, Cardinality

LEMMA MetadataFinite ==
    ASSUME NEW X, NEW q \in Seq(X)
    PROVE  IsFiniteSet(MetadataIn(q)) /\ Cardinality(MetadataIn(q)) \in Nat
<1>1. MetadataIn(q) \subseteq 1 .. Len(q) /\ Len(q) \in Nat
  BY DEF MetadataIn
<1>2. IsFiniteSet(1 .. Len(q))
  BY <1>1, FS_Interval
<1>3. IsFiniteSet(MetadataIn(q))
  BY <1>1, <1>2, FS_Subset
<1>. QED
  BY <1>3, FS_CardinalityType

LEMMA MetadataAppended ==
    ASSUME NEW X, NEW q \in Seq(X), NEW e \in X
    PROVE  Cardinality(MetadataIn(Append(q, e))) =
               IF e.kind = "metadata" THEN Cardinality(MetadataIn(q)) + 1
                                      ELSE Cardinality(MetadataIn(q))
<1>1. /\ DOMAIN Append(q, e) = DOMAIN q \cup {Len(q) + 1}
      /\ \A i \in DOMAIN q : Append(q, e)[i] = q[i]
      /\ Append(q, e)[Len(q) + 1] = e
      /\ Len(q) + 1 \notin DOMAIN q
  OBVIOUS
<1>2. CASE e.kind = "metadata"
  <2>1. MetadataIn(Append(q, e)) = MetadataIn(q) \cup {Len(q) + 1}
    BY <1>1, <1>2 DEF MetadataIn
  <2>2. Len(q) + 1 \notin MetadataIn(q)
    BY <1>1 DEF MetadataIn
  <2>. QED
    BY <1>2, <2>1, <2>2, MetadataFinite, FS_AddElement
<1>3. CASE e.kind # "metadata"
  <2>1. MetadataIn(Append(q, e)) = MetadataIn(q)
    BY <1>1, <1>3 DEF MetadataIn
  <2>. QED
    BY <1>3, <2>1
<1>. QED
  BY <1>2, <1>3

LEMMA MetadataTaken ==
    ASSUME NEW X, NEW q \in Seq(X), q # <<>>
    PROVE  Cardinality(MetadataIn(Tail(q))) =
               IF Head(q).kind = "metadata" THEN Cardinality(MetadataIn(q)) - 1
                                            ELSE Cardinality(MetadataIn(q))
<1> DEFINE T == MetadataIn(Tail(q))
           R == MetadataIn(q) \ {1}
           earlier == [i \in R |-> i - 1]
<1>1. /\ Head(q) = q[1] /\ 1 \in DOMAIN q /\ Len(q) \in Nat
      /\ DOMAIN Tail(q) = 1 .. Len(q) - 1 /\ DOMAIN q = 1 .. Len(q)
      /\ \A i \in DOMAIN Tail(q) : Tail(q)[i] = q[i + 1]
  OBVIOUS
<1>2. ExistsBijection(R, T)
  <2>1. \A i \in R : i - 1 \in T
    BY <1>1 DEF MetadataIn
  <2>2. \A i \in T : i + 1 \in R /\ (i + 1) - 1 = i
    BY <1>1 DEF MetadataIn
  <2>3. \A i, j \in R : i - 1 = j - 1 => i = j
    BY <1>1 DEF MetadataIn
  <2>. HIDE DEF R, T
  <2>4. earlier \in Bijection(R, T)
    BY <2>1, <2>2, <2>3, Fun_IsBij
  <2>. QED
    BY <2>4 DEF ExistsBijection
<1>3. IsFiniteSet(R) /\ Cardinality(T) = Cardinality(R)
  <2>1. IsFiniteSet(R)
    BY MetadataFinite, FS_RemoveElement
  <2>. QED
    BY <1>2, <2>1, FS_Bijection
<1>4. 1 \in MetadataIn(q) <=> Head(q).kind = "metadata"
  BY <1>1 DEF MetadataIn
<1>5. Cardinality(R) = IF 1 \in MetadataIn(q) THEN Cardinality(MetadataIn(q)) - 1
                                              ELSE Cardinality(MetadataIn(q))
  BY MetadataFinite, FS_RemoveElement
<1>. QED
  BY <1>3, <1>4, <1>5

LEMMA MetadataCount ==
    /\ A!MetadataQueued = Cardinality(MetadataIn(rc_queue))
    /\ A!MetadataQueued' = Cardinality(MetadataIn(rc_queue'))
<1>1. A!MetadataQueued = Cardinality(MetadataIn(rc_queue))
  BY CountsAgree DEF A!MetadataQueued, MetadataIn
<1>2. A!MetadataQueued' = Cardinality(MetadataIn(rc_queue'))
  BY CountsAgree DEF A!MetadataQueued, MetadataIn
<1>. QED
  BY <1>1, <1>2

-----------------------------------------------------------------------------
(* The AVRCP controller: types.                                             *)

LEMMA ControllerConstants ==
    Supported \subseteq A!Notifications /\ QLen \in Nat \ {0} /\ MaxTexts \in Nat
BY BtAssumption DEF A!ControllerAssumption

(* An event is appended, or the drop is remembered. *)
LEMMA EventDispatched ==
    ASSUME A!TypeOK, NEW e \in A!Event, A!Dispatch(e)
    PROVE  /\ rc_queue' \in Seq(A!Event) /\ Len(rc_queue') <= QLen
           /\ missed' \in BOOLEAN
           /\ \/ /\ Len(rc_queue) # QLen
                 /\ rc_queue' = Append(rc_queue, e) /\ missed' = missed
                 /\ DOMAIN rc_queue' = DOMAIN rc_queue \cup {Len(rc_queue) + 1}
                 /\ \A i \in DOMAIN rc_queue : rc_queue'[i] = rc_queue[i]
                 /\ rc_queue'[Len(rc_queue) + 1] = e
                 /\ \A i \in DOMAIN rc_queue : Len(rc_queue) + 1 > i
              \/ missed' /\ rc_queue' = rc_queue /\ Len(rc_queue) = QLen
<1>1. rc_queue \in Seq(A!Event) /\ Len(rc_queue) <= QLen /\ Len(rc_queue) \in Nat
  BY DEF A!TypeOK
<1>2. CASE Len(rc_queue) < QLen
  <2>1. rc_queue' = Append(rc_queue, e) /\ missed' = missed
    BY <1>2 DEF A!Dispatch
  <2>2. /\ Append(rc_queue, e) \in Seq(A!Event) /\ Len(Append(rc_queue, e)) = Len(rc_queue) + 1
        /\ DOMAIN Append(rc_queue, e) = DOMAIN rc_queue \cup {Len(rc_queue) + 1}
        /\ \A i \in DOMAIN rc_queue : Append(rc_queue, e)[i] = rc_queue[i]
        /\ Append(rc_queue, e)[Len(rc_queue) + 1] = e
        /\ \A i \in DOMAIN rc_queue : Len(rc_queue) + 1 > i
    BY <1>1
  <2>3. Len(rc_queue) + 1 <= QLen /\ Len(rc_queue) # QLen
    BY <1>1, <1>2, ControllerConstants
  <2>. QED
    BY <2>1, <2>2, <2>3 DEF A!TypeOK
<1>3. CASE ~(Len(rc_queue) < QLen)
  <2>1. missed' = TRUE /\ rc_queue' = rc_queue
    BY <1>3 DEF A!Dispatch
  <2>2. Len(rc_queue) = QLen
    BY <1>1, <1>3, ControllerConstants
  <2>. QED
    BY <1>1, <2>1, <2>2
<1>. QED
  BY <1>2, <1>3

(* What Contains says of the ends of a sequence. *)
LEMMA ContainsTail ==
    ASSUME NEW X, NEW s \in Seq(X), s # <<>>, NEW e
    PROVE  A!Contains(s, e) <=> (Head(s) = e \/ A!Contains(Tail(s), e))
<1>1. /\ Head(s) = s[1] /\ 1 \in 1 .. Len(s) /\ Len(s) \in Nat \ {0}
      /\ Len(Tail(s)) = Len(s) - 1
      /\ \A i \in 1 .. Len(s) - 1 : Tail(s)[i] = s[i + 1]
  OBVIOUS
<1>2. ASSUME NEW i \in 1 .. Len(s), s[i] = e, i # 1
      PROVE  i - 1 \in 1 .. Len(Tail(s)) /\ Tail(s)[i - 1] = e
  BY <1>1, <1>2
<1>3. ASSUME NEW i \in 1 .. Len(Tail(s)), Tail(s)[i] = e
      PROVE  i + 1 \in 1 .. Len(s) /\ s[i + 1] = e
  BY <1>1, <1>3
<1>. QED
  BY <1>1, <1>2, <1>3 DEF A!Contains

LEMMA ContainsAppend ==
    ASSUME NEW X, NEW s \in Seq(X), NEW x \in X, NEW e
    PROVE  A!Contains(Append(s, x), e) <=> (x = e \/ A!Contains(s, e))
<1>1. /\ Len(Append(s, x)) = Len(s) + 1 /\ Len(s) \in Nat
      /\ 1 .. Len(s) + 1 = (1 .. Len(s)) \cup {Len(s) + 1}
      /\ \A i \in 1 .. Len(s) : Append(s, x)[i] = s[i]
      /\ Append(s, x)[Len(s) + 1] = x
  OBVIOUS
<1>. QED
  BY <1>1 DEF A!Contains

LEMMA ContainsConcat ==
    ASSUME NEW X, NEW s \in Seq(X), NEW t \in Seq(X), NEW e
    PROVE  /\ s \o t \in Seq(X)
           /\ A!Contains(s, e) \/ A!Contains(t, e) => A!Contains(s \o t, e)
<1>1. /\ s \o t \in Seq(X) /\ Len(s \o t) = Len(s) + Len(t)
      /\ \A i \in 1 .. Len(s) + Len(t) :
             (s \o t)[i] = IF i <= Len(s) THEN s[i] ELSE t[i - Len(s)]
  BY ConcatProperties
<1> DEFINE u == s \o t
<1>2. /\ u \in Seq(X) /\ Len(u) = Len(s) + Len(t)
      /\ \A i \in 1 .. Len(s) + Len(t) : u[i] = IF i <= Len(s) THEN s[i] ELSE t[i - Len(s)]
  BY <1>1
<1> HIDE DEF u
<1>3. Len(s) \in Nat /\ Len(t) \in Nat
  OBVIOUS
<1>4. ASSUME NEW i \in 1 .. Len(s) PROVE i \in 1 .. Len(u) /\ u[i] = s[i]
  BY <1>2, <1>3
<1>5. ASSUME NEW i \in 1 .. Len(t)
      PROVE  i + Len(s) \in 1 .. Len(u) /\ u[i + Len(s)] = t[i]
  <2>1. i + Len(s) \in 1 .. Len(s) + Len(t) /\ ~(i + Len(s) <= Len(s))
        /\ (i + Len(s)) - Len(s) = i
    BY <1>3
  <2>. QED
    BY <1>2, <2>1
<1>6. A!Contains(s, e) \/ A!Contains(t, e) => A!Contains(u, e)
  BY <1>4, <1>5 DEF A!Contains
<1>. QED
  BY <1>2, <1>6 DEF u

(* The follow-up of a notification registers it again if it is known. *)
LEMMA FollowUpRegisters ==
    ASSUME NEW n, NEW known \in SUBSET Supported
    PROVE  /\ A!FollowUp(n, known) \in Seq(A!Command)
           /\ n \in known =>
                  A!Contains(A!FollowUp(n, known), [kind |-> "register", n |-> n])
<1> DEFINE m == IF n = "TRACK" THEN <<[kind |-> "metadata"]>> ELSE <<>>
           r == IF n \in known THEN <<[kind |-> "register", n |-> n]>> ELSE <<>>
<1>1. m \in Seq(A!Command) /\ r \in Seq(A!Command)
  <2>1. /\ [kind |-> "metadata"] \in A!Command
        /\ n \in known => [kind |-> "register", n |-> n] \in A!Command
    BY DEF A!Command
  <2>. QED
    BY <2>1
<1>2. n \in known => A!Contains(r, [kind |-> "register", n |-> n])
  BY DEF A!Contains
<1>3. A!FollowUp(n, known) = m \o r
  BY Zenon DEF A!FollowUp
<1> HIDE DEF m, r
<1>4. /\ m \o r \in Seq(A!Command)
      /\ n \in known => A!Contains(m \o r, [kind |-> "register", n |-> n])
  BY <1>1, <1>2, ContainsConcat
<1>. QED
  BY <1>3, <1>4

(* Whether the handler at work has a text in its hand. *)
InHand(t) == IF t = <<A!FreeText>> THEN 1 ELSE 0

LEMMA CommandsAreNoText ==
    /\ \A t \in Seq(A!Command) : InHand(t) = 0
    /\ InHand(<<A!FreeText>>) = 1 /\ <<A!FreeText>> # <<>> /\ InHand(<<>>) = 0
    /\ \A t : InHand(t) \in {0, 1}
<1>1. A!FreeText \notin A!Command
  BY DEF A!FreeText, A!Command
<1>2. ASSUME NEW t \in Seq(A!Command), t = <<A!FreeText>> PROVE FALSE
  <2>1. t[1] = A!FreeText /\ Len(t) = 1
    BY <1>2
  <2>2. t[1] \in A!Command
    BY <2>1
  <2>. QED
    BY <1>1, <2>1, <2>2
<1>. QED
  BY <1>2 DEF InHand

LEMMA HeldIs ==
    /\ A!Held = A!MetadataQueued + InHand(todo)
    /\ A!Held' = A!MetadataQueued' + InHand(todo')
BY DEF A!Held, InHand

LEMMA ControllerInitially == A!Init => A!IInv
<1> SUFFICES ASSUME A!Init PROVE A!IInv
  OBVIOUS
<1>1. cmds \in Seq(A!Command) /\ todo \in Seq(A!Command) /\ rc_queue \in Seq(A!Event)
      /\ Len(rc_queue) <= QLen
  BY ControllerConstants DEF A!Init
<1>2. A!MetadataQueued = 0
  <2>1. MetadataIn(rc_queue) = {}
    BY DEF A!Init, MetadataIn
  <2>. QED
    BY <2>1, MetadataCount, FS_EmptySet
<1>3. A!TypeOK
  <2>1. rc_up \in BOOLEAN /\ missed \in BOOLEAN
    BY DEF A!Init
  <2>2. texts \in 0 .. MaxTexts
    BY ControllerConstants DEF A!Init
  <2>3. rc_registered \subseteq Supported /\ caps \in {{}, Supported}
    BY DEF A!Init
  <2>. QED
    BY <1>1, <2>1, <2>2, <2>3 DEF A!TypeOK
<1>4. rc_up = FALSE /\ texts = 0
  BY DEF A!Init
<1>5. A!OldEndFirst /\ A!CapsKnownOrAsked /\ A!NotificationsKept
  BY <1>4 DEF A!OldEndFirst, A!CapsKnownOrAsked, A!NotificationsKept
<1>6. A!Held <= texts
  <2>1. InHand(todo) = 0
    BY CommandsAreNoText DEF A!Init
  <2>. QED
    BY <1>2, <1>4, <2>1, HeldIs
<1>. QED
  BY <1>3, <1>5, <1>6 DEF A!IInv

LEMMA StackType ==
    ASSUME A!TypeOK, A!Stack
    PROVE  A!TypeOK'
<1>. USE DEF A!TypeOK, A!task, A!link
<1>1. CASE A!Connect
  <2>1. cmds' \in Seq(A!Command) /\ rc_up' = TRUE
        /\ UNCHANGED <<rc_registered, todo, caps, texts>>
    BY <1>1 DEF A!Connect
  <2>2. /\ rc_queue' \in Seq(A!Event) /\ Len(rc_queue') <= QLen
    <3>1. [kind |-> "up"] \in A!Event
      BY DEF A!Event
    <3>2. CASE Len(rc_queue) < QLen
      <4>1. rc_queue' = Append(rc_queue, [kind |-> "up"])
        BY <1>1, <3>2 DEF A!Connect
      <4>2. rc_queue \in Seq(A!Event) /\ Len(rc_queue) \in Nat
        OBVIOUS
      <4>. QED
        BY <3>1, <3>2, <4>1, <4>2, ControllerConstants, AppendIndex
    <3>3. CASE ~(Len(rc_queue) < QLen)
      <4>1. A!Dispatch([kind |-> "up"])
        BY <1>1, <3>3 DEF A!Connect
      <4>. QED
        BY <3>1, <4>1, EventDispatched
    <3>. QED
      BY <3>2, <3>3
  <2>3. missed' \in BOOLEAN
    <3>1. CASE Len(rc_queue) < QLen
      BY <1>1, <3>1, Zenon DEF A!Connect
    <3>2. CASE ~(Len(rc_queue) < QLen)
      BY <1>1, <3>2 DEF A!Connect, A!Dispatch
    <3>. QED
      BY <3>1, <3>2
  <2>. QED
    BY <2>1, <2>2, <2>3
<1>2. CASE A!Disconnect
  <2>1. cmds' \in Seq(A!Command) /\ rc_up' = FALSE /\ rc_registered' = {}
        /\ UNCHANGED <<todo, caps, texts>> /\ A!Dispatch([kind |-> "down"])
    BY <1>2 DEF A!Disconnect
  <2>2. [kind |-> "down"] \in A!Event
    BY DEF A!Event
  <2>. QED
    BY <2>1, <2>2, EventDispatched
<1>3. CASE A!Answer
  <2>1. cmds' \in Seq(A!Command) /\ UNCHANGED <<rc_up, todo, caps>>
        /\ Head(cmds) \in A!Command
    BY <1>3, TailIndex DEF A!Answer
  <2>2. [kind |-> "caps"] \in A!Event /\ [kind |-> "metadata"] \in A!Event
    BY DEF A!Event
  <2>3. /\ rc_queue' \in Seq(A!Event) /\ Len(rc_queue') <= QLen /\ missed' \in BOOLEAN
    <3>1. A!Dispatch([kind |-> "caps"]) \/ A!Dispatch([kind |-> "metadata"])
          \/ UNCHANGED <<rc_queue, missed>>
      BY <1>3 DEF A!Answer
    <3>. QED
      BY <2>2, <3>1, EventDispatched
  <2>4. texts' \in 0 .. MaxTexts
    BY <1>3, ControllerConstants DEF A!Answer
  <2>5. rc_registered' \subseteq Supported
    BY <1>3, <2>1 DEF A!Answer, A!Command
  <2>. QED
    BY <2>1, <2>3, <2>4, <2>5
<1>4. ASSUME NEW n \in Supported, A!Change(n) PROVE A!TypeOK'
  <2>1. rc_registered' \subseteq Supported /\ UNCHANGED <<rc_up, cmds, todo, caps, texts>>
        /\ A!Dispatch([kind |-> "change", n |-> n])
    BY <1>4 DEF A!Change
  <2>2. [kind |-> "change", n |-> n] \in A!Event
    BY ControllerConstants DEF A!Event
  <2>. QED
    BY <2>1, <2>2, EventDispatched
<1>5. CASE A!OtherEvent
  <2>1. UNCHANGED <<rc_up, cmds, rc_registered, todo, caps, texts>>
        /\ A!Dispatch([kind |-> "other"])
    BY <1>5 DEF A!OtherEvent
  <2>2. [kind |-> "other"] \in A!Event
    BY DEF A!Event
  <2>. QED
    BY <2>1, <2>2, EventDispatched
<1>. QED
  BY <1>1, <1>2, <1>3, <1>4, <1>5 DEF A!Stack

(* A handler has commands to send, or the text of a metadata event to free. *)
LEMMA HandlerTodo ==
    ASSUME A!TypeOK, A!Handle
    PROVE  /\ caps' \in {{}, Supported} /\ texts' = texts /\ todo = <<>>
           /\ \/ Head(rc_queue).kind # "metadata" /\ todo' \in Seq(A!Command)
              \/ Head(rc_queue).kind = "metadata" /\ todo' = <<A!FreeText>>
<1>. USE DEF A!task, A!link
<1>0. texts' = texts /\ todo = <<>>
  BY DEF A!Handle, A!HandleUp, A!HandleDown, A!HandleCaps, A!HandleChange, A!HandleMetadata
<1>1. /\ [kind |-> "caps"] \in A!Command /\ caps \in {{}, Supported}
      /\ caps \in SUBSET Supported /\ <<>> \in Seq(A!Command)
  BY DEF A!Command, A!TypeOK
<1>2. ASSUME A!HandleCaps PROVE todo' \in Seq(A!Command) /\ caps' \in {{}, Supported}
  <2>1. caps' = Supported
    BY <1>2 DEF A!HandleCaps
  <2>2. /\ A!FollowUp("TRACK", Supported) \in Seq(A!Command)
        /\ A!FollowUp("STATUS", Supported) \in Seq(A!Command)
        /\ A!FollowUp("POSITION", Supported) \in Seq(A!Command)
    BY FollowUpRegisters
  <2>3. A!FollowUp("TRACK", Supported) \o A!FollowUp("STATUS", Supported) \in Seq(A!Command)
    BY <2>2, ContainsConcat
  <2>4. (A!FollowUp("TRACK", Supported) \o A!FollowUp("STATUS", Supported))
            \o A!FollowUp("POSITION", Supported) \in Seq(A!Command)
    BY <2>2, <2>3, ContainsConcat
  <2>5. todo' = (A!FollowUp("TRACK", Supported) \o A!FollowUp("STATUS", Supported))
                    \o A!FollowUp("POSITION", Supported)
    BY <1>2, <2>1, Zenon DEF A!HandleCaps
  <2>. QED
    BY <2>1, <2>4, <2>5
<1>3. ASSUME NEW n, A!HandleChange(n) PROVE todo' \in Seq(A!Command) /\ caps' \in {{}, Supported}
  <2>1. A!FollowUp(n, caps) \in Seq(A!Command)
    BY <1>1, FollowUpRegisters
  <2>2. todo' = A!FollowUp(n, caps) /\ caps' = caps
    BY <1>3 DEF A!HandleChange
  <2>. QED
    BY <1>1, <2>1, <2>2
<1>4. ASSUME A!HandleUp PROVE todo' \in Seq(A!Command) /\ caps' \in {{}, Supported}
  BY <1>1, <1>4 DEF A!HandleUp
<1>5. ASSUME A!HandleDown \/ UNCHANGED <<todo, caps>>
      PROVE  todo' \in Seq(A!Command) /\ caps' \in {{}, Supported}
  <2>1. todo' = <<>>
    BY <1>0, <1>5 DEF A!HandleDown
  <2>. QED
    BY <1>1, <1>5, <2>1 DEF A!HandleDown
<1>6. ASSUME A!HandleMetadata PROVE todo' = <<A!FreeText>> /\ caps' \in {{}, Supported}
  BY <1>1, <1>6 DEF A!HandleMetadata
<1>. QED
  BY <1>0, <1>2, <1>3, <1>4, <1>5, <1>6 DEF A!Handle

LEMMA BtAppTaskType ==
    ASSUME A!TypeOK, A!BtAppTask, A!Held <= texts
    PROVE  A!TypeOK'
<1>. USE DEF A!TypeOK, A!task, A!link
<1>1. CASE A!Handle
  <2>1. /\ rc_queue \in Seq(A!Event) /\ rc_queue # <<>> /\ rc_queue' = Tail(rc_queue)
        /\ UNCHANGED <<rc_up, cmds, rc_registered, missed>>
    BY <1>1 DEF A!Handle
  <2>2. /\ rc_queue' \in Seq(A!Event) /\ Len(rc_queue') <= QLen
        /\ Head(rc_queue) = rc_queue[1] /\ 1 \in DOMAIN rc_queue /\ rc_queue[1] \in A!Event
    <3>1. Tail(rc_queue) \in Seq(A!Event) /\ Len(Tail(rc_queue)) = Len(rc_queue) - 1
          /\ Head(rc_queue) = rc_queue[1] /\ 1 \in DOMAIN rc_queue /\ rc_queue[1] \in A!Event
          /\ Len(rc_queue) \in Nat
      BY <2>1, TailIndex
    <3>. QED
      BY <2>1, <3>1, ControllerConstants
  <2>. QED
    BY <1>1, <2>1, <2>2, HandlerTodo
<1>2. CASE A!SendCommand
  <2>0. todo \in Seq(A!Command) /\ todo # <<>>
    BY <1>2 DEF A!SendCommand
  <2>1. Head(todo) \in A!Command /\ todo' \in Seq(A!Command)
    BY <1>2, <2>0, TailIndex DEF A!SendCommand
  <2>2. cmds' \in Seq(A!Command)
    <3>1. cmds' = Append(cmds, Head(todo)) \/ cmds' = cmds
      BY <1>2 DEF A!SendCommand
    <3>2. Append(cmds, Head(todo)) \in Seq(A!Command) /\ cmds \in Seq(A!Command)
      BY <2>1, AppendIndex
    <3>. QED
      BY <3>1, <3>2
  <2>. QED
    BY <1>2, <2>1, <2>2 DEF A!SendCommand
<1>3. CASE A!Free
  <2>1. /\ todo = <<A!FreeText>> /\ todo' = <<>> /\ texts' = texts - 1
        /\ UNCHANGED <<rc_up, cmds, rc_registered, rc_queue, caps, missed>>
    BY <1>3 DEF A!Free
  <2>2. PICK a \in Nat, c \in Nat : a = A!MetadataQueued /\ c = texts
    BY MetadataFinite, MetadataCount, ControllerConstants
  <2>3. a + 1 <= c
    BY <2>1, <2>2, HeldIs, CommandsAreNoText
  <2>4. texts' \in 0 .. MaxTexts
    BY <2>1, <2>2, <2>3, ControllerConstants
  <2>. QED
    BY <2>1, <2>4
<1>. QED
  BY <1>1, <1>2, <1>3 DEF A!BtAppTask

LEMMA EndType ==
    ASSUME A!TypeOK, A!ShutDown
    PROVE  A!TypeOK'
<1>1. /\ rc_up' = FALSE /\ cmds' = <<>> /\ rc_registered' = {}
      /\ rc_queue' = <<>> /\ todo' = <<>> /\ UNCHANGED <<caps, texts, missed>>
  BY DEF A!ShutDown
<1>2. /\ rc_queue' \in Seq(A!Event) /\ Len(rc_queue') <= QLen
      /\ cmds' \in Seq(A!Command) /\ todo' \in Seq(A!Command)
  BY <1>1, ControllerConstants
<1>. QED
  BY <1>1, <1>2 DEF A!TypeOK

-----------------------------------------------------------------------------
(* The AVRCP controller: every text is freed once.                          *)

LEMMA TextsAreInts ==
    ASSUME A!TypeOK
    PROVE  /\ texts \in Nat /\ A!MetadataQueued \in Nat
           /\ A!Held \in Nat /\ A!Leaked \in Int
<1>1. texts \in Nat /\ rc_queue \in Seq(A!Event)
  BY ControllerConstants DEF A!TypeOK
<1>2. A!MetadataQueued \in Nat
  BY <1>1, MetadataFinite, MetadataCount
<1>3. A!Held \in Nat
  BY <1>2, HeldIs, CommandsAreNoText
<1>. QED
  BY <1>1, <1>2, <1>3 DEF A!Leaked

LEMMA TextsWillBeInts ==
    ASSUME A!TypeOK'
    PROVE  /\ texts' \in Nat /\ A!MetadataQueued' \in Nat
           /\ A!Held' \in Nat /\ A!Leaked' \in Int
<1>1. texts' \in Nat /\ rc_queue' \in Seq(A!Event)
  BY ControllerConstants DEF A!TypeOK
<1>2. A!MetadataQueued' \in Nat
  BY <1>1, MetadataFinite, MetadataCount
<1>3. A!Held' \in Nat
  BY <1>2, HeldIs, CommandsAreNoText
<1>. QED
  BY <1>1, <1>2, <1>3 DEF A!Leaked

(* The callback allocates a text for the event it queues; one that finds    *)
(* the queue full leaks its text.                                           *)
LEMMA StackTexts ==
    ASSUME A!TypeOK, A!Stack
    PROVE  /\ todo' = todo
           /\ \/ texts' = texts /\ A!MetadataQueued' = A!MetadataQueued
              \/ texts' = texts + 1 /\ A!MetadataQueued' = A!MetadataQueued + 1
              \/ /\ texts' = texts + 1 /\ A!MetadataQueued' = A!MetadataQueued
                 /\ Len(rc_queue) = QLen /\ missed'
<1>. USE DEF A!task, A!link
<1>0. /\ rc_queue \in Seq(A!Event)
      /\ A!MetadataQueued = Cardinality(MetadataIn(rc_queue))
      /\ A!MetadataQueued' = Cardinality(MetadataIn(rc_queue'))
  BY MetadataCount DEF A!TypeOK
<1>1. ASSUME NEW e \in A!Event, A!Dispatch(e), e.kind # "metadata"
      PROVE  A!MetadataQueued' = A!MetadataQueued
  <2>1. rc_queue' = Append(rc_queue, e) \/ rc_queue' = rc_queue
    BY <1>1 DEF A!Dispatch
  <2>. QED
    BY <1>0, <1>1, <2>1, MetadataAppended
<1>2. /\ [kind |-> "up"] \in A!Event /\ [kind |-> "down"] \in A!Event
      /\ [kind |-> "caps"] \in A!Event /\ [kind |-> "other"] \in A!Event
      /\ [kind |-> "metadata"] \in A!Event
      /\ \A n \in Supported : [kind |-> "change", n |-> n] \in A!Event
  BY ControllerConstants DEF A!Event
<1>3. CASE A!Connect
  <2>1. /\ UNCHANGED <<texts, todo>>
        /\ rc_queue' = Append(rc_queue, [kind |-> "up"]) \/ rc_queue' = rc_queue
    BY <1>3 DEF A!Connect, A!Dispatch
  <2>2. A!MetadataQueued' = A!MetadataQueued
    BY <1>0, <1>2, <2>1, MetadataAppended
  <2>. QED
    BY <2>1, <2>2
<1>4. CASE A!Disconnect
  BY <1>1, <1>2, <1>4 DEF A!Disconnect
<1>5. CASE A!OtherEvent
  BY <1>1, <1>2, <1>5 DEF A!OtherEvent
<1>6. ASSUME NEW n \in Supported, A!Change(n)
      PROVE  UNCHANGED <<texts, todo>> /\ A!MetadataQueued' = A!MetadataQueued
  BY <1>1, <1>2, <1>6 DEF A!Change
<1>7. CASE A!Answer
  <2>0. todo' = todo
    BY <1>7 DEF A!Answer
  <2>1. CASE texts' = texts /\ A!Dispatch([kind |-> "caps"])
    BY <1>1, <1>2, <2>0, <2>1
  <2>2. CASE texts' = texts + 1 /\ A!Dispatch([kind |-> "metadata"])
    <3>1. CASE Len(rc_queue) < QLen
      <4>1. A!MetadataQueued' = A!MetadataQueued + 1
        BY <1>0, <1>2, <2>2, <3>1, MetadataAppended DEF A!Dispatch
      <4>. QED
        BY <2>0, <2>2, <4>1
    <3>2. CASE ~(Len(rc_queue) < QLen)
      <4>1. rc_queue' = rc_queue /\ Len(rc_queue) = QLen /\ missed'
        BY <1>0, <2>2, <3>2, ControllerConstants DEF A!Dispatch, A!TypeOK
      <4>. QED
        BY <1>0, <2>0, <2>2, <4>1
    <3>. QED
      BY <3>1, <3>2
  <2>3. CASE UNCHANGED <<texts, rc_queue>>
    BY <1>0, <2>0, <2>3
  <2>. QED
    BY <1>7, <2>1, <2>2, <2>3 DEF A!Answer
<1>. QED
  BY <1>3, <1>4, <1>5, <1>6, <1>7 DEF A!Stack

(* BtAppTask takes the text of a metadata event into its hand and frees it. *)
LEMMA TaskTexts ==
    ASSUME A!TypeOK, A!BtAppTask
    PROVE  \/ texts' = texts /\ A!Held' = A!Held
           \/ texts' = texts - 1 /\ A!Held' = A!Held - 1
<1>0. /\ rc_queue \in Seq(A!Event) /\ A!MetadataQueued \in Nat
      /\ A!MetadataQueued = Cardinality(MetadataIn(rc_queue))
      /\ A!MetadataQueued' = Cardinality(MetadataIn(rc_queue'))
  BY MetadataCount, TextsAreInts DEF A!TypeOK
<1>1. /\ A!Held = A!MetadataQueued + InHand(todo)
      /\ A!Held' = A!MetadataQueued' + InHand(todo')
  BY HeldIs
<1>2. CASE A!Handle
  <2>1. rc_queue # <<>> /\ rc_queue' = Tail(rc_queue)
    BY <1>2 DEF A!Handle
  <2>2. texts' = texts /\ InHand(todo) = 0
    BY <1>2, HandlerTodo, CommandsAreNoText
  <2>3. A!MetadataQueued' = IF Head(rc_queue).kind = "metadata"
                              THEN A!MetadataQueued - 1 ELSE A!MetadataQueued
    BY <1>0, <2>1, MetadataTaken
  <2>4. CASE Head(rc_queue).kind = "metadata"
    <3>1. InHand(todo') = 1
      BY <1>2, <2>4, HandlerTodo, CommandsAreNoText
    <3>. QED
      BY <1>0, <1>1, <2>2, <2>3, <2>4, <3>1
  <2>5. CASE Head(rc_queue).kind # "metadata"
    <3>1. InHand(todo') = 0
      BY <1>2, <2>5, HandlerTodo, CommandsAreNoText
    <3>. QED
      BY <1>0, <1>1, <2>2, <2>3, <2>5, <3>1
  <2>. QED
    BY <2>4, <2>5
<1>3. CASE A!SendCommand
  <2>1. /\ todo \in Seq(A!Command) /\ todo # <<>> /\ todo' = Tail(todo)
        /\ UNCHANGED <<texts, rc_queue>>
    BY <1>3 DEF A!SendCommand, A!TypeOK
  <2>2. InHand(todo) = 0 /\ InHand(todo') = 0
    BY <2>1, TailIndex, CommandsAreNoText
  <2>. QED
    BY <1>0, <1>1, <2>1, <2>2
<1>4. CASE A!Free
  <2>1. /\ todo = <<A!FreeText>> /\ todo' = <<>> /\ texts' = texts - 1
        /\ rc_queue' = rc_queue
    BY <1>4 DEF A!Free
  <2>2. InHand(todo) = 1 /\ InHand(todo') = 0
    BY <2>1, CommandsAreNoText
  <2>. QED
    BY <1>0, <1>1, <2>1, <2>2
<1>. QED
  BY <1>2, <1>3, <1>4 DEF A!BtAppTask

(* The end of the session forgets what queue and handler hold. *)
LEMMA EndTexts ==
    ASSUME A!ShutDown
    PROVE  texts' = texts /\ A!Held' = 0
<1>1. rc_queue' = <<>> /\ todo' = <<>> /\ texts' = texts
  BY DEF A!ShutDown
<1>2. MetadataIn(rc_queue') = {}
  BY <1>1 DEF MetadataIn
<1>3. A!MetadataQueued' = 0 /\ InHand(todo') = 0
  BY <1>1, <1>2, MetadataCount, FS_EmptySet, CommandsAreNoText
<1>. QED
  BY <1>1, <1>3, HeldIs

(* What is allocated and not on its way to be freed only grows, by the text *)
(* of an event the full queue drops or by what the end of the session finds.*)
LEMMA TextsStep ==
    ASSUME A!TypeOK, A!TypeOK', A!Next
    PROVE  /\ A!Leaked' >= A!Leaked
           /\ \/ A!Leaked' = A!Leaked
              \/ Len(rc_queue) = QLen /\ A!Leaked' = A!Leaked + 1 /\ missed'
              \/ A!ShutDown /\ A!Leaked' = A!Leaked + A!Held
<1>1. PICK c \in Nat, m \in Nat, h \in Nat, d \in Nat, n \in Nat, g \in Nat :
          /\ c = texts /\ m = A!MetadataQueued /\ h = A!Held
          /\ d = texts' /\ n = A!MetadataQueued' /\ g = A!Held'
  BY TextsAreInts, TextsWillBeInts
<1>2. A!Leaked = c - h /\ A!Leaked' = d - g
  BY <1>1 DEF A!Leaked
<1>3. CASE A!Stack
  <2>1. PICK i \in {0, 1} : h = m + i /\ g = n + i
    BY <1>1, <1>3, HeldIs, StackTexts, CommandsAreNoText
  <2>2. \/ d = c /\ n = m
        \/ d = c + 1 /\ n = m + 1
        \/ d = c + 1 /\ n = m /\ Len(rc_queue) = QLen /\ missed'
    BY <1>1, <1>3, StackTexts
  <2>. QED
    BY <1>2, <2>1, <2>2
<1>4. CASE A!BtAppTask
  <2>1. \/ d = c /\ g = h
        \/ d = c - 1 /\ g = h - 1
    BY <1>1, <1>4, TaskTexts
  <2>. QED
    BY <1>2, <2>1
<1>5. CASE A!ShutDown
  <2>1. d = c /\ g = 0
    BY <1>1, <1>5, EndTexts
  <2>. QED
    BY <1>1, <1>2, <1>5, <2>1
<1>. QED
  BY <1>3, <1>4, <1>5 DEF A!Next

-----------------------------------------------------------------------------
(* The AVRCP controller: the registrations.                                 *)

(* What the disjuncts of the invariant say, so that they can be primed.     *)
LEMMA StackKeeps ==
    ASSUME A!IInv, A!Stack
    PROVE  A!OldEndFirst' /\ A!CapsKnownOrAsked' /\ A!NotificationsKept'
<1>. USE DEF A!task, A!link
<1>0. A!TypeOK /\ rc_queue \in Seq(A!Event) /\ cmds \in Seq(A!Command)
  BY DEF A!IInv, A!TypeOK
<1>1. /\ [kind |-> "up"] \in A!Event /\ [kind |-> "down"] \in A!Event
      /\ [kind |-> "caps"] \in A!Event /\ [kind |-> "other"] \in A!Event
      /\ [kind |-> "metadata"] \in A!Event
      /\ \A n \in Supported : [kind |-> "change", n |-> n] \in A!Event
  BY ControllerConstants DEF A!Event
<1>2. SUFFICES ASSUME rc_up', ~missed'
               PROVE  A!OldEndFirst' /\ A!CapsKnownOrAsked' /\ A!NotificationsKept'
  BY DEF A!OldEndFirst, A!CapsKnownOrAsked, A!NotificationsKept
<1>3. CASE A!Connect
  <2>1. Len(rc_queue) < QLen /\ rc_queue' = Append(rc_queue, [kind |-> "up"])
    BY <1>2, <1>3 DEF A!Connect, A!Dispatch
  <2>2. /\ DOMAIN rc_queue' = DOMAIN rc_queue \cup {Len(rc_queue) + 1}
        /\ rc_queue'[Len(rc_queue) + 1] = [kind |-> "up"]
        /\ \A i \in DOMAIN rc_queue : Len(rc_queue) + 1 > i
    BY <1>0, <1>1, <2>1
  <2>3. A!AskingCaps'
    BY <2>2 DEF A!AskingCaps, A!Queued
  <2>4. A!OldEndFirst'
    BY <2>2 DEF A!OldEndFirst
  <2>. QED
    BY <2>3, <2>4 DEF A!CapsKnownOrAsked, A!NotificationsKept
<1>4. CASE A!Disconnect
  BY <1>2, <1>4 DEF A!Disconnect
<1>5. ASSUME rc_up, ~missed, NEW e \in A!Event, A!Dispatch(e)
      PROVE  /\ \A i \in DOMAIN rc_queue : i \in DOMAIN rc_queue' /\ rc_queue'[i] = rc_queue[i]
             /\ \E i \in DOMAIN rc_queue' : rc_queue'[i] = e
             /\ \A i \in DOMAIN rc_queue' : i \in DOMAIN rc_queue \/ rc_queue'[i] = e
  BY <1>0, <1>2, <1>5, EventDispatched
<1>6. ASSUME rc_up, ~missed, NEW e \in A!Event, A!Dispatch(e), e.kind # "down"
      PROVE  A!OldEndFirst'
  BY <1>5, <1>6 DEF A!IInv, A!OldEndFirst
<1>7. CASE A!Answer
  <2>1. /\ rc_up /\ cmds # <<>> /\ cmds' = Tail(cmds) /\ UNCHANGED <<todo, caps>>
        /\ \/ Head(cmds).kind = "caps" /\ A!Dispatch([kind |-> "caps"])
              /\ rc_registered' = rc_registered
           \/ Head(cmds).kind = "metadata" /\ A!Dispatch([kind |-> "metadata"])
              /\ rc_registered' = rc_registered
           \/ /\ Head(cmds).kind = "register"
              /\ rc_registered' = rc_registered \cup {Head(cmds).n}
              /\ UNCHANGED <<rc_queue, missed>>
    BY <1>7 DEF A!Answer
  <2>2. ~missed
    BY <1>2, <2>1 DEF A!Dispatch
  <2>3. A!OldEndFirst'
    <3>1. CASE A!Dispatch([kind |-> "caps"]) \/ A!Dispatch([kind |-> "metadata"])
      BY <1>1, <1>6, <2>1, <2>2, <3>1
    <3>2. CASE rc_queue' = rc_queue
      BY <2>1, <2>2, <3>2 DEF A!IInv, A!OldEndFirst
    <3>. QED
      BY <2>1, <3>1, <3>2
  <2>4. \A i \in DOMAIN rc_queue : i \in DOMAIN rc_queue' /\ rc_queue'[i] = rc_queue[i]
    BY <1>1, <1>5, <2>1, <2>2
  <2>5. \A x : A!Contains(cmds, x) => Head(cmds) = x \/ A!Contains(cmds', x)
    BY <1>0, <2>1, ContainsTail
  <2>6. Head(cmds).kind = "caps" => \E i \in DOMAIN rc_queue' : rc_queue'[i] = [kind |-> "caps"]
    BY <1>1, <1>5, <2>1, <2>2
  <2>7. A!AskingCaps => A!AskingCaps'
    BY <2>1, <2>4, <2>5, <2>6 DEF A!AskingCaps, A!Queued
  <2>8. ASSUME NEW n \in Supported, n \in rc_registered \/ A!Coming(n)
        PROVE  n \in rc_registered' \/ A!Coming(n)'
    BY <2>1, <2>4, <2>5, <2>8 DEF A!Coming
  <2>. QED
    BY <1>2, <2>1, <2>2, <2>3, <2>7, <2>8
    DEF A!IInv, A!CapsKnownOrAsked, A!NotificationsKept
<1>8. ASSUME NEW m \in Supported, A!Change(m)
      PROVE  A!OldEndFirst' /\ A!CapsKnownOrAsked' /\ A!NotificationsKept'
  <2>1. /\ rc_up /\ rc_registered' = rc_registered \ {m}
        /\ A!Dispatch([kind |-> "change", n |-> m]) /\ UNCHANGED <<cmds, todo, caps>>
    BY <1>2, <1>8 DEF A!Change
  <2>2. ~missed
    BY <1>2, <2>1 DEF A!Dispatch
  <2>3. A!OldEndFirst'
    BY <1>1, <1>6, <2>1, <2>2
  <2>4. /\ \A i \in DOMAIN rc_queue : i \in DOMAIN rc_queue' /\ rc_queue'[i] = rc_queue[i]
        /\ \E i \in DOMAIN rc_queue' : rc_queue'[i] = [kind |-> "change", n |-> m]
    BY <1>1, <1>5, <2>1, <2>2
  <2>5. A!AskingCaps => A!AskingCaps'
    BY <2>1, <2>4 DEF A!AskingCaps, A!Queued
  <2>6. ASSUME NEW n \in Supported, n \in rc_registered \/ A!Coming(n)
        PROVE  n \in rc_registered' \/ A!Coming(n)'
    BY <2>1, <2>4, <2>6 DEF A!Coming
  <2>. QED
    BY <1>2, <2>1, <2>2, <2>3, <2>5, <2>6
    DEF A!IInv, A!CapsKnownOrAsked, A!NotificationsKept
<1>9. CASE A!OtherEvent
  <2>1. /\ rc_up /\ A!Dispatch([kind |-> "other"])
        /\ UNCHANGED <<rc_registered, cmds, todo, caps>>
    BY <1>9 DEF A!OtherEvent
  <2>2. ~missed
    BY <1>2, <2>1 DEF A!Dispatch
  <2>3. A!OldEndFirst'
    BY <1>1, <1>6, <2>1, <2>2
  <2>4. \A i \in DOMAIN rc_queue : i \in DOMAIN rc_queue' /\ rc_queue'[i] = rc_queue[i]
    BY <1>1, <1>5, <2>1, <2>2
  <2>5. A!AskingCaps => A!AskingCaps'
    BY <2>1, <2>4 DEF A!AskingCaps, A!Queued
  <2>6. ASSUME NEW n \in Supported, n \in rc_registered \/ A!Coming(n)
        PROVE  n \in rc_registered' \/ A!Coming(n)'
    BY <2>1, <2>4, <2>6 DEF A!Coming
  <2>. QED
    BY <1>2, <2>1, <2>2, <2>3, <2>5, <2>6
    DEF A!IInv, A!CapsKnownOrAsked, A!NotificationsKept
<1>. QED
  BY <1>3, <1>4, <1>7, <1>8, <1>9 DEF A!Stack

LEMMA BtAppTaskKeeps ==
    ASSUME A!IInv, A!BtAppTask
    PROVE  A!OldEndFirst' /\ A!CapsKnownOrAsked' /\ A!NotificationsKept'
<1>. USE DEF A!task, A!link
<1>0. /\ rc_queue \in Seq(A!Event) /\ cmds \in Seq(A!Command)
      /\ todo \in Seq(A!Command) \cup {<<A!FreeText>>} /\ caps \in {{}, Supported}
  BY DEF A!IInv, A!TypeOK
<1>2. UNCHANGED <<rc_up, missed, rc_registered>>
  BY DEF A!BtAppTask, A!Handle, A!SendCommand, A!Free
<1>3. SUFFICES ASSUME rc_up, ~missed
               PROVE  A!OldEndFirst' /\ A!CapsKnownOrAsked' /\ A!NotificationsKept'
  BY <1>2 DEF A!OldEndFirst, A!CapsKnownOrAsked, A!NotificationsKept
<1>4. /\ A!AskingCaps \/ caps = Supported
      /\ A!AskingCaps \/ \A n \in Supported : n \in rc_registered \/ A!Coming(n)
      /\ \A i \in DOMAIN rc_queue : rc_queue[i].kind = "down" =>
            \E j \in DOMAIN rc_queue : j > i /\ rc_queue[j].kind = "up"
  BY <1>3 DEF A!IInv, A!CapsKnownOrAsked, A!NotificationsKept, A!OldEndFirst
<1>5. CASE A!SendCommand
  <2>1. /\ todo \in Seq(A!Command) /\ todo # <<>> /\ todo' = Tail(todo)
        /\ cmds' = Append(cmds, Head(todo)) /\ UNCHANGED <<rc_queue, caps>>
    BY <1>0, <1>3, <1>5 DEF A!SendCommand
  <2>2. \A x : A!Contains(todo, x) => Head(todo) = x \/ A!Contains(todo', x)
    BY <2>1, ContainsTail
  <2>3. Head(todo) \in A!Command
    BY <2>1, TailIndex
  <2>4. \A x : Head(todo) = x \/ A!Contains(cmds, x) => A!Contains(cmds', x)
    BY <1>0, <2>1, <2>3, ContainsAppend
  <2>5. A!AskingCaps => A!AskingCaps'
    BY <2>1, <2>2, <2>4 DEF A!AskingCaps, A!Queued
  <2>6. ASSUME NEW n \in Supported, n \in rc_registered \/ A!Coming(n)
        PROVE  n \in rc_registered' \/ A!Coming(n)'
    BY <1>2, <2>1, <2>2, <2>4, <2>6 DEF A!Coming
  <2>7. A!OldEndFirst'
    BY <1>4, <2>1 DEF A!OldEndFirst
  <2>. QED
    BY <1>4, <2>1, <2>5, <2>6, <2>7 DEF A!CapsKnownOrAsked, A!NotificationsKept
<1>6. CASE A!Handle
  <2>1. /\ rc_queue # <<>> /\ rc_queue' = Tail(rc_queue) /\ cmds' = cmds /\ todo = <<>>
    BY <1>6 DEF A!Handle
  <2>2. /\ Head(rc_queue) = rc_queue[1] /\ 1 \in DOMAIN rc_queue
        /\ \A i \in DOMAIN rc_queue' :
              i \in Nat \ {0} /\ i + 1 \in DOMAIN rc_queue /\ rc_queue'[i] = rc_queue[i + 1]
    BY <1>0, <2>1, TailIndex
  <2>3. \A i \in DOMAIN rc_queue : i = 1 \/ (i - 1 \in DOMAIN rc_queue' /\ rc_queue'[i - 1] = rc_queue[i])
    BY <1>0, <2>1
  <2>4. A!OldEndFirst'
    <3> SUFFICES ASSUME NEW i \in DOMAIN rc_queue', rc_queue'[i].kind = "down"
                 PROVE  \E j \in DOMAIN rc_queue' : j > i /\ rc_queue'[j].kind = "up"
      BY DEF A!OldEndFirst
    <3>1. i \in Nat \ {0} /\ i + 1 \in DOMAIN rc_queue /\ rc_queue[i + 1].kind = "down"
      BY <2>2
    <3>2. PICK j \in DOMAIN rc_queue : j > i + 1 /\ rc_queue[j].kind = "up"
      BY <1>4, <3>1
    <3>3. j - 1 \in DOMAIN rc_queue' /\ rc_queue'[j - 1] = rc_queue[j] /\ j - 1 > i
      BY <1>0, <2>3, <3>1, <3>2
    <3>. QED
      BY <3>2, <3>3
  <2>5. \A x : ~A!Contains(todo, x)
    BY <2>1 DEF A!Contains
  <2>6. A!AskingCaps /\ rc_queue[1].kind \notin {"up", "caps"} => A!AskingCaps'
    BY <2>1, <2>3, <2>5 DEF A!AskingCaps, A!Queued
  <2>7. ASSUME NEW n \in Supported, n \in rc_registered \/ A!Coming(n),
               rc_queue[1] # [kind |-> "change", n |-> n]
        PROVE  n \in rc_registered' \/ A!Coming(n)'
    BY <1>2, <2>1, <2>3, <2>5, <2>7 DEF A!Coming
  <2>8. CASE rc_queue[1].kind = "up" /\ A!HandleUp
    <3>1. todo' = <<[kind |-> "caps"]>>
      BY <2>8 DEF A!HandleUp
    <3>2. A!Contains(todo', [kind |-> "caps"])
      BY <3>1 DEF A!Contains
    <3>3. A!AskingCaps'
      BY <3>2 DEF A!AskingCaps
    <3>. QED
      BY <2>4, <3>3 DEF A!CapsKnownOrAsked, A!NotificationsKept
  <2>9. CASE rc_queue[1].kind = "down"
    <3>1. PICK j \in DOMAIN rc_queue : j > 1 /\ rc_queue[j].kind = "up"
      BY <1>4, <2>2, <2>9
    <3>2. j - 1 \in DOMAIN rc_queue' /\ rc_queue'[j - 1].kind = "up"
      BY <2>3, <3>1
    <3>3. A!AskingCaps'
      BY <3>2 DEF A!AskingCaps, A!Queued
    <3>. QED
      BY <2>4, <3>3 DEF A!CapsKnownOrAsked, A!NotificationsKept
  <2>10. CASE A!HandleCaps
    <3> DEFINE t == A!FollowUp("TRACK", Supported)
               s == A!FollowUp("STATUS", Supported)
               p == A!FollowUp("POSITION", Supported)
               Reg(n) == [kind |-> "register", n |-> n]
    <3>1. caps' = Supported /\ todo' = (t \o s) \o p
      <4>1. caps' = Supported
        BY <2>10 DEF A!HandleCaps
      <4>. QED
        BY <2>10, <4>1, Zenon DEF A!HandleCaps
    <3>2. /\ t \in Seq(A!Command) /\ s \in Seq(A!Command) /\ p \in Seq(A!Command)
          /\ "TRACK" \in Supported => A!Contains(t, Reg("TRACK"))
          /\ "STATUS" \in Supported => A!Contains(s, Reg("STATUS"))
          /\ "POSITION" \in Supported => A!Contains(p, Reg("POSITION"))
      BY FollowUpRegisters
    <3> HIDE DEF t, s, p
    <3>3. t \o s \in Seq(A!Command) /\ \A x : A!Contains(t, x) \/ A!Contains(s, x) => A!Contains(t \o s, x)
      BY <3>2, ContainsConcat
    <3>4. \A x : A!Contains(t \o s, x) \/ A!Contains(p, x) => A!Contains((t \o s) \o p, x)
      BY <3>2, <3>3, ContainsConcat
    <3>5. ASSUME NEW n \in Supported PROVE A!Contains((t \o s) \o p, Reg(n))
      <4>1. n \in {"TRACK", "STATUS", "POSITION"}
        BY ControllerConstants DEF A!Notifications
      <4>. QED
        BY <3>2, <3>3, <3>4, <4>1
    <3>6. ASSUME NEW n \in Supported PROVE A!Coming(n)'
      <4>1. A!Contains(todo', [kind |-> "register", n |-> n])
        BY <3>1, <3>5
      <4>. QED
        BY <4>1 DEF A!Coming
    <3>. QED
      BY <2>4, <3>1, <3>6 DEF A!CapsKnownOrAsked, A!NotificationsKept
  <2>11. CASE rc_queue[1].kind = "change" /\ A!HandleChange(rc_queue[1].n)
    <3> DEFINE m == rc_queue[1].n
    <3>1. caps' = caps /\ todo' = A!FollowUp(m, caps)
      BY <2>11 DEF A!HandleChange
    <3>2. A!AskingCaps => A!AskingCaps'
      BY <2>6, <2>11
    <3>3. ASSUME ~A!AskingCaps, NEW n \in Supported
          PROVE  n \in rc_registered' \/ A!Coming(n)'
      <4>1. CASE rc_queue[1] = [kind |-> "change", n |-> n]
        <5>1. n = m /\ n \in caps
          BY <1>4, <3>3, <4>1
        <5>2. A!Contains(A!FollowUp(n, caps), [kind |-> "register", n |-> n])
          BY <1>0, <5>1, FollowUpRegisters
        <5>. QED
          BY <3>1, <5>1, <5>2 DEF A!Coming
      <4>2. CASE rc_queue[1] # [kind |-> "change", n |-> n]
        BY <1>4, <2>7, <3>3, <4>2
      <4>. QED
        BY <4>1, <4>2
    <3>. QED
      BY <1>4, <2>4, <3>1, <3>2, <3>3 DEF A!CapsKnownOrAsked, A!NotificationsKept
  <2>12. CASE rc_queue[1].kind \in {"metadata", "other"}
    <3>1. caps' = caps
      BY <1>6, <2>2, <2>12 DEF A!Handle, A!HandleMetadata
    <3>2. \A n \in Supported : rc_queue[1] # [kind |-> "change", n |-> n]
      BY <2>12
    <3>. QED
      BY <1>4, <2>4, <2>6, <2>7, <2>12, <3>1, <3>2 DEF A!CapsKnownOrAsked, A!NotificationsKept
  <2>. QED
    BY <1>6, <2>2, <2>8, <2>9, <2>10, <2>11, <2>12 DEF A!Handle
<1>7. CASE A!Free
  <2>1. todo = <<A!FreeText>> /\ todo' = <<>> /\ UNCHANGED <<rc_queue, cmds, caps>>
    BY <1>7 DEF A!Free
  <2>2. \A x : A!Contains(todo, x) => x = A!FreeText
    BY <2>1 DEF A!Contains
  <2>3. A!FreeText # [kind |-> "caps"] /\ \A n : A!FreeText # [kind |-> "register", n |-> n]
    BY DEF A!FreeText
  <2>4. A!AskingCaps => A!AskingCaps'
    BY <2>1, <2>2, <2>3 DEF A!AskingCaps, A!Queued
  <2>5. ASSUME NEW n \in Supported, n \in rc_registered \/ A!Coming(n)
        PROVE  n \in rc_registered' \/ A!Coming(n)'
    BY <1>2, <2>1, <2>2, <2>3, <2>5 DEF A!Coming
  <2>6. A!OldEndFirst'
    BY <1>4, <2>1 DEF A!OldEndFirst
  <2>. QED
    BY <1>4, <2>1, <2>4, <2>5, <2>6 DEF A!CapsKnownOrAsked, A!NotificationsKept
<1>. QED
  BY <1>5, <1>6, <1>7 DEF A!BtAppTask

LEMMA ControllerStep == A!IInv /\ [MCNext]_<<part, vars, volumeVars, controllerVars>> => A!IInv'
<1> SUFFICES ASSUME A!IInv, [MCNext]_<<part, vars, volumeVars, controllerVars>> PROVE A!IInv'
  OBVIOUS
<1>1. CASE A!Next
  <2>1. A!TypeOK /\ A!Held <= texts
    BY DEF A!IInv
  <2>2. A!TypeOK'
    BY <1>1, <2>1, StackType, BtAppTaskType, EndType DEF A!Next
  <2>3. A!OldEndFirst' /\ A!CapsKnownOrAsked' /\ A!NotificationsKept'
    <3>1. CASE A!ShutDown
      BY <3>1 DEF A!ShutDown, A!OldEndFirst, A!CapsKnownOrAsked, A!NotificationsKept
    <3>. QED
      BY <1>1, <3>1, StackKeeps, BtAppTaskKeeps DEF A!Next
  <2>4. (A!Held <= texts)'
    <3>1. A!Leaked' >= A!Leaked
      BY <1>1, <2>1, <2>2, TextsStep
    <3>2. PICK a \in Nat, b \in Nat, c \in Nat, d \in Nat :
              a = A!Held /\ b = A!Held' /\ c = texts /\ d = texts'
      BY <2>1, <2>2, TextsAreInts, TextsWillBeInts
    <3>3. a <= c /\ d - b >= c - a
      BY <2>1, <3>1, <3>2 DEF A!Leaked
    <3>4. b <= d
      BY <3>3
    <3>. QED
      BY <3>2, <3>4
  <2>. QED
    BY <2>2, <2>3, <2>4 DEF A!IInv
<1>2. CASE UNCHANGED controllerVars
  <2>1. A!TypeOK'
    BY <1>2 DEF controllerVars, A!IInv, A!TypeOK
  <2>2. A!AskingCaps' <=> A!AskingCaps
    BY <1>2 DEF controllerVars, A!AskingCaps, A!Queued
  <2>3. A!OldEndFirst' /\ A!CapsKnownOrAsked' /\ A!NotificationsKept'
    BY <1>2, <2>2 DEF controllerVars, A!IInv, A!OldEndFirst, A!CapsKnownOrAsked,
       A!NotificationsKept, A!Coming
  <2>4. (A!Held <= texts)'
    BY <1>2, MetadataCount, HeldIs DEF controllerVars, A!IInv
  <2>. QED
    BY <2>1, <2>3, <2>4 DEF A!IInv
<1>. QED
  BY <1>1, <1>2 DEF MCNext

(* Neither side forgets a notification, for every range and step of the     *)
(* volume, every set of notifications and every length of the work queue    *)
(* (bt_app_av.c 138-163, 178-193, 405-424).                                 *)
THEOREM NoRegistrationForgotten == MCSpec => []RegistrationsKept
<1>1. V!IInv => V!TypeOK /\ V!ViewCurrent
  BY DEF V!IInv, V!ViewCurrent, V!Quiet, V!InterimCurrent, V!Following, V!InterimUnderWay
<1>2. V!IInv /\ A!IInv => RegistrationsKept
  BY <1>1 DEF A!IInv, RegistrationsKept
<1>. QED
  BY <1>2, VolumeInitially, VolumeStep, ControllerInitially, ControllerStep, PTL
  DEF MCSpec, MCInit

(* Every attribute text is freed once, unless the full work queue drops its *)
(* event or the end of the session finds it in the queue or in the hand of  *)
(* BtAppTask (bt_app_av.c 94-102, 337; bt_app_core.c 56, 150-162).          *)
THEOREM TextsAreFreed == MCSpec => TextsFreed
<1>1. A!IInv /\ A!IInv' /\ [MCNext]_<<part, vars, volumeVars, controllerVars>> =>
          [A!Leaked' # A!Leaked =>
              \/ Len(rc_queue) = QLen /\ A!Leaked' = A!Leaked + 1 /\ missed'
              \/ A!ShutDown /\ A!Leaked' = A!Leaked + A!Held]_(A!vars)
  <2> SUFFICES ASSUME A!IInv, A!IInv', [MCNext]_<<part, vars, volumeVars, controllerVars>>,
                      ~(UNCHANGED A!vars), A!Leaked' # A!Leaked
               PROVE  \/ Len(rc_queue) = QLen /\ A!Leaked' = A!Leaked + 1 /\ missed'
                      \/ A!ShutDown /\ A!Leaked' = A!Leaked + A!Held
    OBVIOUS
  <2>1. A!Next
    BY DEF MCNext, controllerVars, A!vars, A!link, A!task
  <2>. QED
    BY <2>1, TextsStep DEF A!IInv
<1>. QED
  BY <1>1, ControllerInitially, ControllerStep, PTL DEF MCSpec, MCInit, TextsFreed, A!TextsFreed
===============================================================================
