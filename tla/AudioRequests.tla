---------------------------- MODULE AudioRequests ----------------------------
(***************************************************************************)
(* The audio manager's requests (flash/audio_manager.c).  A sound effect   *)
(* is played by the manager's own task, which takes requests from a queue  *)
(* of eight.  Most callers only queue a request.  A blocking caller        *)
(* creates a semaphore, sends it along and waits until the task gives it:  *)
(* for ever on entering SLEEP, and for a time that the caller chooses in   *)
(* play_audio_asset_blocking().  Nobody deletes the semaphores.            *)
(*                                                                         *)
(* Which asset is played does not matter here; I2sRingbuf has what playing *)
(* it does, AssetStore what is stored on flash.  Playing may never end: a  *)
(* chunk that the ring buffer does not take is tried again without limit.  *)
(* The calls are numbered to tell them apart.                              *)
(***************************************************************************)
EXTENDS Naturals, Sequences

CONSTANTS
    Patient,    \* the callers that wait with portMAX_DELAY
    Hasty,      \* the callers that wait for a limited time
    QueueLen,   \* AUDIO_QUEUE_LENGTH
    MaxCalls    \* bound: blocking calls

ASSUME CallersAssumption == Patient \cap Hasty = {}
ASSUME LenAssumption == QueueLen \in Nat \ {0} /\ MaxCalls \in Nat

VARIABLES
    audio_queue,    \* the requests waiting
    task,           \* where audio_manager_task() is, "none" if there is none
    req,            \* the request it has in hand
    active,         \* the asset's entry in audio_meta_data
    pc,             \* where each blocking caller is
    no,             \* no[c]: the number of its call
    blocking_sem,   \* blocking_sem[c]: the semaphore of its call
    accepted,       \* accepted[c]: ret, the result of its xQueueSend()
    outcome,        \* outcome[c]: what its last call has returned
    given,          \* the semaphores that are given
    made,           \* the number of blocking calls so far
    served          \* history: the calls whose request the task is done with

taskVars == <<task, req>>
callVars == <<pc, no, blocking_sem, accepted, outcome, made>>
vars == <<audio_queue, taskVars, active, callVars, given, served>>

Callers == Patient \cup Hasty

(* A request that nobody waits for has no number and no semaphore. *)
NULL == 0
Requests == [no : Nat, sem : Nat]
Unattended == [no |-> 0, sem |-> NULL]

TypeOK ==
    /\ audio_queue \in Seq(Requests) /\ Len(audio_queue) <= QueueLen
    /\ task \in {"none", "receive", "play", "chunks", "give"}
    /\ req \in Requests
    /\ active \in BOOLEAN
    /\ pc \in [Callers -> {"idle", "send", "wait"}]
    /\ no \in [Callers -> Nat]
    /\ blocking_sem \in [Callers -> Nat]
    /\ accepted \in [Callers -> BOOLEAN]
    /\ outcome \in [Callers -> {"none", "ok", "error"}]
    /\ given \in SUBSET (Nat \ {NULL})
    /\ made \in Nat
    /\ served \in SUBSET Nat

(* audio_manager_init(): the queue is created first; without a valid table *)
(* no entry is active and there is no task.                                *)
Init ==
    /\ audio_queue = <<>>
    /\ task \in {"none", "receive"}
    /\ req = Unattended
    /\ active \in BOOLEAN /\ (task = "none" => ~active)
    /\ pc = [c \in Callers |-> "idle"]
    /\ no = [c \in Callers |-> 0]
    /\ blocking_sem = [c \in Callers |-> NULL]
    /\ accepted = [c \in Callers |-> FALSE]
    /\ outcome = [c \in Callers |-> "none"]
    /\ given = {} /\ made = 0 /\ served = {}

-----------------------------------------------------------------------------
(* play_audio_asset_general() *)

(* xQueueSend() with a timeout of 0, and xQueueSendFromISR(). *)
Queued(r) ==
    audio_queue' = IF Len(audio_queue) < QueueLen THEN Append(audio_queue, r) ELSE audio_queue

(* Without waiting: play_audio_asset(), from a task or an interrupt. *)
Play ==
    /\ active
    /\ Queued(Unattended)
    /\ UNCHANGED <<taskVars, active, callVars, given, served>>

(* Mutant of CallBlocking: one semaphore serves all calls. *)
CallBlockingShared(c) ==
    /\ pc[c] = "idle" /\ active /\ made < MaxCalls
    /\ made' = made + 1
    /\ no' = [no EXCEPT ![c] = made + 1]
    /\ blocking_sem' = [blocking_sem EXCEPT ![c] = 1]
    /\ pc' = [pc EXCEPT ![c] = "send"]
    /\ outcome' = [outcome EXCEPT ![c] = "none"]
    /\ UNCHANGED <<audio_queue, taskVars, active, accepted, given, served>>

(* Each blocking call creates a semaphore of its own. *)
CallBlocking(c) ==
    /\ pc[c] = "idle" /\ active /\ made < MaxCalls
    /\ made' = made + 1
    /\ no' = [no EXCEPT ![c] = made + 1]
    /\ blocking_sem' = [blocking_sem EXCEPT ![c] = made + 1]
    /\ pc' = [pc EXCEPT ![c] = "send"]
    /\ outcome' = [outcome EXCEPT ![c] = "none"]
    /\ UNCHANGED <<audio_queue, taskVars, active, accepted, given, served>>

(* No such asset, or no memory for the semaphore. *)
CallFails(c) ==
    /\ pc[c] = "idle"
    /\ outcome' = [outcome EXCEPT ![c] = "error"]
    /\ UNCHANGED <<audio_queue, taskVars, active, pc, no, blocking_sem, accepted, made, given,
                   served>>

(* A refused request is remembered in ret, and waited for all the same. *)
Send(c) ==
    /\ pc[c] = "send"
    /\ Queued([no |-> no[c], sem |-> blocking_sem[c]])
    /\ accepted' = [accepted EXCEPT ![c] = Len(audio_queue) < QueueLen]
    /\ pc' = [pc EXCEPT ![c] = "wait"]
    /\ UNCHANGED <<taskVars, active, no, blocking_sem, outcome, made, given, served>>

Take(c) ==
    /\ pc[c] = "wait" /\ blocking_sem[c] \in given
    /\ given' = given \ {blocking_sem[c]}
    /\ outcome' = [outcome EXCEPT ![c] = IF accepted[c] THEN "ok" ELSE "error"]
    /\ pc' = [pc EXCEPT ![c] = "idle"]
    /\ UNCHANGED <<audio_queue, taskVars, active, no, blocking_sem, accepted, made, served>>

Timeout(c) ==
    /\ c \in Hasty /\ pc[c] = "wait" /\ blocking_sem[c] \notin given
    /\ outcome' = [outcome EXCEPT ![c] = "error"]
    /\ pc' = [pc EXCEPT ![c] = "idle"]
    /\ UNCHANGED <<audio_queue, taskVars, active, no, blocking_sem, accepted, made, given,
                   served>>

-----------------------------------------------------------------------------
(* audio_manager_task() *)

(* Mutant of Receive: the next request is only looked at (xQueuePeek). *)
ReceivePeeking ==
    /\ task = "receive" /\ audio_queue # <<>>
    /\ req' = Head(audio_queue)
    /\ task' = "play"
    /\ UNCHANGED <<audio_queue, active, callVars, given, served>>

Receive ==
    /\ task = "receive" /\ audio_queue # <<>>
    /\ req' = Head(audio_queue)
    /\ audio_queue' = Tail(audio_queue)
    /\ task' = "play"
    /\ UNCHANGED <<active, callVars, given, served>>

(* play_audio_asset_local() has returned; its result is not looked at. *)
Played ==
    /\ task' = IF req.sem = NULL THEN "receive" ELSE "give"
    /\ served' = served \cup {req.no}

(* play_audio_asset_local(): the file is opened, or it cannot be. *)
PlayLocal ==
    /\ task = "play"
    /\ \/ Played
       \/ task' = "chunks" /\ UNCHANGED served
    /\ UNCHANGED <<audio_queue, req, active, callVars, given>>

(* The ring buffer has taken the last chunk, and is flushed. *)
ChunksWritten ==
    /\ task = "chunks"
    /\ Played
    /\ UNCHANGED <<audio_queue, req, active, callVars, given>>

Give ==
    /\ task = "give"
    /\ given' = given \cup {req.sem}
    /\ task' = "receive"
    /\ UNCHANGED <<audio_queue, req, active, callVars, served>>

(* load_nvm_end() in the shell's task activates an uploaded asset, with or *)
(* without a task to play it.                                              *)
Activate ==
    /\ ~active
    /\ active' = TRUE
    /\ UNCHANGED <<audio_queue, taskVars, callVars, given, served>>

-----------------------------------------------------------------------------
CallerNext(c) ==
    CallBlocking(c) \/ CallFails(c) \/ Send(c) \/ Take(c) \/ Timeout(c)
TaskNext == Receive \/ PlayLocal \/ Give

Next ==
    \/ Play \/ Activate \/ TaskNext \/ ChunksWritten
    \/ \E c \in Callers : CallerNext(c)

SafetySpec == Init /\ [][Next]_vars

(* The task is scheduled; that the ring buffer ever takes the last chunk   *)
(* is not assumed (I2sRingbuf shows how it may not).  Callers that are not *)
(* blocked go on.  The time of a hasty caller runs out, if its semaphore   *)
(* is not given first.                                                     *)
Fairness ==
    /\ WF_vars(TaskNext)
    /\ \A c \in Callers : WF_vars(Send(c) \/ Take(c) \/ Timeout(c))

Spec == SafetySpec /\ Fairness

-----------------------------------------------------------------------------
(* Properties *)

Queue == {audio_queue[i] : i \in DOMAIN audio_queue}
InHand == IF task \in {"play", "chunks", "give"} THEN {req} ELSE {}

(* A blocking call that returns 0 has waited for its own sound, and not    *)
(* for one whose caller gave up before: each call has its own semaphore    *)
(* (audio_manager.c, 292 to 308 and 240).                                  *)
SuccessMeansServed ==
    \A c \in Callers : outcome[c] = "ok" => no[c] \in served

(* Whoever waits for a request that was accepted is not forgotten: the     *)
(* request is in the queue or in the task's hand, or its semaphore is      *)
(* given (audio_manager.c, 299 to 301 and 235 to 243).                     *)
WaiterNotForgotten ==
    \A c \in Callers : pc[c] = "wait" /\ accepted[c] =>
        \/ blocking_sem[c] \in given
        \/ \E r \in Queue \cup InHand : r.sem = blocking_sem[c]

(* ... so its call returns, for a caller with portMAX_DELAY too, if there  *)
(* is a task at all (audio_manager.c, 233 to 244 and 376) and no sound is  *)
(* played for ever (209 to 215).                                           *)
AcceptedCallReturns ==
    []<>(task # "chunks") =>
        \A c \in Callers :
            (task # "none" /\ pc[c] = "wait" /\ accepted[c]) ~> (pc[c] = "idle")

(* A hasty caller always returns, whatever became of its request           *)
(* (audio_manager.c, 301 to 305).                                          *)
HastyCallReturns == \A c \in Hasty : (pc[c] = "wait") ~> (pc[c] = "idle")

(* A blocking call waits for its own request and for no other, and the     *)
(* request it waits for is not lost.                                       *)
OwnRequestServed == TypeOK /\ SuccessMeansServed /\ WaiterNotForgotten

(* Calls return: those with a time limit, and those that were accepted, as *)
(* long as every sound comes to its end.                                   *)
CallsReturn == AcceptedCallReturns /\ HastyCallReturns
=============================================================================
