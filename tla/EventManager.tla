---------------------------- MODULE EventManager ----------------------------
(***************************************************************************)
(* The event manager (Events.c).  push_event() is called by tasks and by   *)
(* interrupt handlers on both cores and takes no lock: it sends the event  *)
(* to the manager's queue, then to one external queue after the other, as  *)
(* far as external_event_queue_cnt goes at that moment.  The manager's     *)
(* task calls the event's callback with event_mutex held; the functions    *)
(* that change the callbacks or add an external queue take it as well, for *)
(* at most 100 ms.                                                         *)
(*                                                                         *)
(* Each producer pushes an event of its own, so that a callback belongs to *)
(* a producer; the events are numbered here to tell them apart.  Neither   *)
(* the callbacks nor the timeouts that merely return an error are          *)
(* modelled further.                                                       *)
(***************************************************************************)
EXTENDS Naturals, Sequences, FiniteSets

CONSTANTS
    Producers,      \* the tasks and interrupt handlers that push events
    Owners,         \* the callers of get_event_queue_handle(): sm_init()
    Clients,        \* the callers of (un)register_event_callback()
    QueueLen,       \* MAX_EVENTS
    MaxExternal,    \* MAX_EXTERNAL_EVENT_QUEUES
    MaxPushes,      \* bound: the events one producer pushes
    MaxCalls,       \* bound: the calls one client makes
    NULL

ASSUME LenAssumption == QueueLen \in Nat \ {0}
(* The state machine is the only owner, and there are eight places. *)
ASSUME OwnersAssumption ==
    /\ IsFiniteSet(Owners) /\ NULL \notin Owners
    /\ MaxExternal \in Nat /\ Cardinality(Owners) <= MaxExternal
ASSUME HoldersAssumption ==
    /\ {"manager", NULL} \cap (Owners \cup Clients) = {}
    /\ NULL # "manager" /\ Owners \cap Clients = {}
ASSUME BoundsAssumption == MaxPushes \in Nat /\ MaxCalls \in Nat

VARIABLES
    event_queue,            \* the manager's queue
    external_event_queues,  \* whose queue is in which place of the array
    external_event_queue_cnt,
    box,                    \* box[o]: the contents of the owner's queue
    pushed,                 \* pushed[p]: the events p has begun to push
    at,                     \* at[p]: p's place in the fan-out loop, 0 outside
    event_mutex,            \* who holds it
    registered,             \* registered[p]: the callback of p's event is set
    manager,                \* where the manager's task is
    event,                  \* the event it has in hand
    owner_pc,               \* where each owner is
    calls                   \* calls[k]: the calls client k has made

queueVars == <<event_queue, box>>
arrayVars == <<external_event_queues, external_event_queue_cnt>>
pushVars == <<pushed, at>>
managerVars == <<manager, event>>
clientVars == <<registered, calls>>
vars == <<queueVars, arrayVars, pushVars, event_mutex, managerVars, owner_pc, clientVars>>

Slots == 1..MaxExternal
Events == Producers \X Nat

TypeOK ==
    /\ event_queue \in Seq(Events) /\ Len(event_queue) <= QueueLen
    /\ external_event_queues \in [Slots -> Owners \cup {NULL}]
    /\ external_event_queue_cnt \in 0..MaxExternal
    /\ box \in [Owners -> Seq(Events)]
    /\ \A o \in Owners : Len(box[o]) <= QueueLen
    /\ pushed \in [Producers -> Nat]
    /\ at \in [Producers -> 0..MaxExternal + 1]
    /\ event_mutex \in Owners \cup Clients \cup {"manager", NULL}
    /\ registered \in [Producers -> BOOLEAN]
    /\ manager \in {"receive", "take", "call"}
    /\ event \in Events \cup {NULL}
    /\ owner_pc \in [Owners -> {"idle", "take", "store", "count", "done", "failed"}]
    /\ calls \in [Clients -> Nat]

(* init_event_manager(); the state machine's queue comes later. *)
Init ==
    /\ event_queue = <<>>
    /\ external_event_queues = [i \in Slots |-> NULL]
    /\ external_event_queue_cnt = 0
    /\ box = [o \in Owners |-> <<>>]
    /\ pushed = [p \in Producers |-> 0]
    /\ at = [p \in Producers |-> 0]
    /\ event_mutex = NULL
    /\ registered = [p \in Producers |-> FALSE]
    /\ manager = "receive" /\ event = NULL
    /\ owner_pc = [o \in Owners |-> "idle"]
    /\ calls = [k \in Clients |-> 0]

-----------------------------------------------------------------------------
(* push_event() *)

(* xQueueSend() with a timeout of 0: a full queue refuses the event. *)
Sent(q, e) == IF Len(q) < QueueLen THEN Append(q, e) ELSE q

PushInternal(p) ==
    /\ at[p] = 0 /\ pushed[p] < MaxPushes
    /\ pushed' = [pushed EXCEPT ![p] = @ + 1]
    /\ event_queue' = Sent(event_queue, <<p, pushed[p] + 1>>)
    /\ at' = [at EXCEPT ![p] = 1]
    /\ UNCHANGED <<box, arrayVars, event_mutex, managerVars, owner_pc, clientVars>>

(* Mutant of PushExternal: the loop takes the index of the next queue first.*)
PushExternalSkipping(p) ==
    /\ at[p] # 0 /\ at[p] + 1 <= external_event_queue_cnt
    /\ LET o == external_event_queues[at[p] + 1]
       IN  box' = IF o = NULL THEN box
                  ELSE [box EXCEPT ![o] = Sent(@, <<p, pushed[p]>>)]
    /\ at' = [at EXCEPT ![p] = @ + 1]
    /\ UNCHANGED <<event_queue, arrayVars, pushed, event_mutex, managerVars, owner_pc,
                   clientVars>>

(* One round of the loop over the external queues. *)
PushExternal(p) ==
    /\ at[p] # 0 /\ at[p] <= external_event_queue_cnt
    /\ LET o == external_event_queues[at[p]]
       IN  box' = IF o = NULL THEN box
                  ELSE [box EXCEPT ![o] = Sent(@, <<p, pushed[p]>>)]
    /\ at' = [at EXCEPT ![p] = @ + 1]
    /\ UNCHANGED <<event_queue, arrayVars, pushed, event_mutex, managerVars, owner_pc,
                   clientVars>>

PushReturn(p) ==
    /\ at[p] > external_event_queue_cnt
    /\ at' = [at EXCEPT ![p] = 0]
    /\ UNCHANGED <<queueVars, arrayVars, pushed, event_mutex, managerVars, owner_pc,
                   clientVars>>

-----------------------------------------------------------------------------
(* get_event_queue_handle() *)

OwnerGoto(o, next) == owner_pc' = [owner_pc EXCEPT ![o] = next]

(* The number of queues is tested before the mutex is taken. *)
CreateQueue(o) ==
    /\ owner_pc[o] = "idle"
    /\ OwnerGoto(o, IF external_event_queue_cnt >= MaxExternal THEN "failed" ELSE "take")
    /\ UNCHANGED <<queueVars, arrayVars, pushVars, event_mutex, managerVars, clientVars>>

(* Mutant of OwnerTake: the array is changed without the mutex. *)
OwnerTakeUnlocked(o) ==
    /\ owner_pc[o] = "take"
    /\ OwnerGoto(o, "store")
    /\ UNCHANGED <<queueVars, arrayVars, pushVars, event_mutex, managerVars, clientVars>>

OwnerTake(o) ==
    /\ owner_pc[o] = "take" /\ event_mutex = NULL
    /\ event_mutex' = o
    /\ OwnerGoto(o, "store")
    /\ UNCHANGED <<queueVars, arrayVars, pushVars, managerVars, clientVars>>

(* The queue is deleted when the mutex is not free for 100 ms. *)
OwnerTimeout(o) ==
    /\ owner_pc[o] = "take" /\ event_mutex # NULL
    /\ OwnerGoto(o, "failed")
    /\ UNCHANGED <<queueVars, arrayVars, pushVars, event_mutex, managerVars, clientVars>>

StoreQueue(o) ==
    /\ owner_pc[o] = "store"
    /\ external_event_queues' =
           [external_event_queues EXCEPT ![external_event_queue_cnt + 1] = o]
    /\ OwnerGoto(o, "count")
    /\ UNCHANGED <<queueVars, external_event_queue_cnt, pushVars, event_mutex, managerVars,
                   clientVars>>

(* From here on push_event() sends to the new queue. *)
CountQueue(o) ==
    /\ owner_pc[o] = "count"
    /\ external_event_queue_cnt' = external_event_queue_cnt + 1
    /\ event_mutex' = NULL
    /\ OwnerGoto(o, "done")
    /\ UNCHANGED <<queueVars, external_event_queues, pushVars, managerVars, clientVars>>

(* The owner drains its queue, as sm_update() does. *)
OwnerReceive(o) ==
    /\ owner_pc[o] = "done" /\ box[o] # <<>>
    /\ box' = [box EXCEPT ![o] = Tail(@)]
    /\ UNCHANGED <<event_queue, arrayVars, pushVars, event_mutex, managerVars, owner_pc,
                   clientVars>>

-----------------------------------------------------------------------------
(* register_event_callback(), unregister_event_callback() and              *)
(* event_callback_registered()                                             *)

ClientTake(k) ==
    /\ event_mutex = NULL /\ calls[k] < MaxCalls
    /\ event_mutex' = k
    /\ calls' = [calls EXCEPT ![k] = @ + 1]
    /\ UNCHANGED <<queueVars, arrayVars, pushVars, managerVars, owner_pc, registered>>

Register(k, p) ==
    /\ event_mutex = k
    /\ registered' = [registered EXCEPT ![p] = TRUE]
    /\ event_mutex' = NULL
    /\ UNCHANGED <<queueVars, arrayVars, pushVars, managerVars, owner_pc, calls>>

Unregister(k, p) ==
    /\ event_mutex = k
    /\ registered' = [registered EXCEPT ![p] = FALSE]
    /\ event_mutex' = NULL
    /\ UNCHANGED <<queueVars, arrayVars, pushVars, managerVars, owner_pc, calls>>

(* event_callback_registered() only looks. *)
IsRegistered(k) ==
    /\ event_mutex = k
    /\ event_mutex' = NULL
    /\ UNCHANGED <<queueVars, arrayVars, pushVars, managerVars, owner_pc, clientVars>>

-----------------------------------------------------------------------------
(* event_manager_task() *)

ManagerReceive ==
    /\ manager = "receive" /\ event_queue # <<>>
    /\ event' = Head(event_queue)
    /\ event_queue' = Tail(event_queue)
    /\ manager' = "take"
    /\ UNCHANGED <<box, arrayVars, pushVars, event_mutex, owner_pc, clientVars>>

(* The callback runs with the mutex held. *)
ManagerTake ==
    /\ manager = "take" /\ event_mutex = NULL
    /\ IF registered[event[1]]
       THEN manager' = "call" /\ event_mutex' = "manager" /\ UNCHANGED event
       ELSE manager' = "receive" /\ event' = NULL /\ UNCHANGED event_mutex
    /\ UNCHANGED <<queueVars, arrayVars, pushVars, owner_pc, clientVars>>

(* Mutant of ManagerReturn: the mutex is not given back after a callback. *)
ManagerReturnLocked ==
    /\ manager = "call"
    /\ manager' = "receive" /\ event' = NULL
    /\ UNCHANGED <<event_mutex, queueVars, arrayVars, pushVars, owner_pc, clientVars>>

(* The callback returns. *)
ManagerReturn ==
    /\ manager = "call"
    /\ manager' = "receive" /\ event' = NULL
    /\ event_mutex' = NULL
    /\ UNCHANGED <<queueVars, arrayVars, pushVars, owner_pc, clientVars>>

-----------------------------------------------------------------------------
ProducerNext(p) == PushInternal(p) \/ PushExternal(p) \/ PushReturn(p)
OwnerNext(o) ==
    \/ CreateQueue(o) \/ OwnerTake(o) \/ OwnerTimeout(o) \/ StoreQueue(o) \/ CountQueue(o)
    \/ OwnerReceive(o)
ClientNext(k) ==
    \/ ClientTake(k) \/ IsRegistered(k)
    \/ \E p \in Producers : Register(k, p) \/ Unregister(k, p)
ManagerNext == ManagerReceive \/ ManagerTake \/ ManagerReturn

Next ==
    \/ \E p \in Producers : ProducerNext(p)
    \/ \E o \in Owners : OwnerNext(o)
    \/ \E k \in Clients : ClientNext(k)
    \/ ManagerNext

SafetySpec == Init /\ [][Next]_vars

(* A push, once begun, and a function that holds the mutex go on; the      *)
(* manager's task is scheduled.  Nobody has to push or to call anything.   *)
Fairness ==
    /\ \A p \in Producers : WF_vars(PushExternal(p) \/ PushReturn(p))
    /\ \A o \in Owners : WF_vars(StoreQueue(o) \/ CountQueue(o))
    /\ \A k \in Clients :
           WF_vars(IsRegistered(k) \/ \E p \in Producers : Register(k, p) \/ Unregister(k, p))
    /\ WF_vars(ManagerNext)

Spec == SafetySpec /\ Fairness

-----------------------------------------------------------------------------
(* Properties *)

Subscribed == {external_event_queues[i] : i \in 1..external_event_queue_cnt}

(* Every entry that push_event() may read, while it runs without a lock    *)
(* beside get_event_queue_handle(), is a queue, and no queue is in two     *)
(* places: xQueueSend() is never called with NULL, and no owner gets an    *)
(* event twice (Events.c, 136 to 145 against 168 and 169).                 *)
PublishedQueuesAreReal ==
    \A i \in 1..external_event_queue_cnt :
        /\ external_event_queues[i] \in Owners
        /\ \A j \in 1..external_event_queue_cnt :
               external_event_queues[i] = external_event_queues[j] => i = j

(* A callback never runs after unregister_event_callback() has returned:   *)
(* the manager's task has looked it up and calls it under the mutex that   *)
(* removing it takes (Events.c, 202 to 210 against 98 to 105).             *)
CallbackRunsWhileRegistered == manager = "call" => registered[event[1]]

(* In each queue the events of one producer are in the order in which they *)
(* were pushed, none of them twice, although the fan-out of one push may   *)
(* overlap with those of others (Events.c, 126 to 149).                    *)
InOrder(q) ==
    \A i, j \in DOMAIN q : i < j /\ q[i][1] = q[j][1] => q[i][2] < q[j][2]
QueuesInOrder == InOrder(event_queue) /\ \A o \in Owners : InOrder(box[o])

(* To whom the push that p is in has not got yet. *)
Owed == [p \in Producers |->
            IF at[p] = 0 THEN {}
            ELSE {external_event_queues[i] : i \in at[p]..external_event_queue_cnt}]

B == INSTANCE Broadcast WITH
         Subscribers <- Owners, Capacity <- QueueLen, sent <- pushed,
         members <- Subscribed, owed <- Owed, own <- event_queue, pending <- box

(* The event manager is a broadcast: with its array, counter and mutex it  *)
(* loses an event only for a queue that is full, and sends every other one *)
(* once to each queue that was handed out before the push.                 *)
ImplementsBroadcast == B!SafetySpec

(* ... and it handles what it has queued, and finishes each push.          *)
HandlesBroadcast == B!Fairness

(* Whoever waits for the mutex with portMAX_DELAY gets it: an event that   *)
(* push_event() has accepted leads to its callback (Events.c, 195 to 210). *)
EventsAreHandled == (manager = "take") ~> (manager = "receive")

(* What push_event() reads without a lock is published whole, callbacks    *)
(* run only while they are registered, and no producer's events overtake   *)
(* each other.                                                             *)
DeliveryRight ==
    TypeOK /\ PublishedQueuesAreReal /\ CallbackRunsWhileRegistered /\ QueuesInOrder

(* Pushes finish and what they queued is handled, to its callback.         *)
EventsArrive == HandlesBroadcast /\ EventsAreHandled
=============================================================================
