------------------------- MODULE EventManager_proof -------------------------
(***************************************************************************)
(* Proofs about the event manager, for any number of producers, clients    *)
(* and owners of external queues, as long as there is a place for each     *)
(* owner: its array is never read where it has no queue, its queues are in *)
(* order, and it implements the broadcast; and about the buttons, for any  *)
(* periods and any length of the timer task's queue: a press gives the     *)
(* steps or the event it should.                                           *)
(***************************************************************************)
EXTENDS Integers, MCEvents, FiniteSetTheorems, TLAPS

-----------------------------------------------------------------------------
(* The inductive invariant. *)

(* Who is inside a section that the mutex protects holds it. *)
HolderInv ==
    /\ \A o \in Owners : owner_pc[o] \in {"store", "count"} => event_mutex = o
    /\ manager = "call" <=> event_mutex = "manager"
    /\ manager # "receive" => event \in Events
    /\ CallbackRunsWhileRegistered

(* The counted entries are the queues of the owners that are done. *)
ArrayInv ==
    /\ PublishedQueuesAreReal
    /\ \A i \in 1..external_event_queue_cnt :
           owner_pc[external_event_queues[i]] = "done"
    /\ \A o \in Owners :
           /\ owner_pc[o] = "count" =>
                  /\ external_event_queue_cnt < MaxExternal
                  /\ external_event_queues[external_event_queue_cnt + 1] = o
           /\ owner_pc[o] # "done" => box[o] = <<>>

(* A push is at most one past the last entry. *)
PushInv ==
    \A p \in Producers : at[p] # 0 => /\ at[p] <= external_event_queue_cnt + 1
                                      /\ pushed[p] > 0

(* A queue holds events that were pushed, and not yet the last event of a  *)
(* producer whose push has still to come to it.                            *)
UpTo(q, p, n) == \A i \in DOMAIN q : q[i][1] = p => q[i][2] <= n
Below(q, p, n) == \A i \in DOMAIN q : q[i][1] = p => q[i][2] < n
ContentInv ==
    \A p \in Producers :
        /\ UpTo(event_queue, p, pushed[p])
        /\ \A o \in Owners : UpTo(box[o], p, pushed[p])
        /\ at[p] # 0 => \A i \in at[p]..external_event_queue_cnt :
                           Below(box[external_event_queues[i]], p, pushed[p])

Inv == TypeOK /\ HolderInv /\ ArrayInv /\ PushInv
FullInv == Inv /\ ContentInv /\ QueuesInOrder

-----------------------------------------------------------------------------
(* Lemmas about queues. *)

LEMMA AppendIndex ==
    ASSUME NEW S, NEW q \in Seq(S), NEW e \in S
    PROVE  /\ Append(q, e) \in Seq(S)
           /\ Len(Append(q, e)) = Len(q) + 1
           /\ \A i \in DOMAIN Append(q, e) :
                 \/ i \in DOMAIN q /\ Append(q, e)[i] = q[i]
                 \/ i = Len(q) + 1 /\ Append(q, e)[i] = e
           /\ \A i \in DOMAIN q : i < Len(q) + 1 /\ i \in Nat
OBVIOUS

LEMMA TailIndex ==
    ASSUME NEW S, NEW q \in Seq(S), q # <<>>
    PROVE  /\ Head(q) \in S
           /\ Tail(q) \in Seq(S) /\ Len(Tail(q)) = Len(q) - 1
           /\ \A i \in DOMAIN Tail(q) :
                 i \in Nat \ {0} /\ i + 1 \in DOMAIN q /\ Tail(q)[i] = q[i + 1]
OBVIOUS

(* A send adds one event at the end, or none. *)
LEMMA SentEffect ==
    ASSUME NEW q \in Seq(Events), Len(q) <= QueueLen, NEW e \in Events
    PROVE  /\ Sent(q, e) \in Seq(Events) /\ Len(Sent(q, e)) <= QueueLen
           /\ \A i \in DOMAIN Sent(q, e) :
                 \/ i \in DOMAIN q /\ Sent(q, e)[i] = q[i]
                 \/ i = Len(q) + 1 /\ Sent(q, e)[i] = e
           /\ \A i \in DOMAIN q : i < Len(q) + 1 /\ i \in Nat
<1>1. CASE Len(q) < QueueLen
  BY <1>1, AppendIndex, LenAssumption DEF Sent
<1>2. CASE ~(Len(q) < QueueLen)
  BY <1>2 DEF Sent
<1>. QED
  BY <1>1, <1>2

(* Sending a producer's newest event keeps a queue in order. *)
LEMMA SentOrder ==
    ASSUME NEW q \in Seq(Events), Len(q) <= QueueLen,
           NEW p \in Producers, NEW n \in Nat, Below(q, p, n), InOrder(q)
    PROVE  /\ InOrder(Sent(q, <<p, n>>))
           /\ UpTo(Sent(q, <<p, n>>), p, n)
           /\ \A r \in Producers, m \in Nat : r # p =>
                 /\ UpTo(q, r, m) => UpTo(Sent(q, <<p, n>>), r, m)
                 /\ Below(q, r, m) => Below(Sent(q, <<p, n>>), r, m)
<1>. DEFINE e == <<p, n>>
<1>1. e \in Events /\ e[1] = p /\ e[2] = n
  BY DEF Events
<1>. HIDE DEF e
<1>2. /\ \A i \in DOMAIN Sent(q, e) :
            \/ i \in DOMAIN q /\ Sent(q, e)[i] = q[i]
            \/ i = Len(q) + 1 /\ Sent(q, e)[i] = e
      /\ \A i \in DOMAIN q : i < Len(q) + 1 /\ i \in Nat
  BY <1>1, SentEffect
<1>3. InOrder(Sent(q, e))
  BY <1>1, <1>2 DEF InOrder, Below
<1>4. \A i \in DOMAIN q : q[i][2] \in Nat
  BY DEF Events
<1>5. UpTo(Sent(q, e), p, n)
  BY <1>1, <1>2, <1>4 DEF UpTo, Below
<1>6. ASSUME NEW r \in Producers, NEW m \in Nat, r # p
      PROVE  /\ UpTo(q, r, m) => UpTo(Sent(q, e), r, m)
             /\ Below(q, r, m) => Below(Sent(q, e), r, m)
  BY <1>1, <1>2, <1>6 DEF UpTo, Below
<1>. QED
  BY <1>3, <1>5, <1>6 DEF e

LEMMA TailOrder ==
    ASSUME NEW q \in Seq(Events), q # <<>>, InOrder(q)
    PROVE  /\ InOrder(Tail(q))
           /\ \A p \in Producers, n \in Nat :
                 /\ UpTo(q, p, n) => UpTo(Tail(q), p, n)
                 /\ Below(q, p, n) => Below(Tail(q), p, n)
BY TailIndex DEF InOrder, UpTo, Below

(* While an owner is about to store its queue there is a place for it:     *)
(* each place taken belongs to another owner.                              *)
LEMMA PlaceLeft ==
    ASSUME Inv, NEW o \in Owners, owner_pc[o] = "store"
    PROVE  external_event_queue_cnt < MaxExternal
<1>. DEFINE n == external_event_queue_cnt
            f == [i \in 1..n + 1 |-> IF i <= n THEN external_event_queues[i] ELSE o]
<1>1. n \in Nat /\ MaxExternal \in Nat
  BY OwnersAssumption DEF Inv, TypeOK
<1>2. \A i \in 1..n : external_event_queues[i] \in Owners /\ external_event_queues[i] # o
  BY DEF Inv, ArrayInv, PublishedQueuesAreReal
<1>3. f \in [1..n + 1 -> Owners]
  BY <1>1, <1>2
<1>4. \A i, j \in 1..n + 1 : f[i] = f[j] => i = j
  BY <1>1, <1>2 DEF Inv, ArrayInv, PublishedQueuesAreReal
<1>5. f \in Injection(1..n + 1, Owners)
  BY <1>3, <1>4 DEF Injection, IsInjective
<1>6. Cardinality(1..n + 1) <= Cardinality(Owners)
  BY <1>5, FS_Injection, OwnersAssumption
<1>7. Cardinality(1..n + 1) = n + 1
  BY <1>1, FS_Interval
<1>8. Cardinality(Owners) \in Nat
  BY OwnersAssumption, FS_CardinalityType
<1>. QED
  BY <1>1, <1>6, <1>7, <1>8, OwnersAssumption

-----------------------------------------------------------------------------
(* The invariant holds initially and every step keeps it. *)

LEMMA InitInv == Init => Inv
BY LenAssumption, OwnersAssumption, HoldersAssumption
DEF Init, Inv, TypeOK, HolderInv, ArrayInv, PushInv, PublishedQueuesAreReal,
    CallbackRunsWhileRegistered, Slots, Events

LEMMA PushInternalInv ==
    ASSUME Inv, NEW p \in Producers, PushInternal(p)
    PROVE  Inv'
<1>. USE DEF PushInternal, queueVars, arrayVars, pushVars, managerVars, clientVars
<1>1. <<p, pushed[p] + 1>> \in Events
  BY DEF Inv, TypeOK, Events
<1>2. event_queue' \in Seq(Events) /\ Len(event_queue') <= QueueLen
  BY <1>1, SentEffect DEF Inv, TypeOK
<1>3. TypeOK'
  BY <1>2, OwnersAssumption DEF Inv, TypeOK
<1>4. HolderInv' /\ ArrayInv' /\ PushInv'
  BY DEF Inv, TypeOK, HolderInv, ArrayInv, PushInv, PublishedQueuesAreReal,
         CallbackRunsWhileRegistered
<1>. QED
  BY <1>3, <1>4 DEF Inv

LEMMA PushExternalInv ==
    ASSUME Inv, NEW p \in Producers, PushExternal(p)
    PROVE  Inv'
<1>. USE DEF PushExternal, queueVars, arrayVars, pushVars, managerVars, clientVars
<1>. DEFINE o == external_event_queues[at[p]]
<1>1. o \in Owners /\ owner_pc[o] = "done" /\ o # NULL
  BY OwnersAssumption DEF Inv, TypeOK, ArrayInv, PublishedQueuesAreReal
<1>2. <<p, pushed[p]>> \in Events
  BY DEF Inv, TypeOK, Events
<1>3. /\ Sent(box[o], <<p, pushed[p]>>) \in Seq(Events)
      /\ Len(Sent(box[o], <<p, pushed[p]>>)) <= QueueLen
  BY <1>1, <1>2, SentEffect DEF Inv, TypeOK
<1>4. box' = [box EXCEPT ![o] = Sent(@, <<p, pushed[p]>>)]
  BY <1>1
<1>. HIDE DEF o
<1>5. TypeOK'
  <2>1. box' \in [Owners -> Seq(Events)] /\ \A u \in Owners : Len(box'[u]) <= QueueLen
    BY <1>1, <1>3, <1>4 DEF Inv, TypeOK
  <2>2. at' \in [Producers -> 0..MaxExternal + 1]
    BY OwnersAssumption DEF Inv, TypeOK
  <2>. QED
    BY <2>1, <2>2 DEF Inv, TypeOK
<1>6. ArrayInv'
  BY <1>1, <1>4 DEF Inv, TypeOK, ArrayInv, PublishedQueuesAreReal
<1>7. HolderInv' /\ PushInv'
  BY DEF Inv, TypeOK, HolderInv, PushInv, CallbackRunsWhileRegistered
<1>. QED
  BY <1>5, <1>6, <1>7 DEF Inv

LEMMA PushReturnInv ==
    ASSUME Inv, NEW p \in Producers, PushReturn(p)
    PROVE  Inv'
BY OwnersAssumption
DEF PushReturn, queueVars, arrayVars, pushVars, managerVars, clientVars, Inv, TypeOK,
    HolderInv, ArrayInv, PushInv, PublishedQueuesAreReal, CallbackRunsWhileRegistered

(* The steps of an owner until it has its queue. *)
LEMMA OwnerInv ==
    ASSUME Inv, NEW o \in Owners,
           CreateQueue(o) \/ OwnerTake(o) \/ OwnerTimeout(o) \/ StoreQueue(o) \/ CountQueue(o)
    PROVE  Inv'
<1>. USE DEF OwnerGoto, queueVars, arrayVars, pushVars, managerVars, clientVars
<1>1. CASE CreateQueue(o) \/ OwnerTimeout(o)
  <2>1. /\ owner_pc[o] # "done"
        /\ \E next \in {"take", "failed"} : owner_pc' = [owner_pc EXCEPT ![o] = next]
    BY <1>1 DEF CreateQueue, OwnerTimeout
  <2>2. UNCHANGED <<event_queue, box, external_event_queues, external_event_queue_cnt, pushed,
                    at, event_mutex, manager, event, registered, calls>>
    BY <1>1 DEF CreateQueue, OwnerTimeout
  <2>3. TypeOK'
    BY <2>1, <2>2 DEF Inv, TypeOK
  <2>4. HolderInv' /\ PushInv'
    BY <2>1, <2>2 DEF Inv, TypeOK, HolderInv, PushInv, CallbackRunsWhileRegistered
  <2>5. ArrayInv'
    BY <2>1, <2>2 DEF Inv, TypeOK, ArrayInv, PublishedQueuesAreReal
  <2>. QED
    BY <2>3, <2>4, <2>5 DEF Inv
<1>2. CASE OwnerTake(o)
  BY <1>2, HoldersAssumption, OwnersAssumption
  DEF OwnerTake, Inv, TypeOK, HolderInv, ArrayInv, PushInv,
      PublishedQueuesAreReal, CallbackRunsWhileRegistered
<1>3. CASE StoreQueue(o)
  <2>1. external_event_queue_cnt < MaxExternal
    BY <1>3, PlaceLeft DEF StoreQueue
  <2>2. external_event_queue_cnt + 1 \in Slots
    BY <2>1, OwnersAssumption DEF Inv, TypeOK, Slots
  <2>3. /\ \A i \in 1..external_event_queue_cnt :
               external_event_queues'[i] = external_event_queues[i]
        /\ external_event_queues'[external_event_queue_cnt + 1] = o
    BY <1>3, <2>2, OwnersAssumption DEF StoreQueue, Inv, TypeOK, Slots
  <2>4. TypeOK'
    BY <1>3, <2>2 DEF StoreQueue, Inv, TypeOK
  <2>5. HolderInv' /\ PushInv'
    BY <1>3 DEF StoreQueue, Inv, TypeOK, HolderInv, PushInv, CallbackRunsWhileRegistered
  <2>6. PublishedQueuesAreReal'
    BY <1>3, <2>3 DEF StoreQueue, Inv, ArrayInv, PublishedQueuesAreReal
  <2>7. \A i \in 1..external_event_queue_cnt' :
            owner_pc'[external_event_queues'[i]] = "done"
    BY <1>3, <2>3 DEF StoreQueue, Inv, TypeOK, ArrayInv, PublishedQueuesAreReal
  <2>8. \A u \in Owners : owner_pc[u] = "count" => u = o
    BY <1>3 DEF StoreQueue, Inv, HolderInv
  <2>9. ASSUME NEW u \in Owners
        PROVE  /\ owner_pc'[u] = "count" =>
                      /\ external_event_queue_cnt' < MaxExternal
                      /\ external_event_queues'[external_event_queue_cnt' + 1] = u
               /\ owner_pc'[u] # "done" => box'[u] = <<>>
    BY <1>3, <2>1, <2>3, <2>8 DEF StoreQueue, Inv, TypeOK, ArrayInv
  <2>. QED
    BY <2>4, <2>5, <2>6, <2>7, <2>9 DEF Inv, ArrayInv
<1>4. CASE CountQueue(o)
  <2>. DEFINE n == external_event_queue_cnt
  <2>1. /\ n \in Nat /\ n < MaxExternal /\ MaxExternal \in Nat
        /\ external_event_queues[n + 1] = o
    BY <1>4, OwnersAssumption DEF CountQueue, Inv, TypeOK, ArrayInv
  <2>2. \A i \in 1..n : /\ external_event_queues[i] \in Owners
                         /\ owner_pc[external_event_queues[i]] = "done"
                         /\ external_event_queues[i] # o
    BY <1>4 DEF CountQueue, Inv, ArrayInv, PublishedQueuesAreReal
  <2>3. /\ external_event_queue_cnt' = n + 1
        /\ external_event_queues' = external_event_queues
        /\ owner_pc' = [owner_pc EXCEPT ![o] = "done"]
        /\ box' = box
    BY <1>4 DEF CountQueue
  <2>4. \A u \in Owners : u # o => owner_pc[u] \notin {"store", "count"}
    BY <1>4 DEF CountQueue, Inv, HolderInv
  <2>5. TypeOK'
    BY <1>4, <2>1 DEF CountQueue, Inv, TypeOK
  <2>6. HolderInv'
    BY <1>4, <2>4, HoldersAssumption
    DEF CountQueue, Inv, TypeOK, HolderInv, CallbackRunsWhileRegistered
  <2>7. PushInv'
    BY <1>4, <2>1 DEF CountQueue, Inv, TypeOK, PushInv
  <2>8. PublishedQueuesAreReal'
    BY <2>1, <2>2, <2>3 DEF Inv, ArrayInv, PublishedQueuesAreReal
  <2>9. \A i \in 1..external_event_queue_cnt' : owner_pc'[external_event_queues'[i]] = "done"
    BY <2>1, <2>2, <2>3 DEF Inv, TypeOK
  <2>10. \A u \in Owners :
             /\ owner_pc'[u] # "count"
             /\ owner_pc'[u] # "done" => box'[u] = <<>>
    BY <2>3, <2>4 DEF Inv, TypeOK, ArrayInv
  <2>11. ArrayInv'
    BY <2>8, <2>9, <2>10 DEF ArrayInv
  <2>. QED
    BY <2>5, <2>6, <2>7, <2>11 DEF Inv
<1>. QED
  BY <1>1, <1>2, <1>3, <1>4

LEMMA OwnerReceiveInv ==
    ASSUME Inv, NEW o \in Owners, OwnerReceive(o)
    PROVE  Inv'
<1>. USE DEF OwnerReceive, arrayVars, pushVars, managerVars, clientVars
<1>1. Tail(box[o]) \in Seq(Events) /\ Len(Tail(box[o])) <= QueueLen
  BY TailIndex, LenAssumption DEF Inv, TypeOK
<1>2. TypeOK'
  BY <1>1 DEF Inv, TypeOK
<1>. QED
  BY <1>2
  DEF Inv, TypeOK, HolderInv, ArrayInv, PushInv, PublishedQueuesAreReal,
      CallbackRunsWhileRegistered

LEMMA ClientInv ==
    ASSUME Inv, NEW k \in Clients, ClientNext(k)
    PROVE  Inv'
<1>1. /\ event_mutex' \in {k, NULL} /\ event_mutex \in {k, NULL}
      /\ manager # "call"
      /\ \A o \in Owners : owner_pc[o] \notin {"store", "count"}
  BY HoldersAssumption, OwnersAssumption
  DEF ClientNext, ClientTake, IsRegistered, Register, Unregister, Inv, HolderInv
<1>2. UNCHANGED <<event_queue, box, external_event_queues, external_event_queue_cnt, pushed,
                  at, manager, event, owner_pc>>
  BY DEF ClientNext, ClientTake, IsRegistered, Register, Unregister, queueVars, arrayVars,
         pushVars, managerVars, clientVars
<1>3. registered' \in [Producers -> BOOLEAN]
  BY DEF ClientNext, ClientTake, IsRegistered, Register, Unregister, clientVars, Inv, TypeOK
<1>4. calls' \in [Clients -> Nat]
  <2>1. calls' = calls \/ calls' = [calls EXCEPT ![k] = @ + 1]
    BY DEF ClientNext, ClientTake, IsRegistered, Register, Unregister, clientVars
  <2>2. calls \in [Clients -> Nat]
    BY DEF Inv, TypeOK
  <2>. QED
    BY <2>1, <2>2
<1>5. TypeOK'
  <2>1. event_mutex' \in Owners \cup Clients \cup {"manager", NULL}
    BY <1>1
  <2>. QED
    BY <1>2, <1>3, <1>4, <2>1 DEF Inv, TypeOK
<1>6. HolderInv'
  BY <1>1, <1>2, HoldersAssumption DEF Inv, HolderInv, CallbackRunsWhileRegistered
<1>7. ArrayInv' /\ PushInv'
  BY <1>2 DEF Inv, ArrayInv, PushInv, PublishedQueuesAreReal
<1>. QED
  BY <1>5, <1>6, <1>7 DEF Inv

LEMMA ManagerInv ==
    ASSUME Inv, ManagerNext
    PROVE  Inv'
<1>. USE DEF queueVars, arrayVars, pushVars, managerVars, clientVars
<1>1. CASE ManagerReceive
  <2>1. /\ Head(event_queue) \in Events
        /\ Tail(event_queue) \in Seq(Events) /\ Len(Tail(event_queue)) <= QueueLen
    BY <1>1, TailIndex, LenAssumption DEF ManagerReceive, Inv, TypeOK
  <2>. QED
    BY <1>1, <2>1
    DEF ManagerReceive, Inv, TypeOK, HolderInv, ArrayInv, PushInv,
        PublishedQueuesAreReal, CallbackRunsWhileRegistered
<1>2. CASE ManagerTake
  BY <1>2, HoldersAssumption, OwnersAssumption
  DEF ManagerTake, Inv, TypeOK, HolderInv, ArrayInv, PushInv,
      PublishedQueuesAreReal, CallbackRunsWhileRegistered
<1>3. CASE ManagerReturn
  BY <1>3, HoldersAssumption, OwnersAssumption
  DEF ManagerReturn, Inv, TypeOK, HolderInv, ArrayInv, PushInv,
      PublishedQueuesAreReal, CallbackRunsWhileRegistered
<1>. QED
  BY <1>1, <1>2, <1>3 DEF ManagerNext

LEMMA StutterInv ==
    ASSUME Inv, UNCHANGED vars
    PROVE  Inv'
BY DEF vars, queueVars, arrayVars, pushVars, managerVars, clientVars, Inv, TypeOK,
       HolderInv, ArrayInv, PushInv, PublishedQueuesAreReal, CallbackRunsWhileRegistered

LEMMA StepInv == Inv /\ [Next]_vars => Inv'
<1>. SUFFICES ASSUME Inv, [Next]_vars PROVE Inv'
  OBVIOUS
<1>1. CASE \E p \in Producers : ProducerNext(p)
  BY <1>1, PushInternalInv, PushExternalInv, PushReturnInv DEF ProducerNext
<1>2. CASE \E o \in Owners : OwnerNext(o)
  BY <1>2, OwnerInv, OwnerReceiveInv DEF OwnerNext
<1>3. CASE \E k \in Clients : ClientNext(k)
  BY <1>3, ClientInv
<1>4. CASE ManagerNext
  BY <1>4, ManagerInv
<1>5. CASE UNCHANGED vars
  BY <1>5, StutterInv
<1>. QED
  BY <1>1, <1>2, <1>3, <1>4, <1>5 DEF Next

(* The invariant holds in every reachable state. *)
LEMMA Invariance == SafetySpec => []Inv
<1>1. Init => Inv
  BY InitInv
<1>2. Inv /\ [Next]_vars => Inv'
  BY StepInv
<1>. QED
  BY <1>1, <1>2, PTL DEF SafetySpec

(* Every variable keeps its type, whatever the bounds. *)
THEOREM TypeCorrect == SafetySpec => []TypeOK
BY Invariance, PTL DEF Inv

(* push_event() reads the array without a lock and finds a queue in each   *)
(* entry that counts, a different one in each.                             *)
THEOREM PublishedQueuesReal == SafetySpec => []PublishedQueuesAreReal
<1>1. Inv => PublishedQueuesAreReal
  BY DEF Inv, ArrayInv
<1>. QED
  BY <1>1, Invariance, PTL

(* No callback runs once it has been removed. *)
THEOREM NoCallbackAfterUnregister == SafetySpec => []CallbackRunsWhileRegistered
<1>1. Inv => CallbackRunsWhileRegistered
  BY DEF Inv, HolderInv
<1>. QED
  BY <1>1, Invariance, PTL

-----------------------------------------------------------------------------
(* The queues stay in order. *)

LEMMA InitContent == Init => ContentInv /\ QueuesInOrder
BY DEF Init, ContentInv, QueuesInOrder, InOrder, UpTo, Below

LEMMA PushInternalContent ==
    ASSUME FullInv, NEW p \in Producers, PushInternal(p)
    PROVE  ContentInv' /\ QueuesInOrder'
<1>. DEFINE n == pushed[p] + 1
<1>1. /\ event_queue' = Sent(event_queue, <<p, n>>) /\ box' = box
      /\ pushed' = [pushed EXCEPT ![p] = n] /\ at' = [at EXCEPT ![p] = 1]
      /\ external_event_queues' = external_event_queues
      /\ external_event_queue_cnt' = external_event_queue_cnt
  BY DEF PushInternal, arrayVars
<1>2. /\ pushed \in [Producers -> Nat] /\ at \in [Producers -> 0..MaxExternal + 1]
      /\ event_queue \in Seq(Events) /\ Len(event_queue) <= QueueLen
      /\ box \in [Owners -> Seq(Events)]
      /\ external_event_queue_cnt \in Nat /\ n \in Nat
  BY OwnersAssumption DEF FullInv, Inv, TypeOK
<1>3. ASSUME NEW q \in Seq(Events), UpTo(q, p, pushed[p])
      PROVE  Below(q, p, n) /\ UpTo(q, p, n)
  <2>1. \A i \in DOMAIN q : q[i][2] \in Nat
    BY DEF Events
  <2>. QED
    BY <1>2, <1>3, <2>1 DEF UpTo, Below
<1>4. /\ InOrder(event_queue')
      /\ UpTo(event_queue', p, n)
      /\ \A r \in Producers, m \in Nat :
            r # p => (UpTo(event_queue, r, m) => UpTo(event_queue', r, m))
  BY <1>1, <1>2, <1>3, SentOrder DEF FullInv, ContentInv, QueuesInOrder
<1>5. \A o \in Owners : Below(box[o], p, n) /\ UpTo(box[o], p, n)
  BY <1>2, <1>3 DEF FullInv, ContentInv
<1>6. \A i \in 1..external_event_queue_cnt : external_event_queues[i] \in Owners
  BY DEF FullInv, Inv, ArrayInv, PublishedQueuesAreReal
<1>. HIDE DEF n
<1>7. ContentInv'
  <2>. SUFFICES ASSUME NEW r \in Producers
                PROVE  /\ UpTo(event_queue', r, pushed'[r])
                       /\ \A o \in Owners : UpTo(box[o], r, pushed'[r])
                       /\ at'[r] # 0 => \A i \in at'[r]..external_event_queue_cnt :
                              Below(box[external_event_queues[i]], r, pushed'[r])
    BY <1>1 DEF ContentInv
  <2>1. CASE r = p
    BY <2>1, <1>1, <1>2, <1>4, <1>5, <1>6
  <2>2. CASE r # p
    BY <2>2, <1>1, <1>2, <1>4 DEF FullInv, ContentInv
  <2>. QED
    BY <2>1, <2>2
<1>8. QueuesInOrder'
  BY <1>1, <1>4 DEF FullInv, QueuesInOrder
<1>. QED
  BY <1>7, <1>8

LEMMA PushExternalContent ==
    ASSUME FullInv, NEW p \in Producers, PushExternal(p)
    PROVE  ContentInv' /\ QueuesInOrder'
<1>. DEFINE n == pushed[p]
            o == external_event_queues[at[p]]
            cnt == external_event_queue_cnt
<1>1. /\ pushed \in [Producers -> Nat] /\ at \in [Producers -> 0..MaxExternal + 1]
      /\ box \in [Owners -> Seq(Events)] /\ \A u \in Owners : Len(box[u]) <= QueueLen
      /\ cnt \in Nat /\ n \in Nat /\ at[p] \in 1..cnt /\ MaxExternal \in Nat
  BY OwnersAssumption DEF FullInv, Inv, TypeOK, PushExternal
<1>2. \A i, j \in 1..cnt :
          /\ external_event_queues[i] \in Owners
          /\ external_event_queues[i] = external_event_queues[j] => i = j
  BY DEF FullInv, Inv, ArrayInv, PublishedQueuesAreReal
<1>3. o \in Owners /\ o # NULL
  BY <1>1, <1>2, OwnersAssumption
<1>4. /\ box' = [box EXCEPT ![o] = Sent(@, <<p, n>>)]
      /\ at' = [at EXCEPT ![p] = @ + 1]
      /\ event_queue' = event_queue /\ pushed' = pushed
      /\ external_event_queues' = external_event_queues
      /\ external_event_queue_cnt' = cnt
  BY <1>3 DEF PushExternal, arrayVars
<1>5. Below(box[o], p, n) /\ InOrder(box[o])
  <2>1. at[p] # 0 /\ at[p] \in at[p]..cnt
    BY <1>1
  <2>. QED
    BY <1>3, <2>1 DEF FullInv, ContentInv, QueuesInOrder
<1>6. /\ InOrder(box'[o])
      /\ UpTo(box'[o], p, n)
      /\ \A r \in Producers, m \in Nat : r # p =>
             /\ UpTo(box[o], r, m) => UpTo(box'[o], r, m)
             /\ Below(box[o], r, m) => Below(box'[o], r, m)
  BY <1>1, <1>3, <1>4, <1>5, SentOrder
<1>7. \A u \in Owners : u # o => box'[u] = box[u]
  BY <1>1, <1>4
<1>8. \A i \in at[p] + 1..cnt : external_event_queues[i] # o
  BY <1>1, <1>2
<1>. HIDE DEF o, n, cnt
<1>9. QueuesInOrder'
  BY <1>4, <1>6, <1>7 DEF FullInv, QueuesInOrder
<1>10. ContentInv'
  <2>. SUFFICES ASSUME NEW r \in Producers
                PROVE  /\ UpTo(event_queue, r, pushed[r])
                       /\ \A u \in Owners : UpTo(box'[u], r, pushed[r])
                       /\ at'[r] # 0 => \A i \in at'[r]..cnt :
                              Below(box'[external_event_queues[i]], r, pushed[r])
    BY <1>4 DEF ContentInv
  <2>1. /\ UpTo(event_queue, r, pushed[r])
        /\ \A u \in Owners : UpTo(box[u], r, pushed[r])
        /\ at[r] # 0 => \A i \in at[r]..cnt :
               Below(box[external_event_queues[i]], r, pushed[r])
    BY DEF FullInv, ContentInv, cnt
  <2>2. CASE r = p
    <3>1. at'[r] = at[r] + 1 /\ at[r] # 0
      BY <2>2, <1>1, <1>4
    <3>2. \A i \in at'[r]..cnt : /\ external_event_queues[i] \in Owners \ {o}
                                 /\ i \in at[r]..cnt
      BY <2>2, <3>1, <1>1, <1>2, <1>8
    <3>. QED
      BY <2>1, <2>2, <3>1, <3>2, <1>6, <1>7 DEF n
  <2>3. CASE r # p
    <3>1. at'[r] = at[r] /\ pushed[r] \in Nat
      BY <2>3, <1>1, <1>4
    <3>2. at[r] # 0 => \A i \in at[r]..cnt : external_event_queues[i] \in Owners
      BY <1>1, <1>2
    <3>. QED
      BY <2>1, <2>3, <3>1, <3>2, <1>6, <1>7
  <2>. QED
    BY <2>2, <2>3
<1>. QED
  BY <1>9, <1>10

LEMMA PushReturnContent ==
    ASSUME FullInv, NEW p \in Producers, PushReturn(p)
    PROVE  ContentInv' /\ QueuesInOrder'
BY DEF PushReturn, queueVars, arrayVars, FullInv, Inv, TypeOK, ContentInv, QueuesInOrder

(* A new queue is empty; before it counts, no push goes to it. *)
LEMMA OwnerContent ==
    ASSUME FullInv, NEW o \in Owners,
           CreateQueue(o) \/ OwnerTake(o) \/ OwnerTimeout(o) \/ StoreQueue(o) \/ CountQueue(o)
    PROVE  ContentInv' /\ QueuesInOrder'
<1>1. event_queue' = event_queue /\ box' = box /\ pushed' = pushed /\ at' = at
  BY DEF CreateQueue, OwnerTake, OwnerTimeout, StoreQueue, CountQueue, queueVars, pushVars
<1>2. QueuesInOrder'
  BY <1>1 DEF FullInv, QueuesInOrder
<1>3. /\ external_event_queue_cnt \in Nat /\ MaxExternal \in Nat
      /\ at \in [Producers -> 0..MaxExternal + 1]
      /\ external_event_queues \in [1..MaxExternal -> Owners \cup {NULL}]
  BY OwnersAssumption DEF FullInv, Inv, TypeOK, Slots
<1>4. \A i \in 1..external_event_queue_cnt :
          external_event_queues'[i] = external_event_queues[i]
  BY <1>3
  DEF CreateQueue, OwnerTake, OwnerTimeout, StoreQueue, CountQueue, arrayVars,
      FullInv, Inv, TypeOK
<1>5. ASSUME NEW p \in Producers, at[p] # 0, NEW i \in at[p]..external_event_queue_cnt
      PROVE  Below(box[external_event_queues'[i]], p, pushed[p])
  <2>1. i \in 1..external_event_queue_cnt
    BY <1>3, <1>5
  <2>. QED
    BY <1>4, <1>5, <2>1 DEF FullInv, ContentInv
<1>6. \/ external_event_queue_cnt' = external_event_queue_cnt
      \/ /\ external_event_queue_cnt' = external_event_queue_cnt + 1
         /\ external_event_queues'[external_event_queue_cnt + 1] = o
         /\ box[o] = <<>>
  BY DEF CreateQueue, OwnerTake, OwnerTimeout, StoreQueue, CountQueue, arrayVars,
         FullInv, Inv, ArrayInv
<1>7. ASSUME NEW p \in Producers, at[p] # 0, NEW i \in at[p]..external_event_queue_cnt'
      PROVE  Below(box[external_event_queues'[i]], p, pushed[p])
  <2>1. CASE i \in at[p]..external_event_queue_cnt
    BY <1>5, <1>7, <2>1
  <2>2. CASE i \notin at[p]..external_event_queue_cnt
    <3>1. box[external_event_queues'[i]] = <<>>
      BY <1>3, <1>6, <1>7, <2>2
    <3>. QED
      BY <3>1 DEF Below
  <2>. QED
    BY <2>1, <2>2
<1>8. ContentInv'
  BY <1>1, <1>7 DEF FullInv, ContentInv
<1>. QED
  BY <1>2, <1>8

LEMMA OwnerReceiveContent ==
    ASSUME FullInv, NEW o \in Owners, OwnerReceive(o)
    PROVE  ContentInv' /\ QueuesInOrder'
<1>1. /\ box' = [box EXCEPT ![o] = Tail(@)] /\ box[o] # <<>>
      /\ UNCHANGED <<event_queue, pushed, at, external_event_queues,
                     external_event_queue_cnt>>
  BY DEF OwnerReceive, arrayVars, pushVars
<1>2. /\ box \in [Owners -> Seq(Events)] /\ pushed \in [Producers -> Nat]
      /\ at \in [Producers -> Nat]
  BY OwnersAssumption DEF FullInv, Inv, TypeOK
<1>3. /\ InOrder(box'[o])
      /\ \A p \in Producers, n \in Nat :
             /\ UpTo(box[o], p, n) => UpTo(box'[o], p, n)
             /\ Below(box[o], p, n) => Below(box'[o], p, n)
  BY <1>1, <1>2, TailOrder DEF FullInv, QueuesInOrder
<1>4. \A u \in Owners : u # o => box'[u] = box[u]
  BY <1>1, <1>2
<1>5. \A i \in 1..external_event_queue_cnt : external_event_queues[i] \in Owners
  BY DEF FullInv, Inv, ArrayInv, PublishedQueuesAreReal
<1>6. QueuesInOrder'
  BY <1>1, <1>3, <1>4 DEF FullInv, QueuesInOrder
<1>7. ContentInv'
  <2>. SUFFICES ASSUME NEW p \in Producers
                PROVE  /\ UpTo(event_queue, p, pushed[p])
                       /\ \A u \in Owners : UpTo(box'[u], p, pushed[p])
                       /\ at[p] # 0 => \A i \in at[p]..external_event_queue_cnt :
                              Below(box'[external_event_queues[i]], p, pushed[p])
    BY <1>1 DEF ContentInv
  <2>1. /\ UpTo(event_queue, p, pushed[p])
        /\ \A u \in Owners : UpTo(box[u], p, pushed[p])
        /\ at[p] # 0 => \A i \in at[p]..external_event_queue_cnt :
               Below(box[external_event_queues[i]], p, pushed[p])
    BY DEF FullInv, ContentInv
  <2>2. \A u \in Owners :
            Below(box[u], p, pushed[p]) => Below(box'[u], p, pushed[p])
    BY <1>2, <1>3, <1>4
  <2>3. at[p] # 0 => \A i \in at[p]..external_event_queue_cnt :
                        external_event_queues[i] \in Owners
    BY <1>2, <1>5, OwnersAssumption DEF FullInv, Inv, TypeOK
  <2>. QED
    BY <2>1, <2>2, <2>3, <1>2, <1>3, <1>4
<1>. QED
  BY <1>6, <1>7

(* The other steps do not touch the external queues or a push. *)
LEMMA OtherContent ==
    ASSUME FullInv,
           ManagerNext \/ (\E k \in Clients : ClientNext(k)) \/ UNCHANGED vars
    PROVE  ContentInv' /\ QueuesInOrder'
<1>1. UNCHANGED <<box, pushed, at, external_event_queues, external_event_queue_cnt>>
  BY DEF ManagerNext, ManagerReceive, ManagerTake, ManagerReturn, ClientNext, ClientTake,
         IsRegistered, Register, Unregister, vars, queueVars, arrayVars, pushVars
<1>2. \/ event_queue' = event_queue
      \/ event_queue # <<>> /\ event_queue' = Tail(event_queue)
  BY DEF ManagerNext, ManagerReceive, ManagerTake, ManagerReturn, ClientNext, ClientTake,
         IsRegistered, Register, Unregister, vars, queueVars
<1>3. event_queue \in Seq(Events) /\ pushed \in [Producers -> Nat]
  BY DEF FullInv, Inv, TypeOK
<1>4. /\ InOrder(event_queue')
      /\ \A p \in Producers, n \in Nat : UpTo(event_queue, p, n) => UpTo(event_queue', p, n)
  BY <1>2, <1>3, TailOrder DEF FullInv, QueuesInOrder
<1>5. QueuesInOrder'
  BY <1>1, <1>4 DEF FullInv, QueuesInOrder
<1>6. ContentInv'
  BY <1>1, <1>3, <1>4 DEF FullInv, ContentInv
<1>. QED
  BY <1>5, <1>6

LEMMA FullInvariance == SafetySpec => []FullInv
<1>1. Init => FullInv
  BY InitInv, InitContent DEF FullInv
<1>2. ASSUME FullInv, [Next]_vars PROVE FullInv'
  <2>1. Inv'
    BY <1>2, StepInv DEF FullInv
  <2>2. ContentInv' /\ QueuesInOrder'
    BY <1>2, PushInternalContent, PushExternalContent, PushReturnContent, OwnerContent,
       OwnerReceiveContent, OtherContent
    DEF Next, ProducerNext, OwnerNext
  <2>. QED
    BY <2>1, <2>2 DEF FullInv
<1>. QED
  BY <1>1, <1>2, PTL DEF SafetySpec

(* Whatever overlaps, each queue has the events of a producer in the order *)
(* of their pushes, and none of them twice.                                *)
THEOREM QueuesStayInOrder == SafetySpec => []QueuesInOrder
<1>1. FullInv => QueuesInOrder
  BY DEF FullInv
<1>. QED
  BY <1>1, FullInvariance, PTL

-----------------------------------------------------------------------------
(* Refinement *)

LEMMA InitMaps == Init => B!Init
BY DEF Init, B!Init, Owed, Subscribed

LEMMA PushInternalMaps ==
    ASSUME Inv, NEW p \in Producers, PushInternal(p)
    PROVE  B!Push(p)
<1>1. /\ at[p] = 0 /\ at' = [at EXCEPT ![p] = 1]
      /\ pushed' = [pushed EXCEPT ![p] = @ + 1]
      /\ event_queue' = Sent(event_queue, <<p, pushed[p] + 1>>)
      /\ UNCHANGED <<box, external_event_queues, external_event_queue_cnt>>
  BY DEF PushInternal, arrayVars
<1>2. at \in [Producers -> Nat]
  BY OwnersAssumption DEF Inv, TypeOK
<1>3. Owed[p] = {} /\ Owed' = [Owed EXCEPT ![p] = Subscribed]
  <2>1. Owed[p] = {} /\ Owed'[p] = Subscribed
    BY <1>1, <1>2 DEF Owed, Subscribed
  <2>2. \A r \in Producers : r # p => Owed'[r] = Owed[r]
    BY <1>1, <1>2 DEF Owed
  <2>. QED
    BY <2>1, <2>2 DEF Owed
<1>4. Subscribed' = Subscribed
  BY <1>1 DEF Subscribed
<1>. QED
  BY <1>1, <1>3, <1>4 DEF B!Push, B!Offered, Sent

LEMMA PushExternalMaps ==
    ASSUME Inv, NEW p \in Producers, PushExternal(p)
    PROVE  \E o \in Owners : B!Offer(p, o)
<1>. DEFINE o == external_event_queues[at[p]]
            cnt == external_event_queue_cnt
<1>1. /\ at \in [Producers -> Nat] /\ cnt \in Nat /\ at[p] \in 1..cnt
      /\ at' = [at EXCEPT ![p] = @ + 1]
      /\ UNCHANGED <<external_event_queues, external_event_queue_cnt, pushed, event_queue>>
  BY OwnersAssumption DEF Inv, TypeOK, PushExternal, arrayVars
<1>2. o \in Owners /\ o # NULL
  BY <1>1, OwnersAssumption DEF Inv, ArrayInv, PublishedQueuesAreReal
<1>3. box' = [box EXCEPT ![o] = Sent(@, <<p, pushed[p]>>)]
  BY <1>2 DEF PushExternal
<1>4. Owed[p] = {external_event_queues[i] : i \in at[p]..cnt}
  BY <1>1 DEF Owed
<1>5. {external_event_queues[i] : i \in at[p] + 1..cnt} = Owed[p] \ {o}
  BY <1>1, <1>4 DEF Inv, ArrayInv, PublishedQueuesAreReal
<1>6. o \in Owed[p]
  BY <1>1, <1>4
<1>7. Owed' = [Owed EXCEPT ![p] = @ \ {o}]
  <2>1. Owed'[p] = Owed[p] \ {o}
    BY <1>1, <1>5 DEF Owed
  <2>2. \A r \in Producers : r # p => Owed'[r] = Owed[r]
    BY <1>1 DEF Owed
  <2>. QED
    BY <2>1, <2>2 DEF Owed
<1>8. Subscribed' = Subscribed
  BY <1>1 DEF Subscribed
<1>. HIDE DEF o, cnt
<1>9. B!Offer(p, o)
  BY <1>1, <1>3, <1>6, <1>7, <1>8 DEF B!Offer, B!Offered, Sent
<1>. QED
  BY <1>2, <1>9

LEMMA PushReturnMaps ==
    ASSUME Inv, NEW p \in Producers, PushReturn(p)
    PROVE  UNCHANGED B!vars
<1>1. /\ at \in [Producers -> Nat] /\ external_event_queue_cnt \in Nat
      /\ at[p] > external_event_queue_cnt /\ at' = [at EXCEPT ![p] = 0]
      /\ UNCHANGED <<external_event_queues, external_event_queue_cnt, pushed, event_queue,
                     box>>
  BY OwnersAssumption DEF Inv, TypeOK, PushReturn, arrayVars, queueVars
<1>2. Owed'[p] = {} /\ Owed[p] = {}
  BY <1>1 DEF Owed
<1>3. Owed' = Owed
  BY <1>1, <1>2 DEF Owed
<1>. QED
  BY <1>1, <1>3 DEF B!vars, Subscribed

LEMMA CountQueueMaps ==
    ASSUME Inv, NEW o \in Owners, CountQueue(o)
    PROVE  B!Subscribe(o)
<1>. DEFINE cnt == external_event_queue_cnt
            reaching == {p \in Producers : at[p] # 0}
<1>1. /\ at \in [Producers -> Nat] /\ cnt \in Nat
      /\ external_event_queue_cnt' = cnt + 1
      /\ external_event_queues[cnt + 1] = o
      /\ owner_pc[o] # "done"
      /\ UNCHANGED <<external_event_queues, pushed, at, event_queue, box>>
  BY OwnersAssumption DEF Inv, TypeOK, ArrayInv, CountQueue, queueVars, pushVars
<1>2. o \notin Subscribed
  BY <1>1 DEF Inv, ArrayInv, Subscribed
<1>3. Subscribed' = Subscribed \cup {o}
  BY <1>1 DEF Subscribed
<1>4. reaching \in SUBSET {p \in Producers : pushed[p] > 0}
  BY DEF Inv, PushInv
<1>5. ASSUME NEW p \in Producers
      PROVE  Owed'[p] = IF p \in reaching THEN Owed[p] \cup {o} ELSE Owed[p]
  <2>1. CASE at[p] = 0
    BY <1>1, <2>1 DEF Owed
  <2>2. CASE at[p] # 0
    <3>1. at[p] <= cnt + 1
      BY <2>2 DEF Inv, PushInv
    <3>2. at[p]..cnt + 1 = (at[p]..cnt) \cup {cnt + 1}
      BY <1>1, <3>1
    <3>3. Owed'[p] = {external_event_queues[i] : i \in at[p]..cnt + 1}
      BY <1>1, <2>2 DEF Owed
    <3>. QED
      BY <1>1, <2>2, <3>2, <3>3 DEF Owed
  <2>. QED
    BY <2>1, <2>2
<1>. HIDE DEF reaching, cnt
<1>6. Owed' = [p \in Producers |-> IF p \in reaching THEN Owed[p] \cup {o} ELSE Owed[p]]
  BY <1>5 DEF Owed
<1>. QED
  BY <1>1, <1>2, <1>3, <1>4, <1>6 DEF B!Subscribe

(* The other steps of an owner are not seen by the broadcast. *)
LEMMA OwnerMaps ==
    ASSUME Inv, NEW o \in Owners,
           CreateQueue(o) \/ OwnerTake(o) \/ OwnerTimeout(o) \/ StoreQueue(o)
    PROVE  UNCHANGED B!vars
<1>1. UNCHANGED <<event_queue, box, pushed, at, external_event_queue_cnt>>
  BY DEF CreateQueue, OwnerTake, OwnerTimeout, StoreQueue, queueVars, pushVars, arrayVars
<1>2. /\ at \in [Producers -> Nat] /\ external_event_queue_cnt \in Nat
      /\ external_event_queues \in [1..MaxExternal -> Owners \cup {NULL}]
  BY OwnersAssumption DEF Inv, TypeOK, Slots
<1>3. \A i \in 1..external_event_queue_cnt :
          external_event_queues'[i] = external_event_queues[i]
  BY <1>2, OwnersAssumption
  DEF CreateQueue, OwnerTake, OwnerTimeout, StoreQueue, arrayVars, Inv, TypeOK
<1>4. Subscribed' = Subscribed
  BY <1>1, <1>3 DEF Subscribed
<1>5. ASSUME NEW p \in Producers PROVE Owed'[p] = Owed[p]
  <2>1. CASE at[p] = 0
    BY <1>1, <2>1 DEF Owed
  <2>2. CASE at[p] # 0
    <3>1. \A i \in at[p]..external_event_queue_cnt :
              external_event_queues'[i] = external_event_queues[i]
      BY <1>2, <1>3, <2>2
    <3>2. /\ Owed'[p] = {external_event_queues'[i] : i \in at[p]..external_event_queue_cnt}
          /\ Owed[p] = {external_event_queues[i] : i \in at[p]..external_event_queue_cnt}
      BY <1>1, <2>2 DEF Owed
    <3>. QED
      BY <3>1, <3>2
  <2>. QED
    BY <2>1, <2>2
<1>6. Owed' = Owed
  BY <1>5 DEF Owed
<1>. QED
  BY <1>1, <1>4, <1>6 DEF B!vars

LEMMA ReceiveMaps ==
    /\ ManagerReceive => B!Handle
    /\ \A o \in Owners : OwnerReceive(o) => B!Read(o)
<1>1. ManagerReceive \/ (\E o \in Owners : OwnerReceive(o)) =>
          UNCHANGED <<pushed, at, external_event_queues, external_event_queue_cnt>>
  BY DEF ManagerReceive, OwnerReceive, arrayVars, pushVars
<1>2. UNCHANGED <<pushed, at, external_event_queues, external_event_queue_cnt>> =>
          UNCHANGED <<pushed, Subscribed, Owed>>
  BY DEF Owed, Subscribed
<1>. QED
  BY <1>1, <1>2 DEF ManagerReceive, OwnerReceive, B!Handle, B!Read

LEMMA OtherMaps ==
    ASSUME ManagerTake \/ ManagerReturn \/ (\E k \in Clients : ClientNext(k)) \/ UNCHANGED vars
    PROVE  UNCHANGED B!vars
BY DEF ManagerTake, ManagerReturn, ClientNext, ClientTake, IsRegistered, Register, Unregister,
       vars, queueVars, arrayVars, pushVars, B!vars, Owed, Subscribed

(* The event manager implements the broadcast, for any number of producers *)
(* and of owners that find a place.                                        *)
THEOREM RefinesBroadcast == SafetySpec => ImplementsBroadcast
<1>1. Init => B!Init
  BY InitMaps
<1>2. ASSUME Inv, [Next]_vars PROVE [B!Next]_(B!vars)
  <2>1. CASE \E p \in Producers : ProducerNext(p)
    BY <1>2, <2>1, PushInternalMaps, PushExternalMaps, PushReturnMaps
    DEF ProducerNext, B!Next
  <2>2. CASE \E o \in Owners : OwnerNext(o)
    BY <1>2, <2>2, CountQueueMaps, OwnerMaps, ReceiveMaps DEF OwnerNext, B!Next
  <2>3. CASE ManagerNext
    BY <1>2, <2>3, ReceiveMaps, OtherMaps DEF ManagerNext, B!Next
  <2>4. CASE (\E k \in Clients : ClientNext(k)) \/ UNCHANGED vars
    BY <2>4, OtherMaps
  <2>. QED
    BY <1>2, <2>1, <2>2, <2>3, <2>4 DEF Next
<1>. QED
  BY <1>1, <1>2, Invariance, PTL DEF SafetySpec, ImplementsBroadcast, B!SafetySpec

(* All that is safe about delivery, at once. *)
THEOREM DeliveryIsRight == SafetySpec => []DeliveryRight
BY TypeCorrect, PublishedQueuesReal, NoCallbackAfterUnregister, QueuesStayInOrder, PTL
DEF DeliveryRight

-----------------------------------------------------------------------------
(* The buttons: periods and keys.                                            *)
LEMMA Periods ==
    /\ Debounce \in Nat /\ Short \in Nat /\ Period \in Nat /\ Width \in Nat
    /\ TimerQueue \in Nat /\ TimerQueue > 0
    /\ 0 < Debounce /\ Debounce <= Short /\ Short = Period /\ Period < Width /\ 2 < Width
BY KeysAssumption DEF K!ButtonsAssumption

LEMMA Keys ==
    /\ K!Buttons = {Plus, Pair}
    /\ Plus # Pair /\ Off # Plus /\ Off \notin Nat
    /\ Plus \notin {Pair} /\ Pair \in {Pair}
BY KeysAssumption DEF K!ButtonsAssumption, K!Buttons

LEMMA RemainderType ==
    ASSUME NEW x \in Nat, NEW w \in Nat, 0 < w
    PROVE  x % w \in 0 .. w - 1
BY SMTT(30)

(* What is waiting after one more command, and after the first was taken.   *)
LEMMA PostType ==
    ASSUME K!TypeOK, NEW start \in BOOLEAN, K!Post(Plus, start)
    PROVE  /\ commands' \in Seq(K!Command) /\ Len(commands') <= TimerQueue
           /\ unstarted' \in [{Plus} -> BOOLEAN]
<1>1. [start |-> start, key |-> Plus, age |-> 0] \in K!Command
  BY Periods DEF K!Command
<1>2. commands \in Seq(K!Command) /\ Len(commands) <= TimerQueue /\ unstarted \in [{Plus} -> BOOLEAN]
  BY DEF K!TypeOK
<1>. DEFINE c == [start |-> start, key |-> Plus, age |-> 0]
<1>3. commands' = IF Len(commands) < TimerQueue THEN Append(commands, c) ELSE commands
  BY DEF K!Post
<1>4. unstarted' \in [{Plus} -> BOOLEAN]
  BY <1>2 DEF K!Post
<1>. HIDE DEF c
<1>. QED
  BY <1>1, <1>2, <1>3, <1>4, Periods DEF c

LEMMA GivesType ==
    ASSUME K!TypeOK, NEW b \in K!Buttons, K!Gives(b) \/ K!GivesLong(b) \/ UNCHANGED <<given, longs>>
    PROVE  given' \in [K!Buttons -> 0 .. Width] /\ longs' \in [K!Buttons -> 0 .. Width]
<1>1. /\ given \in [K!Buttons -> 0 .. Width] /\ longs \in [K!Buttons -> 0 .. Width]
  BY DEF K!TypeOK
<1>. QED
  BY <1>1, Periods DEF K!Gives, K!GivesLong

LEMMA EdgeType ==
    ASSUME K!TypeOK, NEW b \in K!Buttons, K!Edge(b)
    PROVE  K!TypeOK'
<1>1. down' \in [K!Buttons -> BOOLEAN] /\ intr' \in [K!Buttons -> BOOLEAN]
  BY DEF K!Edge, K!TypeOK
<1>2. /\ hold' \in [K!Buttons -> 0 .. Width - 1]
      /\ given' \in [K!Buttons -> 0 .. Width] /\ longs' \in [K!Buttons -> 0 .. Width]
      /\ unstarted' \in [{Plus} -> BOOLEAN]
  BY Periods DEF K!Edge, K!TypeOK, K!history, K!events
<1>3. /\ UNCHANGED <<now, press_time, left, commands, callback>>
  BY DEF K!Edge, K!timers
<1>. QED
  BY <1>1, <1>2, <1>3 DEF K!TypeOK

LEMMA TickType ==
    ASSUME K!TypeOK, K!Tick
    PROVE  K!TypeOK'
<1>1. now' \in 0 .. Width - 1
  BY RemainderType, Periods DEF K!Tick, K!TypeOK
<1>2. hold' \in [K!Buttons -> 0 .. Width - 1]
  BY Periods DEF K!Tick, K!TypeOK
<1>3. left' \in [{Plus} -> 0 .. Period \cup {Off}]
  BY Periods, Keys DEF K!Tick, K!TypeOK
<1>4. commands' \in Seq(K!Command) /\ Len(commands') <= TimerQueue
  <2>1. commands \in Seq(K!Command) /\ Len(commands) <= TimerQueue
    BY DEF K!TypeOK
  <2>2. commands' = [i \in 1 .. Len(commands) |-> K!Older(commands[i])]
    BY <2>1 DEF K!Tick
  <2>3. ASSUME NEW i \in 1 .. Len(commands)
        PROVE  K!Older(commands[i]) \in K!Command
    <3>1. commands[i] \in K!Command
      BY <2>1
    <3>. QED
      BY <3>1, Periods DEF K!Command, K!Older
  <2>4. commands' \in [1 .. Len(commands) -> K!Command]
    BY <2>2, <2>3
  <2>. QED
    BY <2>1, <2>4
<1>5. UNCHANGED <<down, intr, press_time, callback, given, longs, unstarted>>
  BY DEF K!Tick, K!pins, K!events
<1>. QED
  BY <1>1, <1>2, <1>3, <1>4, <1>5 DEF K!TypeOK

LEMMA IsrType ==
    ASSUME K!TypeOK, NEW b \in K!Buttons, K!Isr(b)
    PROVE  K!TypeOK'
<1>1. intr' \in [K!Buttons -> BOOLEAN] /\ press_time' \in [K!Buttons -> 0 .. Width - 1]
  BY DEF K!Isr, K!Pressed, K!Released, K!TypeOK
<1>2. /\ commands' \in Seq(K!Command) /\ Len(commands') <= TimerQueue
      /\ unstarted' \in [{Plus} -> BOOLEAN]
  <2>1. CASE UNCHANGED <<commands, unstarted>>
    BY <2>1 DEF K!TypeOK
  <2>2. CASE \E start \in BOOLEAN : K!Post(Plus, start)
    BY <2>2, PostType
  <2>. QED
    BY <2>1, <2>2, Keys DEF K!Isr, K!Pressed, K!Released
<1>3. given' \in [K!Buttons -> 0 .. Width] /\ longs' \in [K!Buttons -> 0 .. Width]
  BY GivesType DEF K!Isr, K!Pressed, K!Released, K!events
<1>4. UNCHANGED <<now, down, left, callback, hold>>
  BY DEF K!Isr, K!Pressed, K!Released
<1>. QED
  BY <1>1, <1>2, <1>3, <1>4 DEF K!TypeOK

LEMMA TimerType ==
    ASSUME K!TypeOK, K!TimerTask
    PROVE  K!TypeOK'
<1>1. CASE K!TakeCommand
  <2>1. /\ commands \in Seq(K!Command) /\ commands # <<>> /\ Len(commands) <= TimerQueue
        /\ callback \in {Plus, Off} /\ left \in [{Plus} -> 0 .. Period \cup {Off}]
    BY <1>1 DEF K!TakeCommand, K!TypeOK
  <2>2. /\ Head(commands) \in K!Command
        /\ Head(commands).key = Plus /\ Head(commands).age \in 0 .. Period
    <3>1. Head(commands) \in K!Command
      BY <2>1
    <3>. QED
      BY <3>1 DEF K!Command
  <2>3. commands' \in Seq(K!Command) /\ Len(commands') <= TimerQueue
    BY <1>1, <2>1, Periods DEF K!TakeCommand
  <2>4. left' \in [{Plus} -> 0 .. Period \cup {Off}]
    BY <1>1, <2>1, <2>2, Periods DEF K!TakeCommand
  <2>5. /\ callback' \in {Plus, Off}
        /\ K!Gives(Plus) \/ UNCHANGED <<given, longs>>
    BY <1>1, <2>1, <2>2 DEF K!TakeCommand, K!Callback, K!NoCallback, K!events
  <2>6. given' \in [K!Buttons -> 0 .. Width] /\ longs' \in [K!Buttons -> 0 .. Width]
    BY <2>5, Keys, GivesType
  <2>7. UNCHANGED <<now, down, intr, press_time, hold, unstarted>>
    BY <1>1 DEF K!TakeCommand, K!pins
  <2>. QED
    BY <2>3, <2>4, <2>5, <2>6, <2>7 DEF K!TypeOK
<1>2. CASE K!Restart
  <2>1. callback = Plus
    BY <1>2 DEF K!Restart, K!TypeOK
  <2>2. /\ commands' \in Seq(K!Command) /\ Len(commands') <= TimerQueue
        /\ unstarted' \in [{Plus} -> BOOLEAN]
    BY <1>2, <2>1, PostType DEF K!Restart
  <2>3. callback' \in {Plus, Off}
    BY <1>2 DEF K!Restart
  <2>4. UNCHANGED <<now, down, intr, press_time, left, hold, given, longs>>
    BY <1>2 DEF K!Restart, K!pins, K!events
  <2>. QED
    BY <2>2, <2>3, <2>4 DEF K!TypeOK
<1>3. CASE K!Expire(Plus)
  <2>1. left' \in [{Plus} -> 0 .. Period \cup {Off}]
    BY <1>3 DEF K!Expire, K!TypeOK
  <2>2. /\ callback' \in {Plus, Off}
        /\ K!Gives(Plus) \/ UNCHANGED <<given, longs>>
    BY <1>3 DEF K!Expire, K!Callback, K!NoCallback, K!events, K!TypeOK
  <2>3. given' \in [K!Buttons -> 0 .. Width] /\ longs' \in [K!Buttons -> 0 .. Width]
    BY <2>2, Keys, GivesType
  <2>4. UNCHANGED <<now, down, intr, press_time, commands, hold, unstarted>>
    BY <1>3 DEF K!Expire, K!pins
  <2>. QED
    BY <2>1, <2>2, <2>3, <2>4 DEF K!TypeOK
<1>. QED
  BY <1>1, <1>2, <1>3 DEF K!TimerTask

-----------------------------------------------------------------------------
(* Arithmetic of periods and time stamps.                                    *)
LEMMA OneMorePeriod ==
    \A g, p \in Nat : (g + 1) * p = (g * p) + p /\ g * p \in Nat /\ 0 * p = 0
OBVIOUS

LEMMA PeriodsMonotone ==
    ASSUME NEW m \in Nat, NEW n \in Nat, NEW p \in Nat, m < n
    PROVE  (m * p) + p <= n * p
<1>1. PICK k \in Nat : n = m + 1 + k
  <2>1. n = m + 1 + (n - m - 1) /\ n - m - 1 \in Nat
    OBVIOUS
  <2>. QED
    BY <2>1
<1>2. n * p = (m * p) + p + (k * p) /\ k * p \in Nat /\ m * p \in Nat
  BY <1>1
<1>. QED
  BY <1>2

LEMMA PeriodsIn ==
    ASSUME NEW h \in Nat, NEW p \in Nat, 0 < p
    PROVE  /\ h \div p \in Nat
           /\ (h \div p) * p <= h /\ h < ((h \div p) * p) + p
<1>1. h = p * (h \div p) + (h % p) /\ h \div p \in Nat
  OBVIOUS
<1>2. h % p \in 0 .. p - 1
  OBVIOUS
<1>3. PICK q \in Nat : q = h \div p
  BY <1>1
<1>4. PICK r \in 0 .. p - 1 : r = h % p
  BY <1>2
<1>5. h = p * q + r /\ p * q = q * p /\ q * p \in Nat
  BY <1>1, <1>3, <1>4
<1>. QED
  BY <1>3, <1>5

(* As many steps as full periods are no more than the quotient.              *)
LEMMA FullPeriods ==
    ASSUME NEW g \in Nat, NEW h \in Nat, NEW p \in Nat, 0 < p, g * p <= h
    PROVE  g <= h \div p
<1>1. PICK q \in Nat : q = h \div p /\ h < (q * p) + p
  BY PeriodsIn
<1>2. q < g => (q * p) + p <= g * p
  BY PeriodsMonotone
<1>3. q * p \in Nat /\ g * p \in Nat
  OBVIOUS
<1>. QED
  BY <1>1, <1>2, <1>3

(* ... and as many as periods begun are no fewer than it was before the end. *)
LEMMA BegunPeriods ==
    ASSUME NEW g \in Nat, NEW h \in Nat \ {0}, NEW p \in Nat, 0 < p, h <= (g * p) + p
    PROVE  (h - 1) \div p <= g
<1>1. PICK i \in Nat : i = h - 1
  OBVIOUS
<1>2. PICK q \in Nat : q = i \div p /\ q * p <= i
  BY PeriodsIn
<1>3. g < q => (g * p) + p <= q * p
  BY PeriodsMonotone
<1>4. q * p \in Nat /\ g * p \in Nat
  OBVIOUS
<1>. QED
  BY <1>1, <1>2, <1>3, <1>4

LEMMA Wrapped ==
    ASSUME NEW w \in Nat, 0 < w, NEW x \in 0 .. 2 * w - 1
    PROVE  x % w = IF x < w THEN x ELSE x - w
<1>1. CASE x < w
  BY <1>1
<1>2. CASE ~(x < w)
  <2>1. PICK r \in 0 .. w - 1 : x = w + r /\ r = x - w
    BY <1>2
  <2>2. (w * 1 + r) % w = r
    OBVIOUS
  <2>. QED
    BY <1>2, <2>1, <2>2
<1>. QED
  BY <1>1, <1>2

LEMMA SinceThen ==
    ASSUME NEW w \in Nat, 0 < w, NEW n \in 0 .. w - 1, NEW p \in 0 .. w - 1
    PROVE  (n + w - p) % w = IF p <= n THEN n - p ELSE n + w - p
<1>1. PICK x \in 0 .. 2 * w - 1 : x = n + w - p
  OBVIOUS
<1>. QED
  BY <1>1, Wrapped

(* One tick later one more has passed, until the time stamps meet.           *)
LEMMA OneTickMore ==
    ASSUME NEW w \in Nat, 0 < w, NEW n \in 0 .. w - 1, NEW p \in 0 .. w - 1,
           NEW m \in 0 .. w - 1, m = (n + 1) % w,
           NEW h \in 0 .. w - 2, (n + w - p) % w = h
    PROVE  (m + w - p) % w = h + 1
<1>1. m = IF n + 1 < w THEN n + 1 ELSE 0
  BY Wrapped
<1>2. h = IF p <= n THEN n - p ELSE n + w - p
  BY SinceThen
<1>3. (m + w - p) % w = IF p <= m THEN m - p ELSE m + w - p
  BY SinceThen
<1>. QED
  BY <1>1, <1>2, <1>3

-----------------------------------------------------------------------------
(* What a step does to the queue's last command.                             *)
LEMMA LastType ==
    ASSUME K!TypeOK, commands # <<>>
    PROVE  Last \in K!Command /\ Last.start \in BOOLEAN /\ Last.age \in 0 .. Period
           /\ Last.key = Plus
<1>1. Last \in K!Command
  BY DEF K!TypeOK, Last
<1>. QED
  BY <1>1 DEF K!Command

(* Whatever waits is a command of the volume button.                         *)
LEMMA WaitingIsPlus ==
    ASSUME K!TypeOK, NEW q \in Seq(K!Command), q # <<>>
    PROVE  \E i \in DOMAIN q : q[i].key = Plus
<1>1. 1 \in DOMAIN q /\ q[1] \in K!Command
  OBVIOUS
<1>. QED
  BY <1>1 DEF K!Command

LEMMA PostedLast ==
    ASSUME K!TypeOK, NEW start \in BOOLEAN, K!Post(Plus, start)
    PROVE  /\ commands' # <<>>
           /\ \/ Last'.start = start /\ Last'.age = 0
                 /\ unstarted'[Plus] = unstarted[Plus]
              \/ commands' = commands /\ (start => unstarted'[Plus])
                 /\ (~start => unstarted'[Plus] = unstarted[Plus])
           /\ \A i \in DOMAIN commands' : \/ commands'[i].age = 0
                                          \/ i \in DOMAIN commands /\ commands'[i] = commands[i]
<1>. DEFINE c == [start |-> start, key |-> Plus, age |-> 0]
<1>1. /\ c \in K!Command /\ c.start = start /\ c.age = 0
  BY Periods DEF K!Command
<1>2. /\ commands \in Seq(K!Command) /\ Len(commands) <= TimerQueue
      /\ unstarted \in [{Plus} -> BOOLEAN]
  BY DEF K!TypeOK
<1>3. /\ commands' = IF Len(commands) < TimerQueue THEN Append(commands, c) ELSE commands
      /\ unstarted' = [unstarted EXCEPT ![Plus] = @ \/ (start /\ Len(commands) = TimerQueue)]
  BY DEF K!Post
<1>. HIDE DEF c
<1>4. CASE Len(commands) < TimerQueue
  <2>1. commands' = Append(commands, c) /\ unstarted'[Plus] = unstarted[Plus]
    BY <1>2, <1>3, <1>4
  <2>2. /\ commands' # <<>> /\ commands'[Len(commands')] = c
        /\ \A i \in DOMAIN commands' :
              commands'[i] = c \/ (i \in DOMAIN commands /\ commands'[i] = commands[i])
    BY <1>1, <1>2, <2>1
  <2>. QED
    BY <1>1, <2>1, <2>2 DEF Last
<1>5. CASE ~(Len(commands) < TimerQueue)
  <2>1. commands' = commands /\ Len(commands) = TimerQueue
    BY <1>2, <1>3, <1>5, Periods
  <2>2. commands # <<>>
    BY <1>2, <2>1, Periods
  <2>3. /\ start => unstarted'[Plus]
        /\ ~start => unstarted'[Plus] = unstarted[Plus]
    BY <1>2, <1>3, <2>1
  <2>. QED
    BY <2>1, <2>2, <2>3
<1>. QED
  BY <1>4, <1>5

LEMMA TakenLast ==
    ASSUME K!TypeOK, commands # <<>>, commands' = Tail(commands)
    PROVE  /\ commands' # <<>> => Last' = Last
           /\ commands' = <<>> => Last = Head(commands)
           /\ \A i \in DOMAIN commands' : i + 1 \in DOMAIN commands
                                          /\ commands'[i] = commands[i + 1]
<1>1. commands \in Seq(K!Command)
  BY DEF K!TypeOK
<1>2. /\ Len(commands') = Len(commands) - 1 /\ Len(commands) \in Nat \ {0}
      /\ commands' \in Seq(K!Command) /\ Head(commands) = commands[1]
      /\ \A i \in 1 .. Len(commands) - 1 : commands'[i] = commands[i + 1]
  BY <1>1
<1>3. CASE Len(commands) = 1
  <2>1. commands' = <<>>
    BY <1>2, <1>3
  <2>. QED
    BY <1>2, <1>3, <2>1 DEF Last
<1>4. CASE Len(commands) > 1
  <2>5. PICK m \in Nat : m = Len(commands) /\ m > 1
    BY <1>2, <1>4
  <2>6. m - 1 \in Nat \ {0} /\ (m - 1) + 1 = m
    BY <2>5
  <2>1. PICK n \in Nat \ {0} : n = Len(commands) - 1 /\ n + 1 = Len(commands)
    BY <2>5, <2>6
  <2>3. commands' # <<>> /\ Len(commands') = n
    BY <1>2, <2>1
  <2>4. commands'[n] = commands[n + 1]
    BY <1>2, <2>1
  <2>2. \A i \in DOMAIN commands' : i + 1 \in DOMAIN commands
                                     /\ commands'[i] = commands[i + 1]
    BY <1>1, <1>2
  <2>. QED
    BY <2>1, <2>2, <2>3, <2>4 DEF Last
<1>. QED
  BY <1>2, <1>3, <1>4

LEMMA OlderLast ==
    ASSUME K!TypeOK, K!Tick
    PROVE  /\ commands' = <<>> <=> commands = <<>>
           /\ commands # <<>> => /\ Last'.start = Last.start
                                 /\ Last'.age = IF Last.age < Period THEN Last.age + 1
                                                ELSE Period
<1>1. commands \in Seq(K!Command)
  BY DEF K!TypeOK
<1>2. commands' = [i \in 1 .. Len(commands) |-> K!Older(commands[i])]
  BY <1>1 DEF K!Tick
<1>3. /\ Len(commands') = Len(commands) /\ commands' \in Seq({K!Older(commands[i]) : i \in 1 .. Len(commands)})
  BY <1>1, <1>2
<1>4. commands' = <<>> <=> commands = <<>>
  BY <1>1, <1>2, <1>3
<1>5. commands # <<>> => Last' = K!Older(Last)
  BY <1>1, <1>2, <1>3 DEF Last
<1>. QED
  BY <1>4, <1>5 DEF K!Older

(* What the variables of the volume button are.                              *)
LEMMA PlusTypes ==
    ASSUME K!TypeOK
    PROVE  /\ down[Plus] \in BOOLEAN /\ intr[Plus] \in BOOLEAN
           /\ hold[Plus] \in 0 .. Width - 1 /\ given[Plus] \in 0 .. Width
           /\ left[Plus] \in 0 .. Period \/ left[Plus] = Off
           /\ unstarted[Plus] \in BOOLEAN /\ callback \in {Plus, Off}
           /\ hold[Plus] \in Nat /\ given[Plus] \in Nat
           /\ press_time[Plus] \in 0 .. Width - 1 /\ now \in 0 .. Width - 1
BY Keys, Periods DEF K!TypeOK

-----------------------------------------------------------------------------
(* Late interrupts and a late timer task.                                    *)
LEMMA LateEdge ==
    ASSUME K!TypeOK, StepsNotEarly, K!Edge(Plus)
    PROVE  StepsNotEarly'
<1>1. /\ intr'[Plus] = TRUE /\ down'[Plus] = ~down[Plus]
  BY Keys DEF K!Edge, K!TypeOK
<1>2. CASE down[Plus]
  <2>1. UNCHANGED <<hold, given>>
    BY <1>2 DEF K!Edge, K!history, K!events
  <2>2. Full' = Full
    BY <2>1 DEF Full
  <2>. QED
    BY <1>1, <1>2, <2>1, <2>2 DEF StepsNotEarly, Handled
<1>3. CASE ~down[Plus]
  <2>1. hold'[Plus] = 0 /\ given'[Plus] = 0
    BY <1>3, Keys DEF K!Edge, K!TypeOK
  <2>2. Full' = 0
    BY <2>1, OneMorePeriod, Periods DEF Full
  <2>. QED
    BY <1>1, <1>3, <2>1, <2>2 DEF StepsNotEarly, Handled
<1>. QED
  BY <1>2, <1>3

LEMMA LateTick ==
    ASSUME K!TypeOK, StepsNotEarly, K!Tick, Measured(Plus)'
    PROVE  StepsNotEarly'
<1>1. PICK h \in Nat, g \in Nat, f \in Nat :
          h = hold[Plus] /\ g = given[Plus] /\ f = Full /\ f = g * Period
  BY PlusTypes, OneMorePeriod, Periods DEF Full
<1>2. UNCHANGED <<down, intr, given>>
  BY DEF K!Tick, K!pins, K!events
<1>3. Full' = f
  BY <1>1, <1>2 DEF Full
<1>4. hold'[Plus] = IF down[Plus] THEN h + 1 ELSE h
  BY <1>1, Keys, PlusTypes, Periods DEF K!Tick, K!TypeOK, Measured
<1>5. CASE ~down[Plus]
  BY <1>1, <1>2, <1>3, <1>4, <1>5 DEF StepsNotEarly, Handled
<1>6. CASE down[Plus]
  <2>1. h + 1 \in Nat /\ hold'[Plus] = h + 1
    BY <1>4, <1>6
  <2>2. commands # <<>> /\ Last.start /\ ~intr[Plus] => f + Last'.age <= h + 1
    BY <1>1, <1>6, OlderLast, LastType, Periods DEF StepsNotEarly
  <2>3. left'[Plus] = IF left[Plus] \in {0, Off} THEN left[Plus] ELSE left[Plus] - 1
    BY DEF K!Tick
  <2>4. ASSUME commands = <<>>, left'[Plus] # Off, ~intr[Plus]
        PROVE  f + (Period - left'[Plus]) <= h + 1
    <3>1. left[Plus] # Off
      BY <2>3, <2>4
    <3>2. PICK n \in 0 .. Period : n = left[Plus]
      BY <3>1, PlusTypes
    <3>3. f + (Period - n) <= h
      BY <1>1, <1>6, <2>4, <3>1, <3>2 DEF StepsNotEarly
    <3>4. n = 0 \/ left'[Plus] = n - 1
      BY <2>3, <3>1, <3>2
    <3>5. n = 0 => left'[Plus] = n
      BY <2>3, <3>2
    <3>6. PICK m \in Nat : m = left'[Plus] /\ m >= n - 1
      BY <3>2, <3>4, <3>5
    <3>. QED
      BY <3>2, <3>3, <3>6, Periods
  <2>. QED
    BY <1>1, <1>2, <1>3, <1>6, <2>1, <2>2, <2>4, OlderLast DEF StepsNotEarly, Handled
<1>. QED
  BY <1>5, <1>6

LEMMA LatePressed ==
    ASSUME K!TypeOK, StepsNotEarly, K!Pressed(Plus), ~unstarted'[Plus]
    PROVE  StepsNotEarly'
<1>1. /\ intr'[Plus] = FALSE /\ down[Plus] /\ intr[Plus]
      /\ UNCHANGED <<down, hold, given, left>>
  BY Keys DEF K!Pressed, K!TypeOK, K!events
<1>2. Full = 0 /\ Full' = 0 /\ hold[Plus] \in Nat
  BY <1>1, OneMorePeriod, Periods, PlusTypes DEF Full, StepsNotEarly
<1>3. K!Post(Plus, TRUE)
  BY Keys DEF K!Pressed
<1>4. commands' # <<>> /\ Last'.age = 0
  BY <1>3, PostedLast
<1>. QED
  BY <1>1, <1>2, <1>4 DEF StepsNotEarly, Handled

LEMMA LateReleased ==
    ASSUME K!TypeOK, StepsNotEarly, K!Released(Plus)
    PROVE  StepsNotEarly'
<1>1. /\ intr'[Plus] = FALSE /\ ~down[Plus] /\ intr[Plus]
      /\ UNCHANGED <<down, hold>>
  BY Keys DEF K!Released, K!TypeOK
<1>2. PICK h \in Nat, g \in Nat : h = hold[Plus] /\ g = given[Plus] /\ g * Period <= h
  BY <1>1, PlusTypes DEF StepsNotEarly, Handled, Full
<1>3. PICK q \in Nat : q = h \div Period /\ g <= q
  BY <1>2, FullPeriods, PeriodsIn, Periods
<1>4. PICK n \in Nat : n = given'[Plus] /\ n <= g + 1
  <2>1. given \in [K!Buttons -> 0 .. Width] /\ Plus \in K!Buttons
    BY Keys DEF K!TypeOK
  <2>2. CASE K!Gives(Plus)
    BY <1>2, <2>1, <2>2 DEF K!Gives
  <2>3. CASE given' = given
    BY <1>2, <2>3
  <2>. QED
    BY <2>2, <2>3 DEF K!Released, K!GivesLong, K!events
<1>. QED
  BY <1>1, <1>2, <1>3, <1>4 DEF StepsNotEarly, Handled

(* A step after one more full period.                                        *)
LEMMA OneMoreStep ==
    ASSUME K!TypeOK, K!Gives(Plus), NEW h \in Nat, Full + Period <= h
    PROVE  Full' <= h
<1>1. PICK g \in Nat : g = given[Plus]
  BY PlusTypes
<1>2. given \in [K!Buttons -> 0 .. Width] /\ Plus \in K!Buttons
  BY Keys DEF K!TypeOK
<1>3. given'[Plus] = g + 1 \/ given'[Plus] = g
  BY <1>1, <1>2 DEF K!Gives
<1>4. g * Period \in Nat /\ (g + 1) * Period = (g * Period) + Period /\ Full = g * Period
  BY <1>1, OneMorePeriod, Periods DEF Full
<1>5. Full' = (g + 1) * Period \/ Full' = g * Period
  BY <1>3 DEF Full
<1>. QED
  BY <1>4, <1>5, Periods

LEMMA LateTake ==
    ASSUME K!TypeOK, StepsNotEarly, K!TakeCommand
    PROVE  StepsNotEarly'
<1>1. /\ commands # <<>> /\ commands' = Tail(commands) /\ commands \in Seq(K!Command)
      /\ UNCHANGED <<down, intr, hold>>
  BY DEF K!TakeCommand, K!pins, K!TypeOK
<1>2. /\ commands' # <<>> => Last' = Last
      /\ commands' = <<>> => Last = Head(commands)
  BY <1>1, TakenLast
<1>3. PICK h \in Nat, f \in Nat : h = hold[Plus] /\ f = Full
  BY PlusTypes, OneMorePeriod, Periods DEF Full
<1>4. PICK a \in 0 .. Period, st \in BOOLEAN :
          a = Head(commands).age /\ st = Head(commands).start /\ Head(commands).key = Plus
  <2>1. Head(commands) \in K!Command
    BY <1>1
  <2>. QED
    BY <2>1 DEF K!Command
<1>5. left \in [{Plus} -> 0 .. Period \cup {Off}]
  BY DEF K!TypeOK
<1>6. CASE st /\ a < Period
  <2>1. UNCHANGED given /\ left' = [left EXCEPT ![Plus] = Period - a]
    BY <1>4, <1>6 DEF K!TakeCommand, K!NoCallback, K!events
  <2>2. PICK n \in 0 .. Period : n = left'[Plus] /\ n = Period - a
    BY <1>4, <1>5, <2>1, Periods
  <2>3. Full' = f
    BY <1>3, <2>1 DEF Full
  <2>4. ASSUME commands' = <<>>, down[Plus], ~intr[Plus]
        PROVE  f + (Period - n) <= h
    <3>1. Last.start = TRUE /\ Last.age = a
      BY <1>2, <1>4, <1>6, <2>4
    <3>2. f + a <= h
      BY <1>1, <1>3, <2>4, <3>1 DEF StepsNotEarly
    <3>. QED
      BY <2>2, <3>2, Periods
  <2>. QED
    BY <1>1, <1>2, <1>3, <2>1, <2>2, <2>3, <2>4 DEF StepsNotEarly, Handled
<1>7. CASE ~(st /\ a < Period)
  <2>1. left'[Plus] = Off
    BY <1>4, <1>5, <1>7 DEF K!TakeCommand
  <2>2. CASE given' = given
    <3>1. Full' = f
      BY <1>3, <2>2 DEF Full
    <3>. QED
      BY <1>1, <1>2, <1>3, <2>1, <2>2, <3>1 DEF StepsNotEarly, Handled
  <2>3. CASE given' # given
    <3>1. st /\ K!Callback(Plus, Tail(commands))
      BY <1>4, <1>7, <2>3 DEF K!TakeCommand, K!NoCallback, K!events
    <3>2. down[Plus] /\ ~intr[Plus] /\ K!Gives(Plus)
          /\ ~\E i \in DOMAIN Tail(commands) : Tail(commands)[i].key = Plus
      BY <2>3, <3>1 DEF K!Callback, K!NoCallback, K!events
    <3>3. commands' = <<>>
      BY <1>1, <3>2, WaitingIsPlus
    <3>4. f + Period <= h
      <4>3. Last = Head(commands)
        BY <1>2, <3>3
      <4>4. a = Period
        <5>1. ~(a < Period)
          BY <1>7, <3>1
        <5>. QED
          BY <5>1, Periods
      <4>1. Last.start /\ Last.age = a /\ a = Period
        BY <1>4, <3>1, <4>3, <4>4
      <4>2. f + a <= h
        BY <1>1, <1>3, <3>2, <4>1 DEF StepsNotEarly
      <4>. QED
        BY <4>1, <4>2
    <3>5. Full' <= h
      BY <1>3, <3>2, <3>4, OneMoreStep
    <3>. QED
      BY <1>1, <1>3, <2>1, <3>2, <3>3, <3>5 DEF StepsNotEarly, Handled
  <2>. QED
    BY <2>2, <2>3
<1>. QED
  BY <1>6, <1>7

LEMMA LateExpire ==
    ASSUME K!TypeOK, StepsNotEarly, K!Expire(Plus)
    PROVE  StepsNotEarly'
<1>1. /\ commands \in Seq(K!Command) /\ left[Plus] = 0 /\ left'[Plus] = Off
      /\ UNCHANGED <<down, intr, hold, commands>> /\ K!Callback(Plus, commands)
  BY DEF K!Expire, K!pins, K!TypeOK
<1>2. Last' = Last
  BY <1>1 DEF Last
<1>3. PICK h \in Nat, f \in Nat : h = hold[Plus] /\ f = Full
  BY PlusTypes, OneMorePeriod, Periods DEF Full
<1>4. CASE given' = given
  <2>1. Full' = f
    BY <1>3, <1>4 DEF Full
  <2>. QED
    BY <1>1, <1>2, <1>3, <1>4, <2>1 DEF StepsNotEarly, Handled
<1>5. CASE given' # given
  <2>1. down[Plus] /\ ~intr[Plus] /\ K!Gives(Plus)
        /\ ~\E i \in DOMAIN commands : commands[i].key = Plus
    BY <1>1, <1>5 DEF K!Callback, K!NoCallback, K!events
  <2>2. commands = <<>>
    BY <1>1, <2>1, WaitingIsPlus
  <2>3. f + Period <= h
    BY <1>1, <1>3, <2>1, <2>2, Keys, Periods DEF StepsNotEarly
  <2>4. Full' <= h
    BY <1>3, <2>1, <2>3, OneMoreStep
  <2>. QED
    BY <1>1, <1>3, <2>1, <2>2, <2>4 DEF StepsNotEarly, Handled
<1>. QED
  BY <1>4, <1>5

LEMMA LateRestart ==
    ASSUME K!TypeOK, StepsNotEarly, K!Restart, ~unstarted'[Plus]
    PROVE  StepsNotEarly'
<1>1. callback = Plus /\ UNCHANGED <<down, intr, left, hold, given>>
  BY DEF K!Restart, K!pins, K!events, K!TypeOK
<1>2. commands' # <<>> /\ Last'.age = 0
  BY <1>1, PostedLast DEF K!Restart
<1>3. PICK h \in Nat, f \in Nat : h = hold[Plus] /\ f = Full
  BY PlusTypes, OneMorePeriod, Periods DEF Full
<1>4. Full' = f
  BY <1>1, <1>3 DEF Full
<1>. QED
  BY <1>1, <1>2, <1>3, <1>4 DEF StepsNotEarly, Handled

(* A step of the other button leaves the volume button's variables alone.    *)
LEMMA PairLeavesPlus ==
    ASSUME K!TypeOK, K!Edge(Pair) \/ K!Isr(Pair)
    PROVE  /\ down'[Plus] = down[Plus] /\ intr'[Plus] = intr[Plus]
           /\ hold'[Plus] = hold[Plus] /\ given'[Plus] = given[Plus]
           /\ longs'[Plus] = longs[Plus] /\ press_time'[Plus] = press_time[Plus]
           /\ unstarted'[Plus] = unstarted[Plus]
           /\ UNCHANGED <<now, commands, left, callback>>
BY Keys
DEF K!Edge, K!Isr, K!Pressed, K!Released, K!Gives, K!GivesLong, K!TypeOK, K!events, K!history,
    K!timers

(* Between two presses neither does a hold get shorter nor is a dropped      *)
(* command forgotten.                                                        *)
LEMMA PremiseKept ==
    ASSUME K!TypeOK, K!Next, Measured(Plus)'
    PROVE  \/ K!Edge(Plus) /\ ~down[Plus]
           \/ Measured(Plus) /\ (~unstarted'[Plus] => ~unstarted[Plus])
<1>1. CASE K!Edge(Plus) /\ down[Plus]
  BY <1>1 DEF K!Edge, K!history, Measured
<1>2. CASE K!Edge(Pair) \/ K!Isr(Pair)
  BY <1>2, PairLeavesPlus DEF Measured
<1>3. CASE K!Isr(Plus)
  <2>1. UNCHANGED hold /\ \E start \in BOOLEAN : K!Post(Plus, start)
    BY <1>3, Keys DEF K!Isr, K!Pressed, K!Released
  <2>. QED
    BY <2>1, PostedLast DEF Measured
<1>4. CASE K!Tick
  <2>1. UNCHANGED unstarted
    BY <1>4 DEF K!Tick
  <2>2. hold'[Plus] = IF down[Plus] /\ hold[Plus] < Width - 1 THEN hold[Plus] + 1 ELSE hold[Plus]
    BY <1>4, Keys DEF K!Tick
  <2>3. hold'[Plus] < Width - 1
    BY DEF Measured
  <2>. QED
    BY <2>1, <2>2, <2>3 DEF Measured
<1>5. CASE K!TimerTask
  <2>1. UNCHANGED hold
    BY <1>5 DEF K!TimerTask, K!TakeCommand, K!Restart, K!Expire
  <2>2. CASE UNCHANGED unstarted
    BY <2>1, <2>2 DEF Measured
  <2>3. CASE K!Restart
    <3>1. K!Post(Plus, TRUE)
      BY <2>3 DEF K!Restart, K!TypeOK
    <3>. QED
      BY <2>1, <3>1, PostedLast DEF Measured
  <2>. QED
    BY <1>5, <2>2, <2>3 DEF K!TimerTask, K!TakeCommand, K!Expire
<1>. QED
  BY <1>1, <1>2, <1>3, <1>4, <1>5, Keys DEF K!Next

LEMMA LateKept ==
    ASSUME K!TypeOK, LateInv, K!Next, UNCHANGED part
    PROVE  LateInv'
<1>. SUFFICES ASSUME part = "late", Measured(Plus)', ~unstarted'[Plus]
              PROVE  StepsNotEarly'
  BY DEF LateInv
<1>1. CASE K!Edge(Plus) /\ ~down[Plus]
  <2>1. /\ down'[Plus] = TRUE /\ intr'[Plus] = TRUE /\ hold'[Plus] = 0 /\ given'[Plus] = 0
    BY <1>1, Keys DEF K!Edge, K!TypeOK
  <2>2. Full' = 0
    BY <2>1, OneMorePeriod, Periods DEF Full
  <2>. QED
    BY <2>1, <2>2 DEF StepsNotEarly, Handled
<1>2. CASE ~(K!Edge(Plus) /\ ~down[Plus])
  <2>1. StepsNotEarly
    BY <1>2, PremiseKept DEF LateInv
  <2>2. CASE K!Edge(Pair) \/ K!Isr(Pair)
    <3>1. Full' = Full /\ Last' = Last
      BY <2>2, PairLeavesPlus DEF Full, Last
    <3>. QED
      BY <2>1, <2>2, <3>1, PairLeavesPlus DEF StepsNotEarly, Handled
  <2>3. CASE K!Edge(Plus)
    BY <2>1, <2>3, LateEdge
  <2>4. CASE K!Isr(Plus)
    BY <2>1, <2>4, LatePressed, LateReleased DEF K!Isr
  <2>5. CASE K!Tick
    BY <2>1, <2>5, LateTick
  <2>6. CASE K!TimerTask
    BY <2>1, <2>6, LateTake, LateExpire, LateRestart DEF K!TimerTask
  <2>. QED
    BY <2>2, <2>3, <2>4, <2>5, <2>6, Keys DEF K!Next
<1>. QED
  BY <1>1, <1>2

-----------------------------------------------------------------------------
(* Handlers and timer on time.                                               *)
LEMMA PromptIsNext ==
    ASSUME K!PromptNext
    PROVE  K!Next
BY DEF K!PromptNext, K!Next

(* A step of one button leaves the other's variables alone.                  *)
LEMMA OtherKept ==
    ASSUME K!TypeOK, NEW b \in K!Buttons, NEW c \in K!Buttons, b # c,
           K!Edge(c) \/ K!Isr(c)
    PROVE  /\ down'[b] = down[b] /\ intr'[b] = intr[b] /\ now' = now
           /\ hold'[b] = hold[b] /\ given'[b] = given[b] /\ longs'[b] = longs[b]
           /\ press_time'[b] = press_time[b]
<1>1. CASE K!Edge(c)
  BY <1>1 DEF K!Edge, K!TypeOK, K!events, K!history
<1>2. CASE K!Isr(c)
  <2>1. /\ down'[b] = down[b] /\ intr'[b] = intr[b] /\ now' = now /\ hold'[b] = hold[b]
        /\ press_time'[b] = press_time[b]
    BY <1>2 DEF K!Isr, K!Pressed, K!Released, K!TypeOK
  <2>2. given'[b] = given[b] /\ longs'[b] = longs[b]
    BY <1>2 DEF K!Isr, K!Pressed, K!Released, K!Gives, K!GivesLong, K!TypeOK, K!events
  <2>. QED
    BY <2>1, <2>2
<1>. QED
  BY <1>1, <1>2

(* The timer task gives events of the volume button only, and none before    *)
(* the press has been handled.                                               *)
LEMMA TimerGives ==
    ASSUME K!TypeOK, K!TimerTask
    PROVE  /\ UNCHANGED <<now, down, intr, press_time, hold, longs>>
           /\ given'[Pair] = given[Pair]
           /\ ~down[Plus] \/ intr[Plus] => given' = given
<1>1. CASE K!TakeCommand
  <2>1. Head(commands).key = Plus
    <3>1. Head(commands) \in K!Command
      BY <1>1 DEF K!TakeCommand, K!TypeOK
    <3>. QED
      BY <3>1 DEF K!Command
  <2>2. UNCHANGED <<now, down, intr, press_time, hold>>
    BY <1>1 DEF K!TakeCommand, K!pins
  <2>3. K!Callback(Plus, Tail(commands)) \/ UNCHANGED <<given, longs>>
    BY <1>1, <2>1 DEF K!TakeCommand, K!NoCallback, K!events
  <2>. QED
    BY <2>2, <2>3, Keys DEF K!Callback, K!NoCallback, K!Gives, K!TypeOK, K!events
<1>2. CASE K!Restart
  BY <1>2 DEF K!Restart, K!pins, K!events
<1>3. CASE K!Expire(Plus)
  <2>1. UNCHANGED <<now, down, intr, press_time, hold>> /\ K!Callback(Plus, commands)
    BY <1>3 DEF K!Expire, K!pins
  <2>. QED
    BY <2>1, Keys DEF K!Callback, K!NoCallback, K!Gives, K!TypeOK, K!events
<1>. QED
  BY <1>1, <1>2, <1>3 DEF K!TimerTask

LEMMA HoldTick ==
    ASSUME K!TypeOK, NEW b \in K!Buttons, K!Tick, Measured(b)'
    PROVE  /\ Measured(b) /\ hold[b] \in 0 .. Width - 2
           /\ hold'[b] = IF down[b] THEN hold[b] + 1 ELSE hold[b]
BY Periods DEF K!Tick, K!TypeOK, Measured

LEMMA HoldStep ==
    ASSUME K!TypeOK, NEW b \in K!Buttons, HoldMeasured(b), K!PromptNext
    PROVE  HoldMeasured(b)'
<1>0. /\ hold[b] \in 0 .. Width - 1 /\ now \in 0 .. Width - 1
      /\ press_time[b] \in 0 .. Width - 1 /\ down[b] \in BOOLEAN /\ intr[b] \in BOOLEAN
  BY DEF K!TypeOK
<1>1. CASE ~intr[b] /\ K!Edge(b)
  <2>1. /\ intr'[b] = TRUE /\ down'[b] = ~down[b] /\ UNCHANGED <<now, press_time>>
    BY <1>1 DEF K!Edge, K!TypeOK
  <2>2. CASE down[b]
    <3>1. hold' = hold
      BY <1>1, <2>2 DEF K!Edge, K!history
    <3>. QED
      BY <1>1, <2>1, <2>2, <3>1 DEF HoldMeasured, Measured, K!Delta
  <2>3. CASE ~down[b]
    <3>1. hold'[b] = 0 /\ given'[b] = 0 /\ longs'[b] = 0
      BY <1>1, <2>3 DEF K!Edge, K!TypeOK
    <3>. QED
      BY <2>1, <2>3, <3>1 DEF HoldMeasured
  <2>. QED
    BY <2>2, <2>3
<1>2. CASE K!Pressed(b)
  <2>1. /\ intr'[b] = FALSE /\ down'[b] = down[b] /\ down[b] /\ intr[b]
        /\ press_time'[b] = now /\ now' = now /\ hold' = hold
    BY <1>2 DEF K!Pressed, K!TypeOK
  <2>2. (now + Width - now) % Width = 0
    BY <1>0, SinceThen, Periods
  <2>3. hold[b] = 0
    BY <2>1 DEF HoldMeasured
  <2>. QED
    BY <2>1, <2>2, <2>3 DEF HoldMeasured, K!Delta
<1>3. CASE K!Released(b)
  BY <1>3 DEF K!Released, K!TypeOK, HoldMeasured
<1>4. CASE K!Settled /\ K!Tick
  <2>1. /\ ~intr[b] /\ UNCHANGED <<down, intr, press_time>>
    BY <1>4 DEF K!Settled, K!Tick, K!pins
  <2>2. ASSUME Measured(b)', down[b]
        PROVE  K!Delta(b)' = hold'[b]
    <3>1. /\ Measured(b) /\ hold[b] \in 0 .. Width - 2 /\ hold'[b] = hold[b] + 1
      BY <1>4, <2>2, HoldTick
    <3>2. (now + Width - press_time[b]) % Width = hold[b]
      BY <2>1, <2>2, <3>1 DEF HoldMeasured, K!Delta
    <3>3. PICK m \in 0 .. Width - 1 : m = (now + 1) % Width /\ m = now'
      <4>1. (now + 1) % Width \in 0 .. Width - 1
        BY <1>0, RemainderType, Periods
      <4>. QED
        BY <1>4, <4>1 DEF K!Tick
    <3>5. PICK n \in 0 .. Width - 1, p \in 0 .. Width - 1, h \in 0 .. Width - 2 :
              n = now /\ p = press_time[b] /\ h = hold[b]
      BY <1>0, <3>1
    <3>6. (n + Width - p) % Width = h /\ m = (n + 1) % Width
      BY <3>2, <3>3, <3>5
    <3>7. (m + Width - p) % Width = h + 1
      BY <3>6, OneTickMore, Periods
    <3>4. (m + Width - press_time[b]) % Width = hold[b] + 1
      BY <3>5, <3>7
    <3>. QED
      BY <2>1, <3>1, <3>3, <3>4 DEF K!Delta
  <2>. QED
    BY <1>0, <2>1, <2>2 DEF HoldMeasured
<1>5. CASE K!TimerTask
  <2>1. UNCHANGED <<now, down, intr, press_time, hold, longs>>
        /\ (down[b] /\ intr[b] => given'[b] = given[b])
    BY <1>5, TimerGives, Keys
  <2>. QED
    BY <2>1 DEF HoldMeasured, Measured, K!Delta
<1>6. ASSUME NEW c \in K!Buttons, c # b, K!Edge(c) \/ K!Isr(c)
      PROVE  HoldMeasured(b)'
  BY <1>6, OtherKept DEF HoldMeasured, Measured, K!Delta
<1>. QED
  BY <1>1, <1>2, <1>3, <1>4, <1>5, <1>6 DEF K!PromptNext, K!Isr

-----------------------------------------------------------------------------
(* The volume button on time.                                                *)
LEMMA FreshStep ==
    ASSUME K!TypeOK, Fresh, K!PromptNext
    PROVE  Fresh'
<1>1. CASE UNCHANGED commands
  BY <1>1 DEF Fresh
<1>2. CASE \E start \in BOOLEAN : K!Post(Plus, start)
  BY <1>2, PostedLast DEF Fresh
<1>3. CASE K!Settled /\ K!Tick
  <2>1. commands = <<>> /\ commands' = [i \in DOMAIN commands |-> K!Older(commands[i])]
    BY <1>3 DEF K!Settled, K!Tick
  <2>. QED
    BY <2>1 DEF Fresh
<1>4. CASE K!TakeCommand
  BY <1>4, TakenLast DEF K!TakeCommand, Fresh
<1>5. ASSUME NEW b \in K!Buttons, K!Edge(b) \/ K!Isr(b)
      PROVE  UNCHANGED commands \/ \E start \in BOOLEAN : K!Post(Plus, start)
  BY <1>5, Keys DEF K!Edge, K!Isr, K!Pressed, K!Released, K!timers
<1>6. ASSUME K!Restart \/ K!Expire(Plus)
      PROVE  UNCHANGED commands \/ \E start \in BOOLEAN : K!Post(Plus, start)
  BY <1>6 DEF K!Restart, K!Expire, K!TypeOK
<1>. QED
  BY <1>1, <1>2, <1>3, <1>4, <1>5, <1>6 DEF K!PromptNext, K!TimerTask

(* A press: nothing has been given, and nothing is to be.                    *)
LEMMA VolumePress ==
    ASSUME K!TypeOK, K!Edge(Plus), ~down[Plus]
    PROVE  NoStepTooMany' /\ NoStepMissing'
<1>1. /\ down'[Plus] = TRUE /\ intr'[Plus] = TRUE /\ hold'[Plus] = 0 /\ given'[Plus] = 0
  BY Keys DEF K!Edge, K!TypeOK
<1>2. Full' = 0
  BY <1>1, OneMorePeriod, Periods DEF Full
<1>. QED
  BY <1>1, <1>2 DEF NoStepTooMany, NoStepMissing, Handled

(* The pin is released; the interrupt is still to come.                      *)
LEMMA VolumeRelease ==
    ASSUME K!TypeOK, K!Edge(Plus), down[Plus], ~intr[Plus]
    PROVE  /\ NoStepTooMany => NoStepTooMany'
           /\ NoStepMissing => NoStepMissing'
<1>1. /\ down'[Plus] = FALSE /\ intr'[Plus] = TRUE /\ UNCHANGED <<hold, given>>
  BY Keys DEF K!Edge, K!TypeOK, K!history, K!events
<1>2. Full' = Full
  BY <1>1 DEF Full
<1>3. PICK h \in Nat, f \in Nat : h = hold[Plus] /\ f = Full
  BY PlusTypes, OneMorePeriod, Periods DEF Full
<1>4. NoStepMissing => h <= f + Period
  <2>1. SUFFICES ASSUME NoStepMissing
                 PROVE  h <= f + Period
    OBVIOUS
  <2>2. CASE h = f
    BY <2>2, Periods
  <2>3. CASE left[Plus] # Off /\ h = f + (Period - left[Plus])
    <3>1. PICK n \in 0 .. Period : n = left[Plus]
      BY <2>3, PlusTypes
    <3>. QED
      BY <2>3, <3>1, Periods
  <2>. QED
    BY <1>3, <2>1, <2>2, <2>3 DEF NoStepMissing
<1>. QED
  BY <1>1, <1>2, <1>3, <1>4 DEF NoStepTooMany, NoStepMissing, Handled

LEMMA VolumeTick ==
    ASSUME K!TypeOK, K!Settled, K!Tick, Measured(Plus)'
    PROVE  /\ NoStepTooMany => NoStepTooMany'
           /\ NoStepMissing => NoStepMissing'
<1>1. PICK h \in Nat, f \in Nat : h = hold[Plus] /\ f = Full
  BY PlusTypes, OneMorePeriod, Periods DEF Full
<1>2. UNCHANGED <<down, intr, given>> /\ ~intr[Plus]
      /\ callback = Off /\ callback' = Off /\ commands = <<>> /\ left[Plus] # 0
  BY Keys DEF K!Tick, K!Settled, K!pins, K!events
<1>3. Full' = f
  BY <1>1, <1>2 DEF Full
<1>4. hold'[Plus] = IF down[Plus] THEN h + 1 ELSE h
  BY <1>1, Keys, HoldTick
<1>5. commands' = <<>>
  BY <1>2, OlderLast
<1>6. CASE ~down[Plus]
  <2>1. hold'[Plus] = hold[Plus] /\ given' = given /\ Full' = Full /\ ~down'[Plus] /\ ~intr'[Plus]
    BY <1>1, <1>2, <1>3, <1>4, <1>6
  <2>. QED
    BY <1>2, <1>6, <2>1 DEF NoStepTooMany, NoStepMissing, Handled
<1>7. CASE down[Plus]
  <2>1. down'[Plus] /\ ~intr'[Plus] /\ hold'[Plus] = h + 1 /\ ~Handled(Plus) /\ ~Handled(Plus)'
    BY <1>2, <1>4, <1>7 DEF Handled
  <2>2. CASE left[Plus] = Off
    <3>1. left'[Plus] = Off
      BY <2>2 DEF K!Tick
    <3>. QED
      BY <1>1, <1>2, <1>3, <1>5, <1>7, <2>1, <2>2, <3>1 DEF NoStepTooMany, NoStepMissing
  <2>3. CASE left[Plus] # Off
    <3>1. PICK n \in 1 .. Period : n = left[Plus]
      BY <1>2, <2>3, PlusTypes
    <3>2. left'[Plus] = n - 1 /\ n - 1 # Off
      BY <1>2, <2>3, <3>1, Keys DEF K!Tick
    <3>3. NoStepTooMany => f <= h /\ f + (Period - n) <= h
      BY <1>1, <1>2, <1>7, <2>1, <2>3, <3>1 DEF NoStepTooMany
    <3>4. NoStepMissing => h = f + (Period - n)
      BY <1>1, <1>2, <1>7, <2>1, <2>3, <3>1 DEF NoStepMissing
    <3>5. Period - (n - 1) = (Period - n) + 1
      BY <3>1, Periods
    <3>6. NoStepTooMany => f <= h + 1 /\ f + (Period - (n - 1)) <= h + 1
      BY <3>1, <3>3, <3>5, Periods
    <3>7. NoStepMissing => h + 1 = f + (Period - (n - 1))
      BY <3>1, <3>4, <3>5, Periods
    <3>8. NoStepTooMany => NoStepTooMany'
      BY <1>3, <2>1, <3>2, <3>6 DEF NoStepTooMany
    <3>9. NoStepMissing => NoStepMissing'
      BY <1>2, <1>3, <1>5, <2>1, <3>2, <3>7 DEF NoStepMissing
    <3>. QED
      BY <3>8, <3>9
  <2>. QED
    BY <2>2, <2>3
<1>. QED
  BY <1>6, <1>7

LEMMA VolumePressed ==
    ASSUME K!TypeOK, HoldMeasured(Plus), K!Pressed(Plus)
    PROVE  /\ NoStepTooMany'
           /\ ~unstarted'[Plus] => NoStepMissing'
<1>1. /\ intr'[Plus] = FALSE /\ down[Plus] /\ down'[Plus] /\ intr[Plus]
      /\ UNCHANGED <<hold, given>>
  BY Keys DEF K!Pressed, K!TypeOK, K!events
<1>2. hold[Plus] = 0 /\ given[Plus] = 0
  BY <1>1 DEF HoldMeasured
<1>3. Full' = 0 /\ hold'[Plus] = 0
  BY <1>1, <1>2, OneMorePeriod, Periods DEF Full
<1>4. K!Post(Plus, TRUE)
  BY Keys DEF K!Pressed
<1>5. commands' # <<>> /\ (Last'.start = TRUE \/ unstarted'[Plus] \/ UNCHANGED <<commands>>)
  BY <1>4, PostedLast
<1>6. ~unstarted'[Plus] => Last'.start = TRUE
  BY <1>4, PostedLast
<1>. QED
  BY <1>1, <1>3, <1>5, <1>6 DEF NoStepTooMany, NoStepMissing, Handled

(* The handler of the release gives one step for a short press.              *)
LEMMA VolumeReleased ==
    ASSUME K!TypeOK, HoldMeasured(Plus), Measured(Plus), K!Released(Plus)
    PROVE  /\ NoStepTooMany => NoStepTooMany'
           /\ NoStepMissing => NoStepMissing'
<1>1. /\ intr'[Plus] = FALSE /\ ~down[Plus] /\ ~down'[Plus] /\ intr[Plus]
      /\ hold' = hold
  BY Keys DEF K!Released, K!TypeOK
<1>2. PICK h \in Nat, g \in 0 .. Width : h = hold[Plus] /\ g = given[Plus] /\ h < Width
  BY PlusTypes, Periods
<1>3. K!Delta(Plus) = h
  BY <1>1, <1>2, PlusTypes DEF HoldMeasured
<1>4. given \in [K!Buttons -> 0 .. Width] /\ Plus \in K!Buttons /\ Plus \notin {Pair}
  BY Keys DEF K!TypeOK
<1>5. PICK n \in Nat : /\ n = given'[Plus]
                       /\ n = IF Debounce <= h /\ h <= Short /\ g < Width THEN g + 1 ELSE g
  <2>1. CASE h < Debounce
    <3>1. given' = given
      BY <1>3, <2>1, Periods DEF K!Released, K!events
    <3>. QED
      BY <1>2, <2>1, <3>1, Periods
  <2>2. CASE Debounce <= h /\ h <= Short
    <3>1. K!Gives(Plus)
      BY <1>3, <1>4, <2>2, Periods DEF K!Released
    <3>2. given'[Plus] = IF g < Width THEN g + 1 ELSE g
      BY <1>2, <1>4, <3>1 DEF K!Gives
    <3>. QED
      BY <1>2, <2>2, <3>2, Periods
  <2>3. CASE Short < h
    <3>1. given' = given
      BY <1>3, <1>4, <2>3, Periods DEF K!Released, K!events
    <3>. QED
      BY <1>2, <2>3, <3>1, Periods
  <2>. QED
    BY <1>2, <2>1, <2>2, <2>3, Periods
<1>6. ASSUME NoStepTooMany
      PROVE  n <= (h \div Period) + (IF Debounce <= h /\ h <= Short THEN 1 ELSE 0)
  <2>1. g * Period <= h
    BY <1>1, <1>2, <1>6 DEF NoStepTooMany, Handled, Full
  <2>2. PICK q \in Nat : q = h \div Period /\ g <= q
    BY <1>2, <2>1, FullPeriods, PeriodsIn, Periods
  <2>3. n <= q + (IF Debounce <= h /\ h <= Short THEN 1 ELSE 0)
    BY <1>5, <2>2
  <2>. QED
    BY <2>2, <2>3
<1>7. ASSUME NoStepMissing, h >= Debounce
      PROVE  n >= 1 /\ n >= (h - 1) \div Period
  <2>1. h <= (g * Period) + Period
    BY <1>1, <1>2, <1>7 DEF NoStepMissing, Full
  <2>2. PICK q \in Nat : q = (h - 1) \div Period /\ q <= g
    <3>1. h \in Nat \ {0} /\ h - 1 \in Nat
      BY <1>7, Periods
    <3>. QED
      BY <2>1, <3>1, BegunPeriods, PeriodsIn, Periods
  <2>3. n >= g
    BY <1>5
  <2>4. n >= 1
    <3>1. CASE h <= Short
      BY <1>2, <1>5, <1>7, <3>1, Periods
    <3>2. CASE h > Short
      <4>1. g # 0
        BY <2>1, <3>2, OneMorePeriod, Periods
      <4>. QED
        BY <2>3, <4>1
    <3>. QED
      BY <3>1, <3>2, Periods
  <2>. QED
    BY <2>2, <2>3, <2>4
<1>8. hold'[Plus] = h /\ Handled(Plus)'
  BY <1>1, <1>2 DEF Handled
<1>9. NoStepTooMany => NoStepTooMany'
  BY <1>1, <1>5, <1>6, <1>8 DEF NoStepTooMany
<1>10. NoStepMissing => NoStepMissing'
  BY <1>1, <1>5, <1>7, <1>8 DEF NoStepMissing
<1>. QED
  BY <1>9, <1>10

LEMMA VolumeTake ==
    ASSUME K!TypeOK, Fresh, K!TakeCommand
    PROVE  /\ NoStepTooMany => NoStepTooMany'
           /\ NoStepMissing => NoStepMissing'
<1>1. /\ commands # <<>> /\ commands' = Tail(commands) /\ commands \in Seq(K!Command)
      /\ UNCHANGED <<down, intr, hold>> /\ callback = Off
  BY DEF K!TakeCommand, K!pins, K!TypeOK
<1>2. /\ commands' # <<>> => Last' = Last
      /\ commands' = <<>> => Last = Head(commands)
  BY <1>1, TakenLast
<1>3. PICK h \in Nat, f \in Nat : h = hold[Plus] /\ f = Full
  BY PlusTypes, OneMorePeriod, Periods DEF Full
<1>4. /\ Head(commands).age = 0 /\ Head(commands).key = Plus /\ Head(commands).start \in BOOLEAN
  <2>1. Head(commands) \in K!Command
    BY <1>1
  <2>2. Head(commands).age = 0
    BY <1>1 DEF Fresh
  <2>. QED
    BY <2>1, <2>2 DEF K!Command
<1>5. left \in [{Plus} -> 0 .. Period \cup {Off}]
  BY DEF K!TypeOK
<1>6. /\ UNCHANGED <<given, callback>>
      /\ left'[Plus] = IF Head(commands).start THEN Period ELSE Off
  <2>1. CASE Head(commands).start
    <3>1. UNCHANGED <<given, callback>> /\ left' = [left EXCEPT ![Plus] = Period - 0]
      BY <1>4, <2>1, Periods DEF K!TakeCommand, K!NoCallback, K!events
    <3>2. Period - 0 = Period
      BY Periods
    <3>. QED
      BY <1>5, <2>1, <3>1, <3>2
  <2>2. CASE ~Head(commands).start
    BY <1>4, <1>5, <2>2 DEF K!TakeCommand, K!NoCallback, K!events
  <2>. QED
    BY <2>1, <2>2
<1>7. Full' = f /\ hold'[Plus] = h /\ (Handled(Plus)' <=> Handled(Plus))
  BY <1>1, <1>3, <1>6 DEF Full, Handled
<1>8. f + (Period - Period) = f /\ Period # Off
  BY Periods, Keys
<1>9. NoStepTooMany => NoStepTooMany'
  <2>1. SUFFICES ASSUME NoStepTooMany
                 PROVE  NoStepTooMany'
    OBVIOUS
  <2>2. ~Handled(Plus) => f <= h
    BY <1>3, <2>1 DEF NoStepTooMany
  <2>3. left'[Plus] # Off => left'[Plus] = Period
    BY <1>6
  <2>. QED
    BY <1>1, <1>3, <1>6, <1>7, <1>8, <2>1, <2>2, <2>3 DEF NoStepTooMany, Handled
<1>10. NoStepMissing => NoStepMissing'
  <2>1. SUFFICES ASSUME NoStepMissing
                 PROVE  NoStepMissing'
    OBVIOUS
  <2>2. ASSUME down[Plus], ~intr[Plus]
        PROVE  h = f /\ Last.start
    BY <1>1, <1>3, <2>1, <2>2 DEF NoStepMissing
  <2>3. ASSUME down[Plus], ~intr[Plus], commands' = <<>>
        PROVE  left'[Plus] # Off /\ h = f + (Period - left'[Plus])
    <3>1. left'[Plus] = Period
      BY <1>2, <1>6, <2>2, <2>3
    <3>. QED
      BY <1>8, <2>2, <2>3, <3>1
  <2>. QED
    BY <1>1, <1>2, <1>3, <1>6, <1>7, <2>1, <2>2, <2>3 DEF NoStepMissing
<1>. QED
  BY <1>9, <1>10

LEMMA VolumeExpire ==
    ASSUME K!TypeOK, Measured(Plus), K!Expire(Plus)
    PROVE  /\ NoStepTooMany => NoStepTooMany'
           /\ NoStepMissing => NoStepMissing'
<1>1. /\ commands \in Seq(K!Command) /\ left[Plus] = 0 /\ left'[Plus] = Off /\ callback = Off
      /\ UNCHANGED <<down, intr, hold, commands>> /\ K!Callback(Plus, commands)
  BY DEF K!Expire, K!pins, K!TypeOK
<1>2. Last' = Last /\ (Handled(Plus)' <=> Handled(Plus))
  BY <1>1 DEF Last, Handled
<1>3. PICK h \in Nat, f \in Nat, g \in Nat :
          h = hold[Plus] /\ f = Full /\ g = given[Plus] /\ f = g * Period /\ h < Width - 1
  BY PlusTypes, OneMorePeriod, Periods DEF Full, Measured
<1>4. CASE ~down[Plus]
  <2>1. UNCHANGED <<given, callback>>
    BY <1>1, <1>4 DEF K!Callback, K!NoCallback, K!events
  <2>2. Full' = Full
    BY <2>1 DEF Full
  <2>. QED
    BY <1>1, <1>2, <1>4, <2>1, <2>2 DEF NoStepTooMany, NoStepMissing
<1>5. CASE down[Plus] /\ (intr[Plus] \/ commands # <<>>)
  <2>1. intr[Plus] \/ \E i \in DOMAIN commands : commands[i].key = Plus
    BY <1>1, <1>5, WaitingIsPlus
  <2>2. UNCHANGED given /\ callback' = Plus
    BY <1>1, <1>5, <2>1 DEF K!Callback, K!events
  <2>3. Full' = Full
    BY <2>2 DEF Full
  <2>. QED
    BY <1>1, <1>2, <1>5, <2>2, <2>3, Keys DEF NoStepTooMany, NoStepMissing
<1>6. CASE down[Plus] /\ ~intr[Plus] /\ commands = <<>>
  <2>1. K!Gives(Plus) /\ callback' = Plus /\ callback' # Off
    BY <1>1, <1>6, Keys DEF K!Callback
  <2>2. /\ NoStepTooMany => f + Period <= h
        /\ NoStepMissing => f + Period = h
    <3>1. Period - left[Plus] = Period /\ left[Plus] # Off
      BY <1>1, Periods, Keys
    <3>. QED
      BY <1>1, <1>3, <1>6, <3>1 DEF NoStepTooMany, NoStepMissing
  <2>3. NoStepTooMany => Full' <= h
    BY <1>3, <2>1, <2>2, OneMoreStep
  <2>4. NoStepMissing => Full' = h
    <3>1. SUFFICES ASSUME NoStepMissing
                   PROVE  Full' = h
      OBVIOUS
    <3>2. g < Width
      <4>2. g <= g * Period
        BY Periods
      <4>. QED
        BY <1>3, <2>2, <3>1, <4>2, Periods
    <3>3. given'[Plus] = g + 1
      <4>1. given \in [K!Buttons -> 0 .. Width] /\ Plus \in K!Buttons
        BY Keys DEF K!TypeOK
      <4>. QED
        BY <1>3, <2>1, <3>2, <4>1 DEF K!Gives
    <3>4. (g + 1) * Period = (g * Period) + Period
      BY OneMorePeriod, Periods
    <3>5. Full' = (g + 1) * Period
      BY <3>3 DEF Full
    <3>. QED
      BY <1>3, <2>2, <3>1, <3>4, <3>5
  <2>5. ~Handled(Plus) /\ hold'[Plus] = h
    BY <1>1, <1>3, <1>6 DEF Handled
  <2>6. NoStepTooMany => NoStepTooMany'
    BY <1>1, <1>2, <2>3, <2>5 DEF NoStepTooMany
  <2>7. NoStepMissing => NoStepMissing'
    BY <1>1, <1>2, <1>6, <2>1, <2>4, <2>5 DEF NoStepMissing
  <2>. QED
    BY <2>6, <2>7
<1>. QED
  BY <1>4, <1>5, <1>6

LEMMA VolumeRestart ==
    ASSUME K!TypeOK, K!Restart
    PROVE  /\ NoStepTooMany => NoStepTooMany'
           /\ NoStepMissing /\ ~unstarted'[Plus] => NoStepMissing'
<1>1. callback = Plus /\ callback # Off /\ UNCHANGED <<down, intr, left, hold, given>>
  BY Keys DEF K!Restart, K!pins, K!events, K!TypeOK
<1>2. /\ commands' # <<>>
      /\ ~unstarted'[Plus] => Last'.start = TRUE
  BY <1>1, PostedLast DEF K!Restart
<1>3. Full' = Full /\ (Handled(Plus)' <=> Handled(Plus))
  BY <1>1 DEF Full, Handled
<1>4. NoStepTooMany => NoStepTooMany'
  BY <1>1, <1>2, <1>3 DEF NoStepTooMany
<1>5. NoStepMissing /\ ~unstarted'[Plus] => NoStepMissing'
  BY <1>1, <1>2, <1>3 DEF NoStepMissing
<1>. QED
  BY <1>4, <1>5

LEMMA VolumeKept ==
    ASSUME K!TypeOK, VolumeInv, K!PromptNext, UNCHANGED part
    PROVE  VolumeInv'
<1>. SUFFICES ASSUME part = "volume"
              PROVE  /\ HoldMeasured(Plus)' /\ Fresh'
                     /\ Measured(Plus)' => NoStepTooMany'
                     /\ Measured(Plus)' /\ ~unstarted'[Plus] => NoStepMissing'
  BY DEF VolumeInv
<1>1. /\ HoldMeasured(Plus) /\ Fresh
      /\ Measured(Plus) => NoStepTooMany
      /\ Measured(Plus) /\ ~unstarted[Plus] => NoStepMissing
  BY DEF VolumeInv
<1>2. HoldMeasured(Plus)' /\ Fresh'
  BY <1>1, HoldStep, FreshStep, Keys
<1>3. ASSUME Measured(Plus)'
      PROVE  NoStepTooMany' /\ (~unstarted'[Plus] => NoStepMissing')
  <2>1. CASE K!Edge(Plus) /\ ~down[Plus]
    BY <2>1, VolumePress
  <2>2. CASE ~(K!Edge(Plus) /\ ~down[Plus])
    <3>1. Measured(Plus) /\ (~unstarted'[Plus] => ~unstarted[Plus])
      BY <1>3, <2>2, PromptIsNext, PremiseKept
    <3>2. NoStepTooMany /\ (~unstarted'[Plus] => NoStepMissing)
      BY <1>1, <3>1
    <3>3. CASE K!Edge(Pair) \/ K!Isr(Pair)
      <4>1. Full' = Full /\ Last' = Last
        BY <3>3, PairLeavesPlus DEF Full, Last
      <4>2. NoStepTooMany'
        BY <3>2, <3>3, <4>1, PairLeavesPlus DEF NoStepTooMany, Handled
      <4>3. NoStepMissing => NoStepMissing'
        BY <3>3, <4>1, PairLeavesPlus DEF NoStepMissing, Handled
      <4>. QED
        BY <3>2, <4>2, <4>3
    <3>4. CASE ~intr[Plus] /\ K!Edge(Plus)
      BY <2>2, <3>2, <3>4, VolumeRelease
    <3>5. CASE K!Pressed(Plus)
      BY <1>1, <3>5, VolumePressed
    <3>6. CASE K!Released(Plus)
      BY <1>1, <3>1, <3>2, <3>6, VolumeReleased
    <3>7. CASE K!Settled /\ K!Tick
      BY <1>3, <3>2, <3>7, VolumeTick
    <3>8. CASE K!TakeCommand
      BY <1>1, <3>2, <3>8, VolumeTake
    <3>9. CASE K!Expire(Plus)
      BY <3>1, <3>2, <3>9, VolumeExpire
    <3>10. CASE K!Restart
      BY <3>2, <3>10, VolumeRestart
    <3>. QED
      BY <3>3, <3>4, <3>5, <3>6, <3>7, <3>8, <3>9, <3>10, Keys
      DEF K!PromptNext, K!Isr, K!TimerTask
  <2>. QED
    BY <2>1, <2>2
<1>. QED
  BY <1>2, <1>3

-----------------------------------------------------------------------------
(* The pair button on time.                                                  *)
LEMMA PairPress ==
    ASSUME K!TypeOK, K!Edge(Pair), ~down[Pair]
    PROVE  OneEvent'
<1>1. /\ down'[Pair] = TRUE /\ given'[Pair] = 0 /\ longs'[Pair] = 0
  BY Keys DEF K!Edge, K!TypeOK
<1>. QED
  BY <1>1 DEF OneEvent, Handled

LEMMA PairReleased ==
    ASSUME K!TypeOK, HoldMeasured(Pair), Measured(Pair), OneEvent, K!Released(Pair)
    PROVE  OneEvent'
<1>1. /\ intr'[Pair] = FALSE /\ ~down[Pair] /\ ~down'[Pair] /\ intr[Pair]
      /\ hold' = hold
  BY Keys DEF K!Released, K!TypeOK
<1>2. PICK h \in Nat : h = hold[Pair]
  BY Keys DEF K!TypeOK
<1>3. K!Delta(Pair) = h
  <2>1. down[Pair] \in BOOLEAN /\ intr[Pair] \in BOOLEAN
    BY Keys DEF K!TypeOK
  <2>. QED
    BY <1>1, <1>2, <2>1 DEF HoldMeasured
<1>4. given[Pair] = 0 /\ longs[Pair] = 0
  BY <1>1 DEF OneEvent, Handled
<1>5. /\ given \in [K!Buttons -> 0 .. Width] /\ longs \in [K!Buttons -> 0 .. Width]
      /\ Pair \in K!Buttons /\ Pair \notin {Plus} /\ Pair \in {Pair}
  BY Keys DEF K!TypeOK
<1>6. CASE h < Debounce
  <2>1. given' = given /\ longs' = longs
    BY <1>3, <1>6, Periods DEF K!Released, K!events
  <2>. QED
    BY <1>1, <1>2, <1>4, <1>6, <2>1, Periods DEF OneEvent, Handled
<1>7. CASE Debounce <= h /\ h <= Short
  <2>1. K!Gives(Pair)
    BY <1>3, <1>5, <1>7, Periods DEF K!Released
  <2>2. given'[Pair] = 1 /\ longs'[Pair] = 0
    BY <1>4, <1>5, <2>1, Periods DEF K!Gives
  <2>. QED
    BY <1>1, <1>2, <1>7, <2>2, Periods DEF OneEvent, Handled
<1>8. CASE Short < h
  <2>1. K!GivesLong(Pair)
    BY <1>3, <1>5, <1>8, Periods DEF K!Released
  <2>2. given'[Pair] = 0 /\ longs'[Pair] = 1
    BY <1>4, <1>5, <2>1, Periods DEF K!GivesLong
  <2>. QED
    BY <1>1, <1>2, <1>8, <2>2, Periods DEF OneEvent, Handled
<1>. QED
  BY <1>2, <1>6, <1>7, <1>8, Periods

LEMMA PairKept ==
    ASSUME K!TypeOK, PairInv, K!PromptNext, UNCHANGED part
    PROVE  PairInv'
<1>. SUFFICES ASSUME part = "pair"
              PROVE  HoldMeasured(Pair)' /\ (Measured(Pair)' => OneEvent')
  BY DEF PairInv
<1>1. HoldMeasured(Pair) /\ (Measured(Pair) => OneEvent)
  BY DEF PairInv
<1>2. HoldMeasured(Pair)'
  BY <1>1, HoldStep, Keys
<1>3. ASSUME Measured(Pair)'
      PROVE  OneEvent'
  <2>1. CASE K!Edge(Pair) /\ ~down[Pair]
    BY <2>1, PairPress
  <2>2. CASE K!Edge(Pair) /\ down[Pair]
    <3>1. UNCHANGED <<hold, given, longs>> /\ intr'[Pair] = TRUE
      BY <2>2, Keys DEF K!Edge, K!history, K!events, K!TypeOK
    <3>2. OneEvent
      BY <1>1, <1>3, <3>1 DEF Measured
    <3>. QED
      BY <2>2, <3>1, <3>2 DEF OneEvent, Handled
  <2>3. CASE K!Pressed(Pair)
    <3>1. UNCHANGED <<hold, given, longs, down>> /\ down[Pair]
      BY <2>3 DEF K!Pressed, K!events
    <3>2. OneEvent
      BY <1>1, <1>3, <3>1 DEF Measured
    <3>. QED
      BY <3>1, <3>2 DEF OneEvent, Handled
  <2>4. CASE K!Released(Pair)
    <3>1. Measured(Pair)
      BY <1>3, <2>4 DEF K!Released, Measured
    <3>. QED
      BY <1>1, <2>4, <3>1, PairReleased
  <2>5. CASE K!Settled /\ K!Tick
    <3>1. Measured(Pair) /\ UNCHANGED <<down, intr, given, longs>>
          /\ (~down[Pair] => hold'[Pair] = hold[Pair])
      BY <1>3, <2>5, HoldTick, Keys DEF K!Tick, K!pins, K!events
    <3>2. OneEvent
      BY <1>1, <3>1
    <3>. QED
      BY <3>1, <3>2 DEF OneEvent, Handled
  <2>6. CASE K!TimerTask
    <3>1. UNCHANGED <<down, intr, hold, longs>> /\ given'[Pair] = given[Pair]
      BY <2>6, TimerGives
    <3>2. OneEvent
      BY <1>1, <1>3, <3>1 DEF Measured
    <3>. QED
      BY <3>1, <3>2 DEF OneEvent, Handled
  <2>7. CASE K!Edge(Plus) \/ K!Isr(Plus)
    <3>1. /\ down'[Pair] = down[Pair] /\ intr'[Pair] = intr[Pair] /\ hold'[Pair] = hold[Pair]
          /\ given'[Pair] = given[Pair] /\ longs'[Pair] = longs[Pair]
      BY <2>7, OtherKept, Keys
    <3>2. OneEvent
      BY <1>1, <1>3, <3>1 DEF Measured
    <3>. QED
      BY <3>1, <3>2 DEF OneEvent, Handled
  <2>. QED
    BY <2>1, <2>2, <2>3, <2>4, <2>5, <2>6, <2>7, Keys DEF K!PromptNext, K!Isr
<1>. QED
  BY <1>2, <1>3

-----------------------------------------------------------------------------
(* Initially nothing is pressed that anybody has seen.                       *)
LEMMA PressInit ==
    ASSUME MCInit
    PROVE  PressInv
<1>1. /\ now = 0 /\ down \in [K!Buttons -> BOOLEAN] /\ intr = [b \in K!Buttons |-> FALSE]
      /\ press_time = [b \in K!Buttons |-> 0] /\ left = [k \in {Plus} |-> Off]
      /\ commands = <<>> /\ callback = Off /\ hold = [b \in K!Buttons |-> 0]
      /\ given = [b \in K!Buttons |-> 0] /\ longs = [b \in K!Buttons |-> 0]
      /\ unstarted = [k \in {Plus} |-> TRUE]
  BY DEF MCInit, K!Init
<1>2. K!TypeOK
  BY <1>1, Periods, Keys DEF K!TypeOK
<1>3. /\ hold[Plus] = 0 /\ hold[Pair] = 0 /\ given[Plus] = 0 /\ given[Pair] = 0
      /\ longs[Plus] = 0 /\ longs[Pair] = 0 /\ unstarted[Plus]
      /\ ~intr[Plus] /\ ~intr[Pair] /\ left[Plus] = Off /\ commands = <<>>
  BY <1>1, Keys
<1>4. Full = 0
  BY <1>3, OneMorePeriod, Periods DEF Full
<1>5. \A b \in K!Buttons : HoldMeasured(b)
  <2>1. (0 + Width - 0) % Width = 0
    <3>1. 0 \in 0 .. Width - 1 /\ 0 < Width
      BY Periods
    <3>. QED
      BY <3>1, SinceThen, Periods
  <2>2. \A b \in K!Buttons : K!Delta(b) = 0 /\ hold[b] = 0 /\ given[b] = 0 /\ longs[b] = 0
    BY <1>1, <2>1 DEF K!Delta
  <2>. QED
    BY <2>2 DEF HoldMeasured
<1>6. LateInv
  BY <1>3 DEF LateInv
<1>7. VolumeInv
  <2>1. NoStepTooMany
    <3>1. PICK q \in Nat : q = 0 \div Period
      BY PeriodsIn, Periods
    <3>. QED
      BY <1>3, <1>4, <3>1, Periods DEF NoStepTooMany
  <2>2. Fresh
    BY <1>3 DEF Fresh
  <2>. QED
    BY <1>3, <1>5, <2>1, <2>2, Keys DEF VolumeInv
<1>8. PairInv
  <2>1. OneEvent
    BY <1>3, Periods DEF OneEvent
  <2>. QED
    BY <1>5, <2>1, Keys DEF PairInv
<1>. QED
  BY <1>2, <1>6, <1>7, <1>8 DEF PressInv

LEMMA ButtonTypesKept ==
    ASSUME K!TypeOK, K!Next
    PROVE  K!TypeOK'
BY EdgeType, IsrType, TickType, TimerType DEF K!Next

LEMMA PressKept ==
    ASSUME PressInv, [MCNext]_<<part, vars, buttonVars>>
    PROVE  PressInv'
<1>1. CASE UNCHANGED <<part, buttonVars>>
  BY <1>1
  DEF PressInv, LateInv, VolumeInv, PairInv, StepsNotEarly, NoStepTooMany, NoStepMissing,
      HoldMeasured, Fresh, OneEvent, Handled, Measured, Full, Last, K!TypeOK, K!Delta,
      buttonVars
<1>2. CASE UNCHANGED part /\ K!PromptNext /\ part # "late"
  <2>1. K!TypeOK'
    BY <1>2, PromptIsNext, ButtonTypesKept DEF PressInv
  <2>2. LateInv'
    BY <1>2 DEF LateInv
  <2>3. VolumeInv'
    BY <1>2, VolumeKept DEF PressInv
  <2>4. PairInv'
    BY <1>2, PairKept DEF PressInv
  <2>. QED
    BY <2>1, <2>2, <2>3, <2>4 DEF PressInv
<1>3. CASE UNCHANGED part /\ K!Next /\ part = "late"
  <2>1. K!TypeOK'
    BY <1>3, ButtonTypesKept DEF PressInv
  <2>2. LateInv'
    BY <1>3, LateKept DEF PressInv
  <2>3. VolumeInv' /\ PairInv'
    BY <1>3 DEF VolumeInv, PairInv
  <2>. QED
    BY <2>1, <2>2, <2>3 DEF PressInv
<1>. QED
  BY <1>1, <1>2, <1>3 DEF MCNext

(* What a press has given when it is over.                                   *)
LEMMA PressGoal ==
    ASSUME PressInv
    PROVE  PressesRight
<1>1. K!TypeOK
  BY DEF PressInv
<1>2. ASSUME NEW b \in K!Buttons, K!Over(b)
      PROVE  Handled(b) /\ Measured(b)
  BY <1>2 DEF K!Over, K!Settled, Handled, Measured
<1>3. part = "volume" => K!VolumeSteps
  <2>1. SUFFICES ASSUME part = "volume", K!Over(Plus)
                 PROVE  NoStepTooMany /\ (~unstarted[Plus] => NoStepMissing) /\ Handled(Plus)
    <3>1. SUFFICES ASSUME NoStepTooMany, ~unstarted[Plus] => NoStepMissing, Handled(Plus)
                   PROVE  /\ given[Plus] <= (hold[Plus] \div Period)
                                + (IF Debounce <= hold[Plus] /\ hold[Plus] <= Short THEN 1 ELSE 0)
                          /\ hold[Plus] >= Debounce /\ ~unstarted[Plus] =>
                                given[Plus] >= 1 /\ given[Plus] >= (hold[Plus] - 1) \div Period
      BY DEF K!VolumeSteps
    <3>. QED
      BY <3>1 DEF NoStepTooMany, NoStepMissing
  <2>. QED
    BY <1>2, <2>1, Keys DEF PressInv, VolumeInv
<1>4. part = "late" => K!StepsBounded
  <2>1. SUFFICES ASSUME part = "late", Measured(Plus), ~unstarted[Plus]
                 PROVE  given[Plus] <= (hold[Plus] \div Period) + 1
    BY DEF K!StepsBounded, Measured
  <2>2. StepsNotEarly
    BY <2>1 DEF PressInv, LateInv
  <2>3. CASE Handled(Plus)
    BY <2>2, <2>3 DEF StepsNotEarly
  <2>4. CASE ~Handled(Plus)
    <3>1. PICK h \in Nat, g \in Nat : h = hold[Plus] /\ g = given[Plus] /\ g * Period <= h
      BY <1>1, <2>2, <2>4, PlusTypes DEF StepsNotEarly, Full
    <3>2. PICK q \in Nat : q = h \div Period /\ g <= q
      BY <3>1, FullPeriods, PeriodsIn, Periods
    <3>. QED
      BY <3>1, <3>2
  <2>. QED
    BY <2>3, <2>4
<1>5. part = "pair" => K!PairClassified
  <2>1. SUFFICES ASSUME part = "pair", K!Over(Pair)
                 PROVE  OneEvent /\ Handled(Pair)
    BY DEF K!PairClassified, OneEvent
  <2>. QED
    BY <1>2, <2>1, Keys DEF PressInv, PairInv
<1>. QED
  BY <1>1, <1>3, <1>4, <1>5 DEF PressesRight

(* Whatever the periods, the time stamps' width and the timer task's queue:  *)
(* the steps of a press of a volume button and the event of one of the pair  *)
(* button are right when interrupts and timer are on time, and there are not *)
(* too many steps however late they are, as long as no command to start the  *)
(* timer was dropped and the hold is shorter than the width (Buttons.c       *)
(* 121-236).                                                                 *)
THEOREM PressesAreRight == MCSpec => []PressesRight
<1>1. MCInit => PressInv
  BY PressInit
<1>2. PressInv /\ [MCNext]_<<part, vars, buttonVars>> => PressInv'
  BY PressKept
<1>3. PressInv => PressesRight
  BY PressGoal
<1>. QED
  BY <1>1, <1>2, <1>3, PTL DEF MCSpec
=============================================================================
