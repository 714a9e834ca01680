-------------------------- MODULE AudioManager_proof --------------------------
(***************************************************************************)
(* Proofs about the audio manager: its requests, for any number of callers *)
(* and calls and every length of the queue, and its asset table, for any   *)
(* set of slots and files and any length of them.                          *)
(***************************************************************************)
EXTENDS MCAudioManager, TLAPS

-----------------------------------------------------------------------------
(* The inductive invariant: a call's semaphore is its own, a request that  *)
(* is under way carries the semaphore of its call, and a semaphore is only *)
(* given after the task was done with the request.                         *)
OwnSemaphores ==
    /\ \A c \in Callers :
           /\ blocking_sem[c] = no[c] /\ no[c] <= made
           /\ pc[c] # "idle" => no[c] # 0
    /\ \A c, d \in Callers : no[c] = no[d] /\ no[c] # 0 => c = d

RequestsCarryThem == \A r \in Queue \cup InHand : r.sem = r.no /\ r.no <= made

GivenWhenServed ==
    /\ given \subseteq served
    /\ task = "give" => req.no \in served /\ req.sem # NULL

Inv ==
    /\ TypeOK /\ OwnSemaphores /\ RequestsCarryThem /\ GivenWhenServed
    /\ SuccessMeansServed /\ WaiterNotForgotten

-----------------------------------------------------------------------------
(* Lemmas about the queue. *)

LEMMA AppendElements ==
    ASSUME NEW S, NEW q \in Seq(S), NEW e \in S
    PROVE  /\ Append(q, e) \in Seq(S)
           /\ Len(Append(q, e)) = Len(q) + 1
           /\ {Append(q, e)[i] : i \in DOMAIN Append(q, e)} =
                  {q[i] : i \in DOMAIN q} \cup {e}
<1>1. /\ Append(q, e) \in Seq(S) /\ Len(Append(q, e)) = Len(q) + 1
      /\ DOMAIN Append(q, e) = DOMAIN q \cup {Len(q) + 1}
      /\ \A i \in DOMAIN q : Append(q, e)[i] = q[i]
      /\ Append(q, e)[Len(q) + 1] = e
  OBVIOUS
<1>. QED
  BY <1>1

LEMMA TailElements ==
    ASSUME NEW S, NEW q \in Seq(S), q # <<>>
    PROVE  /\ Head(q) \in S
           /\ Tail(q) \in Seq(S) /\ Len(Tail(q)) = Len(q) - 1
           /\ {q[i] : i \in DOMAIN q} = {Head(q)} \cup {Tail(q)[i] : i \in DOMAIN Tail(q)}
<1>1. /\ Head(q) = q[1] /\ Head(q) \in S /\ 1 \in DOMAIN q
      /\ Tail(q) \in Seq(S) /\ Len(Tail(q)) = Len(q) - 1
      /\ \A i \in DOMAIN Tail(q) : i + 1 \in DOMAIN q /\ Tail(q)[i] = q[i + 1]
      /\ \A i \in DOMAIN q : i = 1 \/ (i - 1 \in DOMAIN Tail(q) /\ Tail(q)[i - 1] = q[i])
  OBVIOUS
<1>2. ASSUME NEW i \in DOMAIN q
      PROVE  q[i] \in {Head(q)} \cup {Tail(q)[j] : j \in DOMAIN Tail(q)}
  BY <1>1
<1>3. ASSUME NEW j \in DOMAIN Tail(q)
      PROVE  Tail(q)[j] \in {q[i] : i \in DOMAIN q}
  BY <1>1
<1>4. Head(q) \in {q[i] : i \in DOMAIN q}
  BY <1>1
<1>. QED
  BY <1>1, <1>2, <1>3, <1>4

(* A send adds the request or leaves the queue as it is. *)
LEMMA QueuedEffect ==
    ASSUME TypeOK, NEW r \in Requests, Queued(r)
    PROVE  /\ audio_queue' \in Seq(Requests) /\ Len(audio_queue') <= QueueLen
           /\ Queue \subseteq Queue' /\ Queue' \subseteq Queue \cup {r}
           /\ Len(audio_queue) < QueueLen => r \in Queue'
<1>1. CASE Len(audio_queue) < QueueLen
  <2>1. audio_queue \in Seq(Requests) /\ audio_queue' = Append(audio_queue, r)
    BY <1>1 DEF Queued, TypeOK
  <2>2. /\ Append(audio_queue, r) \in Seq(Requests)
        /\ Len(Append(audio_queue, r)) = Len(audio_queue) + 1
        /\ {Append(audio_queue, r)[i] : i \in DOMAIN Append(audio_queue, r)} = Queue \cup {r}
    BY <2>1, AppendElements DEF Queue
  <2>3. Queue' = Queue \cup {r}
    BY <2>1, <2>2 DEF Queue
  <2>. QED
    BY <1>1, <2>1, <2>2, <2>3, LenAssumption
<1>2. CASE ~(Len(audio_queue) < QueueLen)
  BY <1>2 DEF Queued, Queue, TypeOK
<1>. QED
  BY <1>1, <1>2

-----------------------------------------------------------------------------
LEMMA InitInv == Init => Inv
BY LenAssumption
DEF Init, Inv, TypeOK, Requests, Unattended, NULL, OwnSemaphores, RequestsCarryThem, Queue,
    InHand, GivenWhenServed, SuccessMeansServed, WaiterNotForgotten

LEMMA PlayInv ==
    ASSUME Inv, Play
    PROVE  Inv'
<1>. USE DEF Inv
<1>1. Unattended \in Requests /\ Unattended.sem = 0 /\ Unattended.no = 0
  BY DEF Unattended, Requests, NULL
<1>2. /\ audio_queue' \in Seq(Requests) /\ Len(audio_queue') <= QueueLen
      /\ Queue \subseteq Queue' /\ Queue' \subseteq Queue \cup {Unattended}
  BY <1>1, QueuedEffect DEF Play
<1>3. UNCHANGED <<task, req, active, pc, no, blocking_sem, accepted, outcome, made, given,
                  served>>
  BY DEF Play, taskVars, callVars
<1>4. TypeOK'
  BY <1>2, <1>3 DEF TypeOK
<1>5. OwnSemaphores' /\ GivenWhenServed' /\ SuccessMeansServed'
  BY <1>3 DEF OwnSemaphores, GivenWhenServed, SuccessMeansServed
<1>6. InHand' = InHand
  BY <1>3 DEF InHand
<1>7. RequestsCarryThem'
  BY <1>1, <1>2, <1>3, <1>6 DEF RequestsCarryThem, TypeOK
<1>8. WaiterNotForgotten'
  BY <1>2, <1>3, <1>6 DEF WaiterNotForgotten
<1>. QED
  BY <1>4, <1>5, <1>7, <1>8

LEMMA CallBlockingInv ==
    ASSUME Inv, NEW c \in Callers, CallBlocking(c)
    PROVE  Inv'
<1>. USE DEF Inv
<1>1. /\ made' = made + 1 /\ made \in Nat
      /\ no' = [no EXCEPT ![c] = made + 1] /\ no \in [Callers -> Nat]
      /\ blocking_sem' = [blocking_sem EXCEPT ![c] = made + 1]
      /\ blocking_sem \in [Callers -> Nat]
      /\ pc' = [pc EXCEPT ![c] = "send"]
      /\ outcome' = [outcome EXCEPT ![c] = "none"]
      /\ UNCHANGED <<audio_queue, task, req, active, accepted, given, served>>
  BY DEF CallBlocking, taskVars, TypeOK
<1>2. Queue' = Queue /\ InHand' = InHand
  BY <1>1 DEF Queue, InHand
<1>3. TypeOK'
  BY <1>1 DEF TypeOK
<1>4. OwnSemaphores'
  BY <1>1 DEF OwnSemaphores, TypeOK
<1>5. GivenWhenServed' /\ SuccessMeansServed'
  BY <1>1 DEF GivenWhenServed, SuccessMeansServed, TypeOK
<1>6. \A r \in Queue \cup InHand : r.no \in Nat
  <2>1. \A r \in Queue : r \in Requests
    BY DEF TypeOK, Queue
  <2>2. \A r \in InHand : r \in Requests
    BY DEF TypeOK, InHand
  <2>. QED
    BY <2>1, <2>2 DEF Requests
<1>7. RequestsCarryThem'
  BY <1>1, <1>2, <1>6 DEF RequestsCarryThem
<1>8. WaiterNotForgotten'
  BY <1>1, <1>2 DEF WaiterNotForgotten, TypeOK
<1>. QED
  BY <1>3, <1>4, <1>5, <1>7, <1>8

LEMMA CallFailsInv ==
    ASSUME Inv, NEW c \in Callers, CallFails(c) \/ Timeout(c)
    PROVE  Inv'
<1>. USE DEF Inv
<1>1. /\ outcome' = [outcome EXCEPT ![c] = "error"]
      /\ pc' \in {pc, [pc EXCEPT ![c] = "idle"]}
      /\ UNCHANGED <<audio_queue, task, req, active, no, blocking_sem, accepted, made, given,
                     served>>
  BY DEF CallFails, Timeout, taskVars
<1>2. Queue' = Queue /\ InHand' = InHand
  BY <1>1 DEF Queue, InHand
<1>3. TypeOK'
  BY <1>1 DEF TypeOK
<1>4. OwnSemaphores' /\ RequestsCarryThem' /\ GivenWhenServed'
  BY <1>1, <1>2 DEF TypeOK, OwnSemaphores, RequestsCarryThem, GivenWhenServed
<1>5. SuccessMeansServed'
  BY <1>1 DEF TypeOK, SuccessMeansServed
<1>6. WaiterNotForgotten'
  BY <1>1, <1>2 DEF TypeOK, WaiterNotForgotten
<1>. QED
  BY <1>3, <1>4, <1>5, <1>6

LEMMA SendInv ==
    ASSUME Inv, NEW c \in Callers, Send(c)
    PROVE  Inv'
<1>. USE DEF Inv
<1>. DEFINE r == [no |-> no[c], sem |-> blocking_sem[c]]
<1>1. r \in Requests /\ r.no = no[c] /\ r.sem = blocking_sem[c]
  BY DEF TypeOK, Requests
<1>2. /\ audio_queue' \in Seq(Requests) /\ Len(audio_queue') <= QueueLen
      /\ Queue \subseteq Queue' /\ Queue' \subseteq Queue \cup {r}
      /\ Len(audio_queue) < QueueLen => r \in Queue'
  BY <1>1, QueuedEffect DEF Send
<1>3. /\ accepted' = [accepted EXCEPT ![c] = Len(audio_queue) < QueueLen]
      /\ pc' = [pc EXCEPT ![c] = "wait"] /\ pc[c] = "send"
      /\ UNCHANGED <<task, req, active, no, blocking_sem, outcome, made, given, served>>
  BY DEF Send, taskVars
<1>. HIDE DEF r
<1>4. InHand' = InHand
  BY <1>3 DEF InHand
<1>5. accepted' \in [Callers -> BOOLEAN]
  BY <1>3 DEF TypeOK
<1>6. TypeOK'
  BY <1>2, <1>3, <1>5 DEF TypeOK
<1>7. OwnSemaphores' /\ GivenWhenServed' /\ SuccessMeansServed'
  BY <1>3 DEF TypeOK, OwnSemaphores, GivenWhenServed, SuccessMeansServed
<1>8. RequestsCarryThem'
  BY <1>1, <1>2, <1>3, <1>4 DEF RequestsCarryThem, OwnSemaphores
<1>9. ASSUME NEW d \in Callers, pc'[d] = "wait", accepted'[d]
      PROVE  \/ blocking_sem[d] \in given
             \/ \E q \in Queue' \cup InHand : q.sem = blocking_sem[d]
  <2>1. CASE d = c
    <3>1. Len(audio_queue) < QueueLen
      BY <1>3, <1>9, <2>1 DEF TypeOK
    <3>. QED
      BY <1>1, <1>2, <2>1, <3>1
  <2>2. CASE d # c
    BY <1>2, <1>3, <1>9, <2>2 DEF TypeOK, WaiterNotForgotten
  <2>. QED
    BY <2>1, <2>2
<1>10. WaiterNotForgotten'
  BY <1>3, <1>4, <1>9 DEF WaiterNotForgotten
<1>. QED
  BY <1>6, <1>7, <1>8, <1>10

LEMMA TakeInv ==
    ASSUME Inv, NEW c \in Callers, Take(c)
    PROVE  Inv'
<1>. USE DEF Inv
<1>1. /\ pc[c] = "wait" /\ blocking_sem[c] \in given
      /\ given' = given \ {blocking_sem[c]}
      /\ outcome' = [outcome EXCEPT ![c] = IF accepted[c] THEN "ok" ELSE "error"]
      /\ pc' = [pc EXCEPT ![c] = "idle"]
      /\ UNCHANGED <<audio_queue, task, req, active, no, blocking_sem, accepted, made, served>>
  BY DEF Take, taskVars
<1>2. Queue' = Queue /\ InHand' = InHand
  BY <1>1 DEF Queue, InHand
<1>3. TypeOK'
  BY <1>1 DEF TypeOK
<1>4. OwnSemaphores' /\ RequestsCarryThem' /\ GivenWhenServed'
  BY <1>1, <1>2 DEF TypeOK, OwnSemaphores, RequestsCarryThem, GivenWhenServed
<1>5. no[c] \in served
  BY <1>1 DEF OwnSemaphores, GivenWhenServed
<1>6. SuccessMeansServed'
  BY <1>1, <1>5 DEF TypeOK, SuccessMeansServed
<1>7. \A d \in Callers : d # c /\ pc[d] = "wait" => blocking_sem[d] # blocking_sem[c]
  BY <1>1 DEF OwnSemaphores
<1>8. WaiterNotForgotten'
  BY <1>1, <1>2, <1>7 DEF TypeOK, WaiterNotForgotten
<1>. QED
  BY <1>3, <1>4, <1>6, <1>8

LEMMA ReceiveInv ==
    ASSUME Inv, Receive
    PROVE  Inv'
<1>. USE DEF Inv
<1>1. /\ task = "receive" /\ task' = "play" /\ audio_queue # <<>>
      /\ req' = Head(audio_queue) /\ audio_queue' = Tail(audio_queue)
      /\ UNCHANGED <<active, pc, no, blocking_sem, accepted, outcome, made, given, served>>
  BY DEF Receive, callVars
<1>2. /\ req' \in Requests
      /\ audio_queue' \in Seq(Requests) /\ Len(audio_queue') = Len(audio_queue) - 1
      /\ Queue = {req'} \cup Queue'
  <2>1. audio_queue \in Seq(Requests)
    BY DEF TypeOK
  <2>2. /\ Head(audio_queue) \in Requests
        /\ Tail(audio_queue) \in Seq(Requests)
        /\ Len(Tail(audio_queue)) = Len(audio_queue) - 1
        /\ Queue = {Head(audio_queue)} \cup
                      {Tail(audio_queue)[i] : i \in DOMAIN Tail(audio_queue)}
    BY <1>1, <2>1, TailElements DEF Queue
  <2>. QED
    BY <1>1, <2>2 DEF Queue
<1>3. InHand = {} /\ InHand' = {req'}
  BY <1>1 DEF InHand
<1>4. Len(audio_queue) \in Nat
  BY DEF TypeOK
<1>5. TypeOK'
  BY <1>1, <1>2, <1>4, LenAssumption DEF TypeOK
<1>6. Queue' \cup InHand' = Queue \cup InHand
  BY <1>2, <1>3
<1>. QED
  BY <1>1, <1>5, <1>6
  DEF OwnSemaphores, RequestsCarryThem, GivenWhenServed, SuccessMeansServed, WaiterNotForgotten

LEMMA PlayLocalInv ==
    ASSUME Inv, PlayLocal \/ ChunksWritten
    PROVE  Inv'
<1>. USE DEF Inv
<1>1. /\ task \in {"play", "chunks"}
      /\ UNCHANGED <<audio_queue, req, active, pc, no, blocking_sem, accepted, outcome, made,
                     given>>
  BY DEF PlayLocal, ChunksWritten, callVars
<1>2. CASE task' = "chunks" /\ served' = served
  <2>1. Queue' = Queue /\ InHand' = InHand
    BY <1>1, <1>2 DEF Queue, InHand
  <2>2. TypeOK'
    BY <1>1, <1>2 DEF TypeOK
  <2>. QED
    BY <1>1, <1>2, <2>1, <2>2
    DEF OwnSemaphores, RequestsCarryThem, GivenWhenServed, SuccessMeansServed,
        WaiterNotForgotten
<1>3. CASE /\ task' = IF req.sem = NULL THEN "receive" ELSE "give"
           /\ served' = served \cup {req.no}
  <2>1. req.no \in Nat
    BY DEF TypeOK, Requests
  <2>2. TypeOK'
    BY <1>1, <1>3, <2>1 DEF TypeOK
  <2>3. /\ Queue' = Queue /\ InHand = {req}
        /\ InHand' = IF req.sem = NULL THEN {} ELSE {req}
    BY <1>1, <1>3 DEF Queue, InHand
  <2>4. OwnSemaphores' /\ RequestsCarryThem' /\ GivenWhenServed' /\ SuccessMeansServed'
    BY <1>1, <1>3, <2>3
    DEF TypeOK, OwnSemaphores, RequestsCarryThem, GivenWhenServed, SuccessMeansServed
  <2>5. \A c \in Callers : pc[c] = "wait" => blocking_sem[c] # NULL
    BY DEF OwnSemaphores, NULL
  <2>6. WaiterNotForgotten'
    BY <1>1, <1>3, <2>3, <2>5 DEF WaiterNotForgotten
  <2>. QED
    BY <2>2, <2>4, <2>6
<1>. QED
  BY <1>2, <1>3 DEF PlayLocal, ChunksWritten, Played

LEMMA GiveInv ==
    ASSUME Inv, Give
    PROVE  Inv'
<1>. USE DEF Inv
<1>1. /\ task = "give" /\ task' = "receive"
      /\ given' = given \cup {req.sem}
      /\ UNCHANGED <<audio_queue, req, active, pc, no, blocking_sem, accepted, outcome, made,
                     served>>
  BY DEF Give, callVars
<1>2. Queue' = Queue /\ InHand = {req} /\ InHand' = {}
  BY <1>1 DEF Queue, InHand
<1>3. req.sem \in Nat \ {NULL} /\ req.sem = req.no /\ req.no \in served
  BY <1>1, <1>2 DEF TypeOK, Requests, GivenWhenServed, RequestsCarryThem
<1>4. TypeOK'
  BY <1>1, <1>3 DEF TypeOK
<1>. QED
  BY <1>1, <1>2, <1>3, <1>4
  DEF OwnSemaphores, RequestsCarryThem, GivenWhenServed, SuccessMeansServed, WaiterNotForgotten

LEMMA OtherInv ==
    ASSUME Inv, Activate \/ UNCHANGED vars
    PROVE  Inv'
<1>. USE DEF Inv
<1>1. /\ active' \in BOOLEAN
      /\ UNCHANGED <<audio_queue, task, req, pc, no, blocking_sem, accepted, outcome, made,
                     given, served>>
  BY DEF Activate, vars, taskVars, callVars, TypeOK
<1>2. Queue' = Queue /\ InHand' = InHand
  BY <1>1 DEF Queue, InHand
<1>3. TypeOK'
  BY <1>1 DEF TypeOK
<1>. QED
  BY <1>1, <1>2, <1>3
  DEF OwnSemaphores, RequestsCarryThem, GivenWhenServed, SuccessMeansServed, WaiterNotForgotten

LEMMA Invariance == SafetySpec => []Inv
<1>1. Init => Inv
  BY InitInv
<1>2. Inv /\ [Next]_vars => Inv'
  BY PlayInv, CallBlockingInv, CallFailsInv, SendInv, TakeInv, ReceiveInv, PlayLocalInv,
     GiveInv, OtherInv
  DEF Next, CallerNext, TaskNext
<1>. QED
  BY <1>1, <1>2, PTL DEF SafetySpec

(* Every variable keeps its type, the queue its capacity. *)
THEOREM TypeCorrect == SafetySpec => []TypeOK
BY Invariance, PTL DEF Inv

(* Success of a blocking call is about its own request. *)
THEOREM SuccessIsOwn == SafetySpec => []SuccessMeansServed
<1>1. Inv => SuccessMeansServed
  BY DEF Inv
<1>. QED
  BY <1>1, Invariance, PTL

(* No caller whose request was accepted is ever forgotten. *)
THEOREM NoWaiterForgotten == SafetySpec => []WaiterNotForgotten
<1>1. Inv => WaiterNotForgotten
  BY DEF Inv
<1>. QED
  BY <1>1, Invariance, PTL

(* A blocking call waits for its own request, which is not lost. *)
THEOREM OwnRequestIsServed == SafetySpec => []OwnRequestServed
BY TypeCorrect, SuccessIsOwn, NoWaiterForgotten, PTL DEF OwnRequestServed

-----------------------------------------------------------------------------
(* The asset table. *)

LEMMA NotNone ==
    /\ None \notin Files /\ None \notin Nat /\ None \notin Slots
    /\ None \notin [file : Files, len : 0 .. MaxLen]
BY AssetAssumption DEF A!StoreAssumption

LEMMA ChunkKeeps ==
    ASSUME fp \in [file : Files, len : 0 .. MaxLen] \cup {None}, fp # None, fp.len < MaxLen,
           fp' = [fp EXCEPT !.len = @ + 1]
    PROVE  fp' \in [file : Files, len : 0 .. MaxLen] /\ fp'.file = fp.file
<1> USE AssetAssumption DEF A!StoreAssumption
<1>1. fp \in [file : Files, len : 0 .. MaxLen]
  OBVIOUS
<1>2. PICK n \in 0 .. MaxLen : n = fp.len
  BY <1>1
<1>3. n + 1 \in 0 .. MaxLen
  BY <1>2
<1>4. fp' = [file |-> fp.file, len |-> n + 1]
  BY <1>1, <1>2
<1> QED
  BY <1>1, <1>3, <1>4

LEMMA Parts == \A w \in 0 .. 3 : 0 .. w \subseteq 0 .. 3
OBVIOUS

LEMMA TypesOfAssets == A!TypeOK /\ [A!Next]_(A!vars) => A!TypeOK'
<1> SUFFICES ASSUME A!TypeOK, [A!Next]_(A!vars) PROVE A!TypeOK'
  OBVIOUS
<1> USE AssetAssumption DEF A!StoreAssumption
<1> USE DEF A!TypeOK, A!Idle, A!disk, A!upload, A!history, A!client, A!Tables, A!Entry
<1>a. ASSUME NEW f \in Files PROVE [file |-> f, len |-> 0] \in [file : Files, len : 0 .. MaxLen]
  OBVIOUS
<1>b. ASSUME NEW s \in Slots, NEW f \in Files
      PROVE  [active |-> TRUE, slot |-> s, file |-> f] \in
                 [active : BOOLEAN, slot : Slots \cup {None}, file : Files \cup {None}]
  OBVIOUS
<1>1. CASE A!PowerLoss
  <2>1. A!EmptyTable \in A!Tables /\ A!NoUpload \in [active : BOOLEAN, slot : Slots \cup {None}, file : Files \cup {None}]
    BY DEF A!EmptyTable, A!NoUpload
  <2>2. md' \in A!MetaFile \cup {None}
    <3>1. md' = md \/ mdw \in 0 .. 3
      BY <1>1 DEF A!PowerLoss, A!MetaRemains
    <3>2. CASE md' = md
      BY <3>2
    <3>3. CASE mdw \in 0 .. 3 /\ md' # md
      <4>1. md' \in [len : 0 .. mdw, done : 0 .. mdw, tab : {attempt}]
        BY <1>1, <3>3 DEF A!PowerLoss, A!MetaRemains
      <4>2. PICK w \in 0 .. 3 : w = mdw
        BY <3>3
      <4>3. 0 .. w \subseteq 0 .. 3
        BY Parts
      <4> QED
        BY <4>1, <4>2, <4>3 DEF A!MetaFile
    <3> QED
      BY <3>1, <3>2, <3>3
  <2>3. files' \in [Files -> (0 .. MaxLen) \cup {None}] /\ fs' \in {"ok", "bad"}
    BY <1>1 DEF A!PowerLoss
  <2> QED
    BY <1>1, <2>1, <2>2, <2>3 DEF A!PowerLoss, A!RamLost
<1>2. CASE A!Mount
  BY <1>2 DEF A!Mount
<1>3. CASE A!LoadTable
  BY <1>3 DEF A!LoadTable, A!Acceptable, A!TableIn, A!MetaFile
<1>4. CASE A!CreateTable
  BY <1>4 DEF A!CreateTable
<1>5. CASE A!BootReread
  BY <1>5 DEF A!BootReread
<1>6. CASE A!TableOpen
  BY <1>6 DEF A!TableOpen, A!TableReturns
<1>7. CASE A!TableWrite
  BY <1>7 DEF A!TableWrite, A!TableReturns, A!MetaFile
<1>8. CASE A!TableClose
  BY <1>8 DEF A!TableClose, A!TableReturns, A!MetaFile
<1>9. ASSUME NEW s \in Slots, NEW f \in Files, A!AudioStart(s, f) PROVE A!TypeOK'
  <2>1. CASE fp # None \/ reading
    BY <1>9, <2>1 DEF A!AudioStart, A!Answered
  <2>2. CASE fp = None /\ ~reading
    <3>1. /\ path' \in Files /\ reading' = reading
          /\ session' \in {"none", "open", "left"} /\ refused' \in BOOLEAN
      BY <1>9, <2>2 DEF A!AudioStart, A!Answered
    <3>2. \/ fp' = [file |-> f, len |-> 0] /\ cache' = [active |-> TRUE, slot |-> s, file |-> f]
          \/ UNCHANGED <<fp, cache>>
      BY <1>9, <2>2 DEF A!AudioStart
    <3>3. /\ fp' \in [file : Files, len : 0 .. MaxLen] \cup {None}
          /\ cache' \in [active : BOOLEAN, slot : Slots \cup {None}, file : Files \cup {None}]
      <4>1. CASE UNCHANGED <<fp, cache>>
        BY <4>1
      <4>2. CASE fp' = [file |-> f, len |-> 0] /\ cache' = [active |-> TRUE, slot |-> s, file |-> f]
        BY <4>2, <1>a, <1>b
      <4> QED
        BY <3>2, <4>1, <4>2
    <3>4. UNCHANGED <<power, files, md, fs, table, mdw, hpc, good, attempt>>
      BY <1>9 DEF A!AudioStart
    <3> QED
      BY <3>1, <3>3, <3>4
  <2> QED
    BY <2>1, <2>2
<1>10. CASE A!NvmStart
  <2>1. /\ path' \in Files \cup {None} /\ reading' = reading /\ cache' = cache
        /\ session' \in {"none", "open", "left"} /\ refused' \in BOOLEAN
    BY <1>10 DEF A!NvmStart, A!Answered
  <2>2. fp' = [file |-> Audio0, len |-> 0] \/ fp' = fp
    BY <1>10 DEF A!NvmStart
  <2> QED
    BY <1>10, <1>a, <2>1, <2>2 DEF A!NvmStart
<1>11. CASE A!Chunk
  <2>5. fp' \in [file : Files, len : 0 .. MaxLen]
    BY <1>11, ChunkKeeps DEF A!Chunk
  <2> QED
    BY <1>11, <2>5 DEF A!Chunk
<1>12. CASE A!EndUpload
  BY <1>12 DEF A!EndUpload, A!ResetNvm
<1>13. CASE A!EndReopen
  <2>1. reading' \in BOOLEAN /\ hpc' \in {"idle", "record", "endReset"}
    BY <1>13 DEF A!EndReopen
  <2> QED
    BY <1>13, <2>1 DEF A!EndReopen
<1>14. CASE A!EndRecord
  <2>1. A!StoredName(cache.file) \in Files \cup {None, "cut"}
    BY DEF A!StoredName
  <2>2. [active |-> TRUE, name |-> A!StoredName(cache.file)] \in A!Entry
    BY <2>1
  <2>3. table' \in A!Tables
    BY <1>14, <2>2 DEF A!EndRecord
  <2> QED
    BY <1>14, <2>3 DEF A!EndRecord
<1>15. CASE A!EndReset
  BY <1>15 DEF A!EndReset, A!ResetNvm
<1>16. CASE A!EraseChip
  BY <1>16 DEF A!EraseChip
<1>17. CASE A!ClientAborts
  BY <1>17 DEF A!ClientAborts
<1>18. CASE UNCHANGED A!vars
  BY <1>18 DEF A!vars
<1> QED
  BY <1>1, <1>2, <1>3, <1>4, <1>5, <1>6, <1>7, <1>8, <1>9, <1>10, <1>11, <1>12, <1>13, <1>14,
     <1>15, <1>16, <1>17, <1>18 DEF A!Next

LEMMA WritesStep ==
    A!TypeOK /\ A!WriteUnderWay /\ [A!Next]_(A!vars) => A!WriteUnderWay'
<1> SUFFICES ASSUME A!TypeOK, A!WriteUnderWay, [A!Next]_(A!vars) PROVE A!WriteUnderWay'
  OBVIOUS
<1> USE DEF A!WriteUnderWay, A!Idle, A!disk, A!upload, A!history, A!client
<1>1. CASE A!PowerLoss
  BY <1>1 DEF A!PowerLoss, A!RamLost
<1>2. CASE A!Mount
  BY <1>2 DEF A!Mount
<1>3. CASE A!LoadTable
  BY <1>3 DEF A!LoadTable
<1>4. CASE A!CreateTable
  BY <1>4 DEF A!CreateTable
<1>5. CASE A!BootReread
  BY <1>5 DEF A!BootReread
<1>6. CASE A!TableOpen
  BY <1>6 DEF A!TableOpen, A!TableReturns
<1>7. CASE A!TableWrite
  BY <1>7, NotNone DEF A!TableWrite, A!TableReturns
<1>8. CASE A!TableClose
  BY <1>8 DEF A!TableClose, A!TableReturns
<1>9. ASSUME NEW s \in Slots, NEW f \in Files, A!AudioStart(s, f) PROVE A!WriteUnderWay'
  BY <1>9 DEF A!AudioStart
<1>10. CASE A!NvmStart
  BY <1>10 DEF A!NvmStart
<1>11. CASE A!Chunk
  BY <1>11 DEF A!Chunk
<1>12. CASE A!EndUpload
  BY <1>12 DEF A!EndUpload, A!ResetNvm
<1>13. CASE A!EndReopen
  BY <1>13 DEF A!EndReopen
<1>14. CASE A!EndRecord
  BY <1>14 DEF A!EndRecord
<1>15. CASE A!EndReset
  BY <1>15 DEF A!EndReset, A!ResetNvm
<1>16. CASE A!EraseChip
  BY <1>16 DEF A!EraseChip
<1>17. CASE A!ClientAborts
  BY <1>17 DEF A!ClientAborts
<1>18. CASE UNCHANGED A!vars
  BY <1>18 DEF A!vars
<1> QED
  BY <1>1, <1>2, <1>3, <1>4, <1>5, <1>6, <1>7, <1>8, <1>9, <1>10, <1>11, <1>12, <1>13, <1>14,
     <1>15, <1>16, <1>17, <1>18 DEF A!Next

UploadInv ==
    /\ A!FilesOpen /\ A!StaleSlotNeverRecorded /\ A!StartIsAcknowledged
    /\ cache.active => cache.file = path

LEMMA UploadsStep ==
    A!TypeOK /\ A!WriteUnderWay /\ UploadInv /\ [A!Next]_(A!vars) => UploadInv'
<1> SUFFICES ASSUME A!TypeOK, A!WriteUnderWay, UploadInv, [A!Next]_(A!vars) PROVE UploadInv'
  OBVIOUS
<1> USE DEF UploadInv, A!FilesOpen, A!StaleSlotNeverRecorded, A!StartIsAcknowledged,
            A!Idle, A!disk, A!upload, A!history, A!client
<1>1. CASE A!PowerLoss
  BY <1>1 DEF A!PowerLoss, A!RamLost, A!NoUpload
<1>2. CASE A!Mount
  BY <1>2 DEF A!Mount, A!WriteUnderWay
<1>3. CASE A!LoadTable
  BY <1>3 DEF A!LoadTable
<1>4. CASE A!CreateTable
  BY <1>4 DEF A!CreateTable
<1>5. CASE A!BootReread
  BY <1>5 DEF A!BootReread
<1>6. CASE A!TableOpen
  BY <1>6 DEF A!TableOpen, A!TableReturns
<1>7. CASE A!TableWrite
  BY <1>7 DEF A!TableWrite, A!TableReturns, A!WriteUnderWay, A!TypeOK
<1>8. CASE A!TableClose
  BY <1>8 DEF A!TableClose, A!TableReturns
<1>9. ASSUME NEW s \in Slots, NEW f \in Files, A!AudioStart(s, f) PROVE UploadInv'
  <2>1. power \in {"ready", "deaf"} /\ hpc = "idle" /\ UNCHANGED <<power, hpc, reading>>
    BY <1>9 DEF A!AudioStart
  <2>2. CASE fp # None \/ reading
    BY <1>9, <2>1, <2>2 DEF A!AudioStart, A!Answered
  <2>3. CASE fp = None /\ ~reading
    <3>1. /\ path' = f /\ ~refused' /\ ~cache.active
          /\ \/ /\ fp' = [file |-> f, len |-> 0]
                /\ cache' = [active |-> TRUE, slot |-> s, file |-> f]
                /\ session' = "open"
             \/ UNCHANGED <<fp, cache, session>>
      BY <1>9, <2>3 DEF A!AudioStart, A!Answered
    <3>2. [file |-> f, len |-> 0] # None
      BY NotNone, AssetAssumption DEF A!StoreAssumption
    <3> QED
      BY <2>1, <2>3, <3>1, <3>2
  <2> QED
    BY <2>2, <2>3
<1>10. CASE A!NvmStart
  <2>1. power \in {"ready", "deaf"} /\ hpc = "idle" /\ UNCHANGED <<power, hpc, reading, cache>>
    BY <1>10 DEF A!NvmStart
  <2>2. CASE fp # None \/ reading
    BY <1>10, <2>1, <2>2 DEF A!NvmStart, A!Answered
  <2>3. CASE fp = None /\ ~reading
    <3>1. /\ ~refused' /\ ~cache.active
          /\ session' = "open" \/ UNCHANGED <<fp, session>>
      BY <1>10, <2>3 DEF A!NvmStart, A!Answered
    <3> QED
      BY <2>1, <2>3, <3>1
  <2> QED
    BY <2>2, <2>3
<1>11. CASE A!Chunk
  <2>1. /\ power \in {"ready", "deaf"} /\ hpc = "idle" /\ ~refused'
        /\ UNCHANGED <<power, hpc, reading, cache, path, session>> /\ fp # None
    BY <1>11 DEF A!Chunk
  <2>2. fp' \in [file : Files, len : 0 .. MaxLen] /\ fp'.file = fp.file
    BY <1>11, ChunkKeeps DEF A!Chunk, A!TypeOK
  <2>3. fp' # None
    BY <2>2, NotNone
  <2> QED
    BY <2>1, <2>2, <2>3
<1>12. CASE A!EndUpload
  BY <1>12 DEF A!EndUpload, A!ResetNvm, A!TypeOK
<1>13. CASE A!EndReopen
  BY <1>13 DEF A!EndReopen
<1>14. CASE A!EndRecord
  BY <1>14 DEF A!EndRecord
<1>15. CASE A!EndReset
  BY <1>15 DEF A!EndReset, A!ResetNvm, A!TypeOK
<1>16. CASE A!EraseChip
  BY <1>16 DEF A!EraseChip
<1>17. CASE A!ClientAborts
  BY <1>17 DEF A!ClientAborts
<1>18. CASE UNCHANGED A!vars
  BY <1>18 DEF A!vars
<1> QED
  BY <1>1, <1>2, <1>3, <1>4, <1>5, <1>6, <1>7, <1>8, <1>9, <1>10, <1>11, <1>12, <1>13, <1>14,
     <1>15, <1>16, <1>17, <1>18 DEF A!Next

LEMMA VersionsStep ==
    A!TypeOK /\ A!WriteUnderWay /\ A!VersionOnFlash /\ [A!Next]_(A!vars) => A!VersionOnFlash'
<1> SUFFICES ASSUME A!TypeOK, A!WriteUnderWay, A!VersionOnFlash, [A!Next]_(A!vars)
             PROVE  A!VersionOnFlash'
  OBVIOUS
<1> USE DEF A!VersionOnFlash, A!Acceptable, A!Idle, A!disk, A!upload, A!history, A!client
<1>1. CASE A!PowerLoss
  BY <1>1 DEF A!PowerLoss, A!RamLost, A!MetaRemains
<1>2. CASE A!Mount
  BY <1>2 DEF A!Mount, A!WriteUnderWay
<1>3. CASE A!LoadTable
  BY <1>3 DEF A!LoadTable, A!TableIn
<1>4. CASE A!CreateTable
  BY <1>4 DEF A!CreateTable
<1>5. CASE A!BootReread
  BY <1>5 DEF A!BootReread
<1>6. CASE A!TableOpen
  BY <1>6 DEF A!TableOpen, A!TableReturns
<1>7. CASE A!TableWrite
  BY <1>7, NotNone DEF A!TableWrite, A!TableReturns
<1>8. CASE A!TableClose
  BY <1>8, NotNone DEF A!TableClose, A!TableReturns, A!WriteUnderWay
<1>9. ASSUME NEW s \in Slots, NEW f \in Files, A!AudioStart(s, f) PROVE A!VersionOnFlash'
  BY <1>9 DEF A!AudioStart
<1>10. CASE A!NvmStart
  BY <1>10 DEF A!NvmStart
<1>11. CASE A!Chunk
  BY <1>11 DEF A!Chunk
<1>12. CASE A!EndUpload
  BY <1>12 DEF A!EndUpload, A!ResetNvm
<1>13. CASE A!EndReopen
  BY <1>13 DEF A!EndReopen
<1>14. CASE A!EndRecord
  BY <1>14 DEF A!EndRecord
<1>15. CASE A!EndReset
  BY <1>15 DEF A!EndReset, A!ResetNvm
<1>16. CASE A!EraseChip
  BY <1>16 DEF A!EraseChip
<1>17. CASE A!ClientAborts
  BY <1>17 DEF A!ClientAborts
<1>18. CASE UNCHANGED A!vars
  BY <1>18 DEF A!vars
<1> QED
  BY <1>1, <1>2, <1>3, <1>4, <1>5, <1>6, <1>7, <1>8, <1>9, <1>10, <1>11, <1>12, <1>13, <1>14,
     <1>15, <1>16, <1>17, <1>18 DEF A!Next

(* Named files stay, unless the whole volume goes. *)
LEMMA FilesStay ==
    A!TypeOK /\ A!WriteUnderWay /\ [A!Next]_(A!vars) =>
        \/ fs' = "ok" =>
               fs = "ok" /\ \A f \in Files : files[f] # None => files'[f] # None
        \/ md' = None /\ table' = A!EmptyTable /\ hpc' = "idle"
<1> SUFFICES ASSUME A!TypeOK, A!WriteUnderWay, [A!Next]_(A!vars)
             PROVE  \/ fs' = "ok" =>
                           fs = "ok" /\ \A f \in Files : files[f] # None => files'[f] # None
                    \/ md' = None /\ table' = A!EmptyTable /\ hpc' = "idle"
  OBVIOUS
<1> USE DEF A!Idle, A!disk, A!upload, A!history, A!client
<1>1. CASE A!PowerLoss
  <2>1. ASSUME NEW f \in Files, files[f] # None PROVE files'[f] # None
    <3>1. files'[f] \in A!Remains(f)
      BY <1>1 DEF A!PowerLoss
    <3>2. CASE fp # None /\ fp.file = f
      <4>1. fp.len \in 0 .. MaxLen
        BY <3>2 DEF A!TypeOK
      <4>2. \A n \in 0 .. fp.len : n # None
        BY <4>1, NotNone
      <4> QED
        BY <2>1, <3>1, <3>2, <4>2 DEF A!Remains
    <3>3. CASE ~(fp # None /\ fp.file = f)
      BY <2>1, <3>1, <3>3 DEF A!Remains
    <3> QED
      BY <3>2, <3>3
  <2>2. fs' = "ok" => fs = "ok"
    BY <1>1 DEF A!PowerLoss
  <2> QED
    BY <2>1, <2>2
<1>2. CASE A!Mount
  BY <1>2 DEF A!Mount, A!WriteUnderWay
<1>3. A!ResetNvm => \A f \in Files : files[f] # None => files'[f] # None
  <2>1. CASE fp = None
    BY <2>1 DEF A!ResetNvm
  <2>2. CASE fp # None
    <3>1. fp.len \in 0 .. MaxLen /\ fp.len # None
      BY <2>2, NotNone DEF A!TypeOK
    <3> QED
      BY <2>2, <3>1 DEF A!ResetNvm, A!TypeOK
  <2> QED
    BY <2>1, <2>2
<1>4. CASE A!EndUpload
  BY <1>3, <1>4 DEF A!EndUpload
<1>5. CASE A!EndReset
  BY <1>3, <1>5 DEF A!EndReset
<1>6. CASE A!EraseChip
  BY <1>6 DEF A!EraseChip
<1>7. CASE UNCHANGED <<files, fs>>
  BY <1>7
<1>8. CASE UNCHANGED A!vars
  BY <1>8 DEF A!vars
<1>9. ASSUME NEW s \in Slots, NEW f \in Files, A!AudioStart(s, f) PROVE UNCHANGED <<files, fs>>
  BY <1>9 DEF A!AudioStart
<1>10. A!LoadTable \/ A!CreateTable \/ A!BootReread \/ A!TableOpen \/ A!TableWrite \/ A!TableClose
           => UNCHANGED <<files, fs>>
  BY DEF A!LoadTable, A!CreateTable, A!BootReread, A!TableOpen, A!TableWrite, A!TableClose
<1>11. A!NvmStart \/ A!Chunk \/ A!EndReopen \/ A!EndRecord \/ A!ClientAborts
           => UNCHANGED <<files, fs>>
  BY DEF A!NvmStart, A!Chunk, A!EndReopen, A!EndRecord, A!ClientAborts
<1> QED
  BY <1>1, <1>2, <1>4, <1>5, <1>6, <1>7, <1>8, <1>9, <1>10, <1>11 DEF A!Next

NamedInv == A!FilesNamed /\ A!RecordedFilesExist

(* The one step that makes an entry. *)
LEMMA EntryMade ==
    A!TypeOK /\ UploadInv /\ A!FilesNamed /\ A!EndRecord /\ fs = "ok" => A!Recorded(table')
<1> SUFFICES ASSUME A!TypeOK, UploadInv, A!FilesNamed, A!EndRecord, fs = "ok",
                    NEW s \in Slots, table'[s].active, table'[s].name # "cut"
             PROVE  A!FileExists(table'[s].name)
  BY DEF A!Recorded
<1>1. cache.file = path /\ A!FileExists(path)
  BY DEF A!EndRecord, UploadInv, A!StaleSlotNeverRecorded, A!FilesNamed
<1>2. table' = [table EXCEPT ![cache.slot] = [active |-> TRUE, name |-> A!StoredName(cache.file)]]
  BY DEF A!EndRecord
<1>3. CASE s = cache.slot
  <2>1. table'[s].name = A!StoredName(path)
    BY <1>1, <1>2, <1>3 DEF A!TypeOK, A!Tables
  <2> QED
    BY <1>1, <2>1 DEF A!StoredName
<1>4. CASE s # cache.slot
  <2>1. table'[s] = table[s]
    BY <1>2, <1>4 DEF A!TypeOK, A!Tables
  <2> QED
    BY <2>1 DEF A!FilesNamed, A!Recorded
<1> QED
  BY <1>3, <1>4

(* Tables that are loaded or saved are ones whose files were there. *)
LEMMA TablesMove ==
    A!TypeOK /\ A!WriteUnderWay /\ UploadInv /\ NamedInv /\ [A!Next]_(A!vars) /\ fs = "ok" =>
        /\ A!Recorded(table')
        /\ md' # None /\ A!Acceptable(md') => A!Recorded(md'.tab)
<1> SUFFICES ASSUME A!TypeOK, A!WriteUnderWay, UploadInv, NamedInv, [A!Next]_(A!vars), fs = "ok"
             PROVE  /\ A!Recorded(table')
                    /\ md' # None /\ A!Acceptable(md') => A!Recorded(md'.tab)
  OBVIOUS
<1> USE DEF A!Idle, A!disk, A!upload, A!history, A!client
<1>1. A!Recorded(table) /\ (md # None /\ A!Acceptable(md) => A!Recorded(md.tab))
  BY DEF NamedInv, A!FilesNamed, A!RecordedFilesExist
<1>2. mdw # None => attempt = table
  BY DEF A!WriteUnderWay
<1>3. A!Recorded(A!EmptyTable)
  BY DEF A!Recorded, A!EmptyTable
<1>4. CASE UNCHANGED <<md, table>>
  BY <1>1, <1>4
<1>5. CASE A!PowerLoss
  <2>1. md' = md \/ (mdw # None /\ md'.tab = attempt)
    BY <1>5 DEF A!PowerLoss, A!MetaRemains
  <2>2. table' = A!EmptyTable
    BY <1>5 DEF A!PowerLoss, A!RamLost
  <2> QED
    BY <1>1, <1>2, <1>3, <2>1, <2>2
<1>6. CASE A!LoadTable
  <2>1. md' = md /\ (table' = table \/ (md # None /\ A!Acceptable(md) /\ table' = A!TableIn(md)))
    BY <1>6 DEF A!LoadTable
  <2>2. A!Acceptable(md) => A!TableIn(md) = md.tab
    BY DEF A!Acceptable, A!TableIn
  <2> QED
    BY <1>1, <2>1, <2>2
<1>7. CASE A!TableWrite
  <2>1. table' = table /\ (md' = md \/ ~A!Acceptable(md'))
    <3>1. /\ table' = table /\ mdw \in 0 .. 2
          /\ md' = md \/ md' = [len |-> mdw, done |-> mdw, tab |-> attempt]
      BY <1>7 DEF A!TableWrite
    <3> QED
      BY <3>1 DEF A!Acceptable
  <2> QED
    BY <1>1, <2>1
<1>8. CASE A!TableClose
  <2>1. table' = table /\ md'.tab = attempt /\ mdw # None
    BY <1>8, NotNone DEF A!TableClose
  <2> QED
    BY <1>1, <1>2, <2>1
<1>9. CASE A!EndRecord
  <2>1. md' = md
    BY <1>9 DEF A!EndRecord
  <2> QED
    BY <1>1, <1>9, <2>1, EntryMade DEF NamedInv
<1>10. CASE A!EraseChip
  BY <1>1, <1>10 DEF A!EraseChip
<1>11. CASE A!Mount
  BY <1>4, <1>11 DEF A!Mount
<1>12. A!CreateTable \/ A!BootReread \/ A!TableOpen \/ A!NvmStart \/ A!Chunk => UNCHANGED <<md, table>>
  BY DEF A!CreateTable, A!BootReread, A!TableOpen, A!NvmStart, A!Chunk
<1>13. A!EndUpload \/ A!EndReopen \/ A!EndReset \/ A!ClientAborts => UNCHANGED <<md, table>>
  BY DEF A!EndUpload, A!EndReopen, A!EndReset, A!ClientAborts
<1>14. ASSUME NEW s \in Slots, NEW f \in Files, A!AudioStart(s, f) PROVE UNCHANGED <<md, table>>
  BY <1>14 DEF A!AudioStart
<1>15. CASE UNCHANGED A!vars
  BY <1>4, <1>15 DEF A!vars
<1> QED
  BY <1>4, <1>5, <1>6, <1>7, <1>8, <1>9, <1>10, <1>11, <1>12, <1>13, <1>14, <1>15 DEF A!Next

LEMMA ReadBackExists ==
    A!TypeOK /\ UploadInv /\ NamedInv /\ [A!Next]_(A!vars) /\ fs' = "ok" /\ fs = "ok" =>
        (hpc' = "record" /\ reading' => path' = path /\ path # None /\ A!FileExists(path))
<1> SUFFICES ASSUME A!TypeOK, UploadInv, NamedInv, [A!Next]_(A!vars), fs = "ok",
                    hpc' = "record", reading'
             PROVE  path' = path /\ path # None /\ A!FileExists(path)
  OBVIOUS
<1> USE DEF A!Idle, A!disk, A!upload, A!history, A!client
<1>1. hpc = "record" /\ reading => path # None /\ A!FileExists(path)
  BY DEF NamedInv, A!FilesNamed
<1>2. CASE A!EndReopen
  <2>1. fp = None /\ path' = path
    BY <1>2 DEF A!EndReopen, UploadInv, A!FilesOpen
  <2>2. ~reading
    BY <1>2 DEF A!EndReopen
  <2>3. path \in Files /\ files[path] # None
    BY <1>2, <2>1, <2>2, NotNone DEF A!EndReopen, A!TypeOK
  <2> QED
    BY <2>1, <2>3, NotNone DEF A!FileExists
<1>3. CASE A!EndUpload
  BY <1>3 DEF A!EndUpload, A!ResetNvm
<1>4. CASE UNCHANGED <<hpc, reading, path>>
  BY <1>1, <1>4
<1>5. A!PowerLoss => hpc' = "idle"
  BY DEF A!PowerLoss, A!RamLost
<1>6. A!Mount \/ A!LoadTable => UNCHANGED <<hpc, reading, path>>
  BY DEF A!Mount, A!LoadTable
<1>7. A!CreateTable \/ A!BootReread \/ A!EndRecord \/ A!EndReset => hpc' # "record"
  BY DEF A!CreateTable, A!BootReread, A!EndRecord, A!EndReset
<1>8. A!TableOpen \/ A!TableWrite \/ A!TableClose =>
          hpc' # "record" \/ UNCHANGED <<hpc, reading, path>>
  BY DEF A!TableOpen, A!TableWrite, A!TableClose, A!TableReturns
<1>9. ASSUME NEW s \in Slots, NEW f \in Files, A!AudioStart(s, f) PROVE hpc' # "record"
  BY <1>9 DEF A!AudioStart
<1>10. A!NvmStart \/ A!Chunk \/ A!EraseChip \/ A!ClientAborts => hpc' # "record"
  BY DEF A!NvmStart, A!Chunk, A!EraseChip, A!ClientAborts
<1>11. CASE UNCHANGED A!vars
  BY <1>4, <1>11 DEF A!vars
<1> QED
  BY <1>2, <1>3, <1>4, <1>5, <1>6, <1>7, <1>8, <1>9, <1>10, <1>11 DEF A!Next

LEMMA NamedStep ==
    A!TypeOK /\ A!WriteUnderWay /\ UploadInv /\ NamedInv /\ [A!Next]_(A!vars) => NamedInv'
<1> SUFFICES ASSUME A!TypeOK, A!WriteUnderWay, UploadInv, NamedInv, [A!Next]_(A!vars)
             PROVE  NamedInv'
  OBVIOUS
<1>1. CASE md' = None /\ table' = A!EmptyTable /\ hpc' = "idle"
  BY <1>1 DEF NamedInv, A!FilesNamed, A!RecordedFilesExist, A!Recorded, A!EmptyTable
<1>2. CASE fs' # "ok"
  BY <1>2 DEF NamedInv, A!FilesNamed, A!RecordedFilesExist
<1>3. CASE fs' = "ok" /\ fs = "ok" /\ \A f \in Files : files[f] # None => files'[f] # None
  <2>1. ASSUME NEW n, A!FileExists(n) PROVE n \in Files /\ files'[n] # None
    BY <1>3, <2>1 DEF A!FileExists
  <2>2. A!Recorded(table') => A!Recorded(table)'
    BY <2>1 DEF A!Recorded, A!FileExists
  <2>3. A!Recorded(md'.tab) => A!Recorded(md.tab)'
    BY <2>1 DEF A!Recorded, A!FileExists
  <2>4. A!Acceptable(md') <=> A!Acceptable(md)'
    BY DEF A!Acceptable
  <2>5. A!RecordedFilesExist'
    BY <1>3, <2>3, <2>4, TablesMove DEF A!RecordedFilesExist
  <2>6. hpc' = "record" /\ reading' => path' # None /\ A!FileExists(path)'
    <3> SUFFICES ASSUME hpc' = "record", reading' PROVE path' # None /\ A!FileExists(path)'
      OBVIOUS
    <3>1. path' = path /\ path # None /\ A!FileExists(path)
      BY <1>3, ReadBackExists
    <3> QED
      BY <2>1, <3>1 DEF A!FileExists
  <2> QED
    BY <1>3, <2>2, <2>5, <2>6, TablesMove DEF NamedInv, A!FilesNamed
<1> QED
  BY <1>1, <1>2, <1>3, FilesStay

-----------------------------------------------------------------------------
LEMMA AssetsInitially == MCInit => A!IInv
<1> SUFFICES ASSUME A!Init PROVE A!IInv
  BY DEF MCInit
<1> USE DEF A!Init, A!NoUpload, A!EmptyTable
<1>1. A!TypeOK
  BY AssetAssumption DEF A!StoreAssumption, A!TypeOK, A!Tables, A!Entry
<1>2. A!WriteUnderWay /\ A!FilesOpen /\ A!FilesNamed /\ A!VersionOnFlash
  BY DEF A!WriteUnderWay, A!FilesOpen, A!FilesNamed, A!VersionOnFlash, A!Recorded
<1>3. A!RecordedFilesExist /\ A!StaleSlotNeverRecorded /\ A!StartIsAcknowledged
  BY DEF A!RecordedFilesExist, A!StaleSlotNeverRecorded, A!StartIsAcknowledged
<1> QED
  BY <1>1, <1>2, <1>3 DEF A!IInv

LEMMA AssetsStep == A!IInv /\ [MCNext]_<<part, vars, storeVars>> => A!IInv'
<1> SUFFICES ASSUME A!IInv, [MCNext]_<<part, vars, storeVars>> PROVE A!IInv'
  OBVIOUS
<1>1. [A!Next]_(A!vars)
  BY DEF MCNext, storeVars, A!vars, A!disk, A!upload, A!history, A!client
<1>2. A!TypeOK /\ A!WriteUnderWay /\ UploadInv /\ A!VersionOnFlash /\ NamedInv
  BY DEF A!IInv, UploadInv, NamedInv
<1>3. A!TypeOK' /\ A!WriteUnderWay'
  BY <1>1, <1>2, TypesOfAssets, WritesStep
<1>4. UploadInv' /\ A!VersionOnFlash' /\ NamedInv'
  BY <1>1, <1>2, UploadsStep, VersionsStep, NamedStep
<1> QED
  BY <1>3, <1>4 DEF A!IInv, UploadInv, NamedInv

(* The table of the audio manager names files that exist, no stale slot is  *)
(* recorded and no client is turned away for another's open file            *)
(* (audio_manager.c 466-547), wherever the power goes.                      *)
THEOREM TableIsHonest == MCSpec => []TableHonest
<1>1. A!IInv => TableHonest
  BY DEF A!IInv, TableHonest
<1> QED
  BY <1>1, AssetsInitially, AssetsStep, PTL DEF MCSpec

(* Only tables this code wrote are taken from flash (96-161).               *)
THEOREM LoadedTablesAreVersions == MCSpec => LoadedTableIsAVersion
<1>1. A!IInv /\ [MCNext]_<<part, vars, storeVars>> =>
          [power = "mounted" /\ power' = "ready" => table' \in {good, attempt}]_(A!vars)
  <2> SUFFICES ASSUME A!IInv, [MCNext]_<<part, vars, storeVars>>, power = "mounted", power' = "ready"
               PROVE  table' \in {good, attempt}
    OBVIOUS
  <2>1. A!Next
    BY DEF MCNext, storeVars
  <2>2. CASE A!LoadTable
    <3>1. md # None /\ A!Acceptable(md) /\ table' = A!TableIn(md)
      BY <2>2 DEF A!LoadTable
    <3>2. A!TableIn(md) = md.tab
      BY <3>1 DEF A!Acceptable, A!TableIn
    <3> QED
      BY <3>1, <3>2 DEF A!IInv, A!VersionOnFlash
  <2>3. CASE A!BootReread
    BY <2>3 DEF A!BootReread, A!IInv, A!VersionOnFlash
  <2>4. A!PowerLoss \/ A!Mount => power' # "ready"
    BY DEF A!PowerLoss, A!Mount
  <2>5. A!CreateTable \/ A!TableOpen \/ A!TableWrite \/ A!TableClose => power' # "ready" \/ power' = power
    BY DEF A!CreateTable, A!TableOpen, A!TableWrite, A!TableClose, A!TableReturns
  <2>6. ASSUME NEW s \in Slots, NEW f \in Files, A!AudioStart(s, f) PROVE power' = power
    BY <2>6 DEF A!AudioStart
  <2>7. A!NvmStart \/ A!Chunk \/ A!EndUpload \/ A!EndReopen => power' = power
    BY DEF A!NvmStart, A!Chunk, A!EndUpload, A!EndReopen
  <2>8. A!EndRecord \/ A!EndReset \/ A!EraseChip \/ A!ClientAborts => power' = power
    BY DEF A!EndRecord, A!EndReset, A!EraseChip, A!ClientAborts
  <2> QED
    BY <2>1, <2>2, <2>3, <2>4, <2>5, <2>6, <2>7, <2>8 DEF A!Next
<1> QED
  BY <1>1, AssetsInitially, AssetsStep, PTL DEF MCSpec, LoadedTableIsAVersion, A!LoadedTableIsAVersion
===============================================================================
