------------------------------ MODULE Broadcast ------------------------------
(***************************************************************************)
(* What the event manager promises: an event that is pushed is put into    *)
(* the manager's own queue at once, and is then owed to everyone who has   *)
(* subscribed.  Each of them gets it once, behind the events it has not    *)
(* read yet, and goes without it only if its queue is full.  A push ends   *)
(* when nobody is owed anything, and what is in the manager's queue is     *)
(* handled.  There are no tables, indices, counters or locks here.         *)
(***************************************************************************)
EXTENDS Naturals, Sequences

CONSTANTS
    Producers,      \* the tasks and interrupt handlers that push events
    Subscribers,    \* those who may ask for a queue of their own
    Capacity        \* of every queue

VARIABLES
    sent,       \* sent[p]: the number of events p has pushed
    members,    \* those who have subscribed
    owed,       \* owed[p]: to whom p's last event is yet to be offered
    own,        \* the manager's queue
    pending     \* pending[s]: the queue of s

vars == <<sent, members, owed, own, pending>>

Init ==
    /\ sent = [p \in Producers |-> 0]
    /\ members = {}
    /\ owed = [p \in Producers |-> {}]
    /\ own = <<>>
    /\ pending = [s \in Subscribers |-> <<>>]

(* A full queue loses the event. *)
Offered(q, e) == IF Len(q) < Capacity THEN Append(q, e) ELSE q

Push(p) ==
    /\ owed[p] = {}
    /\ sent' = [sent EXCEPT ![p] = @ + 1]
    /\ own' = Offered(own, <<p, sent[p] + 1>>)
    /\ owed' = [owed EXCEPT ![p] = members]
    /\ UNCHANGED <<members, pending>>

Offer(p, s) ==
    /\ s \in owed[p]
    /\ pending' = [pending EXCEPT ![s] = Offered(@, <<p, sent[p]>>)]
    /\ owed' = [owed EXCEPT ![p] = @ \ {s}]
    /\ UNCHANGED <<sent, members, own>>

(* The events being pushed in this moment may or may not reach s. *)
Subscribe(s) ==
    /\ s \notin members
    /\ members' = members \cup {s}
    /\ \E reaching \in SUBSET {p \in Producers : sent[p] > 0} :
           owed' = [p \in Producers |->
                       IF p \in reaching THEN owed[p] \cup {s} ELSE owed[p]]
    /\ UNCHANGED <<sent, own, pending>>

Handle ==
    /\ own # <<>>
    /\ own' = Tail(own)
    /\ UNCHANGED <<sent, members, owed, pending>>

Read(s) ==
    /\ pending[s] # <<>>
    /\ pending' = [pending EXCEPT ![s] = Tail(@)]
    /\ UNCHANGED <<sent, members, owed, own>>

Next ==
    \/ \E p \in Producers : Push(p) \/ \E s \in Subscribers : Offer(p, s)
    \/ \E s \in Subscribers : Subscribe(s) \/ Read(s)
    \/ Handle

SafetySpec == Init /\ [][Next]_vars

(* The manager handles what it has queued, and a push is finished. *)
Fairness ==
    /\ WF_vars(Handle)
    /\ \A p \in Producers : WF_vars(\E s \in Subscribers : Offer(p, s))

Spec == SafetySpec /\ Fairness

=============================================================================
