---------------------------- MODULE AvrcpController ----------------------------
(***************************************************************************)
(* The AVRCP controller of the speaker: how it follows the player          *)
(* (main/bluetooth_audio/bt_app_av.c 94-163, 301-369, 504-524).  After a   *)
(* connection it asks which notifications the player supports, registers   *)
(* for track, play status and position changes, and registers again in     *)
(* the handler of every notification, because a registration is good for   *)
(* one change.  The callback runs in the Bluetooth stack's task and hands  *)
(* each event to BtAppTask through a queue; an event that finds the queue  *)
(* full is dropped.  The end of the session deletes task and queue,        *)
(* whatever they hold.                                                     *)
(*                                                                         *)
(* The player and the stack are external.  One attribute text stands for   *)
(* the four of a metadata response.                                        *)
(***************************************************************************)
EXTENDS Integers, Sequences, FiniteSets, SequencesExt

CONSTANTS
    Supported,   \* the notifications the player supports
    QLen,        \* length of the work queue, 10 in the code
    MaxTexts     \* bound: attribute texts in memory

Notifications == {"TRACK", "STATUS", "POSITION"}

ControllerAssumption ==
    /\ Supported \subseteq Notifications
    /\ QLen \in Nat \ {0}
    /\ MaxTexts \in Nat

VARIABLES
    up,          \* the AVRCP connection
    cmds,        \* commands on their way to the player
    registered,  \* player: the notifications it owes the speaker
    queue,       \* BtAppTask's queue
    todo,        \* BtAppTask: what its handler still has to do
    caps,        \* s_avrc_peer_rn_cap
    texts,       \* attribute texts allocated and not freed
    missed       \* history: an event of this connection was dropped

link == <<up, cmds, registered>>
task == <<todo, caps>>
vars == <<link, queue, task, texts, missed>>

Command == [kind : {"caps", "metadata"}] \cup [kind : {"register"}, n : Supported]
Event == [kind : {"up", "down", "caps", "metadata", "other"}]
         \cup [kind : {"change"}, n : Notifications]

\* A metadata handler has the text in its hand until it has freed it.
FreeText == [kind |-> "free"]

TypeOK ==
    /\ up \in BOOLEAN
    /\ cmds \in Seq(Command)
    /\ registered \subseteq Supported
    /\ queue \in Seq(Event) /\ Len(queue) <= QLen
    /\ todo \in Seq(Command) \cup {<<FreeText>>}
    /\ caps \in {{}, Supported}
    /\ texts \in 0 .. MaxTexts
    /\ missed \in BOOLEAN

Init ==
    /\ up = FALSE
    /\ cmds = <<>>
    /\ registered = {}
    /\ queue = <<>>
    /\ todo = <<>>
    /\ caps = {}
    /\ texts = 0
    /\ missed = FALSE

-----------------------------------------------------------------------------
(* bt_app_rc_ct_cb, in the stack's task.                                     *)

\* bt_app_work_dispatch: the event is dropped when the queue is full.
Dispatch(event) ==
    IF Len(queue) < QLen
      THEN queue' = Append(queue, event) /\ UNCHANGED missed
      ELSE missed' = TRUE /\ UNCHANGED queue

\* A new connection finds nothing of the old one but what is still queued.
Connect ==
    /\ ~up
    /\ up' = TRUE
    /\ cmds' = <<>>
    /\ IF Len(queue) < QLen
         THEN /\ queue' = Append(queue, [kind |-> "up"])
              /\ missed' = (missed /\ (queue # <<>> \/ todo # <<>>))
         ELSE Dispatch([kind |-> "up"])
    /\ UNCHANGED <<registered, task, texts>>

Disconnect ==
    /\ up
    /\ up' = FALSE
    /\ cmds' = <<>>
    /\ registered' = {}
    /\ Dispatch([kind |-> "down"])
    /\ UNCHANGED <<task, texts>>

\* The player answers its oldest command.  bt_app_alloc_meta_buffer copies
\* the text before the event is dispatched.
Answer ==
    /\ up
    /\ cmds # <<>>
    /\ cmds' = Tail(cmds)
    /\ LET cmd == Head(cmds) IN
         \/ /\ cmd.kind = "caps"
            /\ Dispatch([kind |-> "caps"])
            /\ UNCHANGED <<registered, texts>>
         \/ /\ cmd.kind = "metadata"
            /\ texts < MaxTexts
            /\ texts' = texts + 1
            /\ Dispatch([kind |-> "metadata"])
            /\ UNCHANGED registered
         \/ /\ cmd.kind = "register"
            /\ registered' = registered \cup {cmd.n}
            /\ UNCHANGED <<queue, texts, missed>>
    /\ UNCHANGED <<up, task>>

\* A track ends, playing starts or stops, time passes.
Change(n) ==
    /\ n \in registered
    /\ registered' = registered \ {n}
    /\ Dispatch([kind |-> "change", n |-> n])
    /\ UNCHANGED <<up, cmds, task, texts>>

\* A passthrough response, a remote features event or an A2DP or AVRCP
\* target event: the handlers of all profiles share the queue.
OtherEvent ==
    /\ up
    /\ Dispatch([kind |-> "other"])
    /\ UNCHANGED <<link, task, texts>>

Stack ==
    \/ Connect
    \/ Disconnect
    \/ Answer
    \/ \E n \in Supported : Change(n)
    \/ OtherEvent

-----------------------------------------------------------------------------
(* BtAppTask.                                                                *)

\* bt_av_new_track, bt_av_playback_changed, bt_av_play_pos_changed: register
\* again if the player is known to support it; a track also asks for its
\* metadata.
FollowUp(n, known) ==
    (IF n = "TRACK" THEN <<[kind |-> "metadata"]>> ELSE <<>>)
    \o (IF n \in known THEN <<[kind |-> "register", n |-> n]>> ELSE <<>>)

\* bt_av_hdl_avrc_ct_evt.
HandleUp ==
    /\ todo' = <<[kind |-> "caps"]>>
    /\ UNCHANGED <<caps, texts>>

HandleDown ==
    /\ caps' = {}
    /\ UNCHANGED <<todo, texts>>

HandleCaps ==
    /\ caps' = Supported
    /\ todo' = FollowUp("TRACK", caps') \o FollowUp("STATUS", caps') \o FollowUp("POSITION", caps')
    /\ UNCHANGED texts

HandleChange(n) ==
    /\ todo' = FollowUp(n, caps)
    /\ UNCHANGED <<caps, texts>>

\* Mutant of HandleMetadata: the text is not freed while the player is unknown.
KeepUnknownMetadata ==
    /\ todo' = IF caps = {} THEN <<>> ELSE <<FreeText>>
    /\ UNCHANGED <<caps, texts>>

HandleMetadata ==
    /\ todo' = <<FreeText>>
    /\ UNCHANGED <<caps, texts>>

Handle ==
    /\ todo = <<>>
    /\ queue # <<>>
    /\ queue' = Tail(queue)
    /\ LET event == Head(queue) IN
         \/ event.kind = "up" /\ HandleUp
         \/ event.kind = "down" /\ HandleDown
         \/ event.kind = "caps" /\ HandleCaps
         \/ event.kind = "change" /\ HandleChange(event.n)
         \/ event.kind = "metadata" /\ HandleMetadata
         \/ event.kind = "other" /\ UNCHANGED <<task, texts>>
    /\ UNCHANGED <<link, missed>>

\* A command is sent if there is a connection.
SendCommand ==
    /\ todo \notin {<<>>, <<FreeText>>}
    /\ todo' = Tail(todo)
    /\ cmds' = IF up THEN Append(cmds, Head(todo)) ELSE cmds
    /\ UNCHANGED <<up, registered, queue, caps, texts, missed>>

Free ==
    /\ todo = <<FreeText>>
    /\ todo' = <<>>
    /\ texts' = texts - 1
    /\ UNCHANGED <<link, queue, caps, missed>>

BtAppTask == Handle \/ SendCommand \/ Free

\* bt_app_task_shut_down, with the profiles down: the task is deleted in the
\* middle of a handler, the queue with the events left in it, and nobody frees
\* the texts they point to.  s_avrc_peer_rn_cap stays as it is.
ShutDown ==
    /\ up' = FALSE /\ cmds' = <<>> /\ registered' = {}
    /\ queue' = <<>> /\ todo' = <<>>
    /\ UNCHANGED <<caps, texts, missed>>

-----------------------------------------------------------------------------
Next == Stack \/ BtAppTask \/ ShutDown

SafetySpec == Init /\ [][Next]_vars

\* BtAppTask keeps running and the player answers.
Spec == SafetySpec /\ WF_vars(BtAppTask) /\ WF_vars(Answer)

-----------------------------------------------------------------------------
Queued(kind) == \E i \in DOMAIN queue : queue[i].kind = kind
Coming(n) ==
    \/ \E i \in DOMAIN queue : queue[i] = [kind |-> "change", n |-> n]
    \/ Contains(todo, [kind |-> "register", n |-> n])
    \/ Contains(cmds, [kind |-> "register", n |-> n])
AskingCaps ==
    \/ Queued("up") \/ Queued("caps")
    \/ Contains(todo, [kind |-> "caps"]) \/ Contains(cmds, [kind |-> "caps"])

(* As long as no event was dropped, a connected player owes the speaker     *)
(* every notification it supports, or the step that registers for it is on  *)
(* its way; also when the connection was lost and made again while events   *)
(* of the old one, its end included, were still queued.                     *)
NotificationsKept ==
    up /\ ~missed => AskingCaps \/ \A n \in Supported : n \in registered \/ Coming(n)

MetadataQueued == Cardinality({i \in DOMAIN queue : queue[i].kind = "metadata"})

\* The texts that an event on its way, or the handler at work, will free.
Held == MetadataQueued + (IF todo = <<FreeText>> THEN 1 ELSE 0)
Leaked == texts - Held

(* Every text the callback allocates (94-102) is freed by the handler of    *)
(* its event (337), once, whatever happened to the connection in between.   *)
(* There are two leaks, and no more goes in either than must: a full queue  *)
(* takes the text of the one event it drops (bt_app_core.c 56), and the end *)
(* of the session those of the events not handled yet (bt_app_core.c 154).  *)
TextsFreed ==
    [][Leaked' # Leaked =>
          \/ Len(queue) = QLen /\ Leaked' = Leaked + 1 /\ missed'
          \/ ShutDown /\ Leaked' = Leaked + Held]_vars

\* The end of an old connection is followed by the start of this one, and
\* until the capabilities are known they are asked for.
OldEndFirst ==
    up /\ ~missed =>
        \A i \in DOMAIN queue : queue[i].kind = "down" =>
            \E j \in DOMAIN queue : j > i /\ queue[j].kind = "up"
CapsKnownOrAsked == up /\ ~missed => AskingCaps \/ caps = Supported

IInv ==
    /\ TypeOK
    /\ OldEndFirst /\ CapsKnownOrAsked /\ NotificationsKept
    /\ Held <= texts

(* After a connection every supported notification gets registered, unless *)
(* the connection is lost or an event is dropped first, or the texts leaked *)
(* by dropped events have used up their bound.                              *)
PlayerFollowed ==
    \A n \in Supported :
        up ~> (~up \/ missed \/ texts = MaxTexts \/ n \in registered)
=============================================================================
