------------------------------- MODULE TcpShell -------------------------------
(***************************************************************************)
(* The TCP shell of the Wi-Fi build (main/TCP_Shell/tcp_shell.c and        *)
(* message_handlers.c): a server task that accepts one connection at a     *)
(* time, receives into the shared rx_buffer and announces a valid message  *)
(* with a binary semaphore, and a handler task that reads rx_buffer, runs  *)
(* the handler of its id and sends the reply to whatever sock_handle is    *)
(* then.  The client follows Scripts/socket_test.py: it sends a    *)
(* request and waits for the reply, but may also go away while it waits    *)
(* (and come back), send a message it expects no reply to, or have a       *)
(* message arrive in two segments.                                         *)
(*                                                                         *)
(* Requests are numbered.  A message is its number, its id and whether     *)
(* message_is_valid accepts it; a reply is its id and whether it has a     *)
(* payload.  The effects of the handlers on files, audio, buses and clock  *)
(* belong to other modules; here a handler is the replies it may give.     *)
(***************************************************************************)
EXTENDS Naturals, Sequences

CONSTANTS
    Ids,        \* the message ids the client uses
    MaxReq,     \* bound: requests sent
    MaxConn,    \* bound: connections made
    CanHurry,   \* whether the client may leave while it waits
    CanForgo,   \* whether it may send without expecting a reply
    CanSplit    \* whether a message may arrive in two segments

-----------------------------------------------------------------------------
(* message_handlers.c: the replies of every handler.  sized means that the  *)
(* handler sets payload_size; the others leave the field as they find it.   *)

Plain(kind) == {[kind |-> kind, sized |-> FALSE]}
Full(kind) == {[kind |-> kind, sized |-> TRUE]}

\* Commands are answered ACK or NACK, queries with their own id and a payload
\* or NACK, reads always with their own id and a payload.
NvmCommands == {"NVM_START", "NVM_SEND_DATA", "NVM_STOP", "NVM_ERASE_CHIP"}
AudioCommands == {"AUDIO_LOAD_START", "PLAY_AUDIO_ASSET"}
BusCommands == {"I2C_WRITE"}
GpioCommands == {"GPIO_SET_CONFIG", "GPIO_WRITE"}

BusQueries == {"STACK_INFO", "I2C_WRITE_READ"}
AdcQueries == {"ADC_READ"}
BatteryQueries == {"BATT_GET_SOC", "BATT_GET_VOLTAGE"}

MiscReads == {"TEST", "ECHO"}
AudioReads == {"AUDIO_META_DATA"}
MemReads == {"MEM_READ_SCRATCH", "MEM_READ"}
GpioReads == {"GPIO_READ"}
ClockReads == {"RTC_GET_TIME"}

AlwaysAcked == {"ACK", "MEM_WRITE", "RTC_SET_TIME"}
AlwaysRefused == {"NACK", "I2C_BUS_SCAN"}

Commands == NvmCommands \cup AudioCommands \cup BusCommands \cup GpioCommands
Queries == BusQueries \cup AdcQueries \cup BatteryQueries
Reads == MiscReads \cup AudioReads \cup MemReads \cup GpioReads \cup ClockReads

\* handler_list: the ids below NUM_MESSAGE_IDS and what each may answer.
KnownIds == Commands \cup Queries \cup Reads \cup AlwaysAcked \cup AlwaysRefused

Replies(id) ==
    (IF id \in Commands \cup AlwaysAcked THEN Plain("ACK") ELSE {})
    \cup (IF id \in Commands \cup Queries \cup AlwaysRefused THEN Plain("NACK") ELSE {})
    \cup (IF id \in Queries \cup Reads THEN Full(id) ELSE {})

Reply == [kind : KnownIds, sized : BOOLEAN]

\* An id the firmware does not have, from a client of another version or
\* from the middle of a message.
Unknown == "?"

ASSUME ShellAssumption ==
    /\ Ids \subseteq KnownIds \cup {Unknown}
    /\ MaxReq \in Nat
    /\ MaxConn \in Nat
    /\ CanHurry \in BOOLEAN /\ CanForgo \in BOOLEAN /\ CanSplit \in BOOLEAN

-----------------------------------------------------------------------------
VARIABLES
    client,    \* "closed", "open" or "waiting"
    conn,      \* number of the client's latest connection
    sent,      \* number of its latest request
    asked,     \* id of its latest request
    wire,      \* per connection: segments on their way to the server
    state,     \* per connection: "up", "fin" once the client has left it, or "rst"
    answers,   \* per connection: replies on their way to the client
    srv,       \* server task: "accept", "recv" or "nack"
    accepted,  \* number of the last connection the server accepted
    sock,      \* sock_handle: the accepted connection, or 0 for -1
    wifi,      \* wifi_connection
    rx,        \* rx_buffer: the last segment received
    sem,       \* xDataReadySem, a binary semaphore
    hnd,       \* handler task: "take", "handle", "run" or "send"
    job,       \* handler: the id it dispatches on and whose message it has
    tx,        \* tx_buffer's header
    erring,    \* the send loop's to_write has outgrown the reply
    clean,     \* history: the shell was quiet when it accepted sock
    strict     \* history: on conn, every message expected its reply

peer == <<client, conn, sent, asked>>
link == <<wire, state, answers>>
server == <<srv, accepted, sock, wifi>>
buffer == <<rx, sem>>
handler == <<hnd, job, tx, erring>>
history == <<clean, strict>>
vars == <<peer, link, server, buffer, handler, history>>

Conns == 1 .. MaxConn
Segment == [n : 0 .. MaxReq, id : Ids \cup {Unknown}, ok : BOOLEAN]
Answer == [to : 0 .. MaxReq, kind : KnownIds, sized : BOOLEAN, junk : BOOLEAN]

TypeOK ==
    /\ client \in {"closed", "open", "waiting"}
    /\ conn \in 0 .. MaxConn
    /\ sent \in 0 .. MaxReq
    /\ asked \in Ids \cup {Unknown}
    /\ wire \in [Conns -> Seq(Segment)]
    /\ state \in [Conns -> {"up", "fin", "rst"}]
    /\ answers \in [Conns -> Seq(Answer)]
    /\ srv \in {"accept", "recv", "nack"}
    /\ accepted \in 0 .. conn
    /\ sock \in {0, accepted}
    /\ wifi \in BOOLEAN
    /\ rx \in Segment
    /\ sem \in BOOLEAN
    /\ hnd \in {"take", "handle", "run", "send"}
    /\ job \in [id : Ids \cup {Unknown}, n : 0 .. MaxReq, payload : 0 .. MaxReq]
    /\ tx \in Reply
    /\ erring \in BOOLEAN
    /\ clean \in BOOLEAN
    /\ strict \in BOOLEAN

Init ==
    /\ client = "closed"
    /\ conn = 0
    /\ sent = 0
    /\ asked = Unknown
    /\ wire = [c \in Conns |-> <<>>]
    /\ state = [c \in Conns |-> "up"]
    /\ answers = [c \in Conns |-> <<>>]
    /\ srv = "accept"
    /\ accepted = 0
    /\ sock = 0
    /\ wifi = FALSE
    /\ rx = [n |-> 0, id |-> Unknown, ok |-> FALSE]
    /\ sem = FALSE
    /\ hnd = "take"
    /\ job = [id |-> Unknown, n |-> 0, payload |-> 0]
    /\ tx = [kind |-> "ACK", sized |-> FALSE]
    /\ erring = FALSE
    /\ clean = FALSE
    /\ strict = TRUE

-----------------------------------------------------------------------------
(* The client.                                                               *)

Connect ==
    /\ client = "closed"
    /\ conn < MaxConn
    /\ client' = "open"
    /\ conn' = conn + 1
    /\ strict' = TRUE
    /\ UNCHANGED <<sent, asked, link, server, buffer, handler, clean>>

\* send_message: one sendall, and a recv when a reply is expected.  A message
\* that arrives in two segments, or that expects no reply, ends the strict
\* request and reply of the connection.
Send(id, expected, split) ==
    /\ client = "open"
    /\ sent < MaxReq
    /\ expected \/ CanForgo
    /\ split => CanSplit
    /\ sent' = sent + 1
    /\ asked' = id
    /\ client' = (IF expected THEN "waiting" ELSE "open")
    /\ wire' = [wire EXCEPT ![conn] =
                    IF split
                    THEN @ \o <<[n |-> sent + 1, id |-> id, ok |-> FALSE],
                                [n |-> sent + 1, id |-> Unknown, ok |-> FALSE]>>
                    ELSE Append(@, [n |-> sent + 1, id |-> id, ok |-> TRUE])]
    /\ strict' = (strict /\ expected /\ ~split)
    /\ UNCHANGED <<conn, state, answers, server, buffer, handler, clean>>

Receive ==
    /\ client = "waiting"
    /\ answers[conn] # <<>>
    /\ client' = "open"
    /\ answers' = [answers EXCEPT ![conn] = Tail(@)]
    /\ UNCHANGED <<conn, sent, asked, wire, state, server, buffer, handler, history>>

\* close() sends a FIN, or a reset when a reply is left unread.
Leave ==
    /\ client = "open" \/ (client = "waiting" /\ CanHurry)
    /\ client' = "closed"
    /\ \E how \in {"fin", "rst"} : state' = [state EXCEPT ![conn] = how]
    /\ UNCHANGED <<conn, sent, asked, wire, answers, server, buffer, handler, history>>

-----------------------------------------------------------------------------
(* tcp_server_task and do_retransmit.                                        *)

SrvAccept ==
    /\ srv = "accept"
    /\ accepted < conn
    /\ accepted' = accepted + 1
    /\ sock' = accepted + 1
    /\ wifi' = TRUE
    /\ srv' = "recv"
    /\ clean' = (hnd = "take" /\ ~sem)
    /\ UNCHANGED <<peer, link, buffer, handler, strict>>

\* message_is_valid decides between the semaphore and a NACK.  Giving a
\* binary semaphore that is already full fails, which is only logged.
Received(seg) ==
    /\ rx' = seg
    /\ IF seg.ok
       THEN sem' = TRUE /\ UNCHANGED srv
       ELSE srv' = "nack" /\ UNCHANGED sem

SrvRecv ==
    /\ srv = "recv"
    /\ wire[sock] # <<>>
    /\ Received(Head(wire[sock]))
    /\ wire' = [wire EXCEPT ![sock] = Tail(@)]
    /\ UNCHANGED <<peer, state, answers, accepted, sock, wifi, handler, history>>

\* One recv may return two segments: the two halves of a message are then
\* whole again, two messages have the wrong length.
SrvRecvTwo ==
    /\ srv = "recv"
    /\ Len(wire[sock]) >= 2
    /\ LET a == wire[sock][1]
           b == wire[sock][2]
       IN  Received([a EXCEPT !.ok = (a.n = b.n)])
    /\ wire' = [wire EXCEPT ![sock] = Tail(Tail(@))]
    /\ UNCHANGED <<peer, state, answers, accepted, sock, wifi, handler, history>>

\* send() of reply a to connection c: delivered, or answered with a reset
\* once the client has left; on a connection that was reset it returns -1.
Delivered(c, a) ==
    \/ /\ state[c] = "up"
       /\ answers' = [answers EXCEPT ![c] = Append(@, a)]
       /\ UNCHANGED state
    \/ /\ state[c] = "fin"
       /\ state' = [state EXCEPT ![c] = "rst"]
       /\ UNCHANGED answers

SrvNack ==
    /\ srv = "nack"
    /\ srv' = "recv"
    /\ Delivered(sock, [to |-> rx.n, kind |-> "NACK", sized |-> FALSE, junk |-> FALSE])
    /\ UNCHANGED <<peer, wire, accepted, sock, wifi, buffer, handler, history>>

\* When send() fails, to_write grows, and the loop has no other way out.
SrvNackFails ==
    /\ srv = "nack"
    /\ state[sock] = "rst"
    /\ UNCHANGED vars

\* recv returns 0, or an error that discards what was still on its way.
SrvHangup ==
    /\ srv = "recv"
    /\ state[sock] # "up"
    /\ sock' = 0
    /\ wifi' = FALSE
    /\ srv' = "accept"
    /\ UNCHANGED <<peer, link, accepted, buffer, handler, history>>

-----------------------------------------------------------------------------
(* tcp_handler_task and handle_shell_message.                                *)

\* Mutant of HndTake: the semaphore is looked at and not taken.
HndTakePeeks ==
    /\ hnd = "take"
    /\ sem
    /\ hnd' = "handle"
    /\ tx' = [tx EXCEPT !.sized = FALSE]
    /\ UNCHANGED <<peer, link, server, buffer, job, erring, history>>

\* The reply's payload_size starts at 0 for every message.
HndTake ==
    /\ hnd = "take"
    /\ sem
    /\ sem' = FALSE
    /\ hnd' = "handle"
    /\ tx' = [tx EXCEPT !.sized = FALSE]
    /\ UNCHANGED <<peer, link, server, rx, job, erring, history>>

\* Mutant of HndDispatch: handler_list has no entry for one of the ids.
HndDispatchShort ==
    /\ hnd = "handle"
    /\ job' = [id |-> rx.id, n |-> rx.n, payload |-> 0]
    /\ hnd' = (IF rx.id \in KnownIds \ {"BATT_GET_SOC"} THEN "run" ELSE "take")
    /\ UNCHANGED <<peer, link, server, buffer, tx, erring, history>>

\* The id is read from rx_buffer; one without a handler gets no reply.
HndDispatch ==
    /\ hnd = "handle"
    /\ job' = [id |-> rx.id, n |-> rx.n, payload |-> 0]
    /\ hnd' = (IF rx.id \in KnownIds THEN "run" ELSE "take")
    /\ UNCHANGED <<peer, link, server, buffer, tx, erring, history>>

\* The handler reads the payload, which is still in rx_buffer, and fills in
\* the reply.
HndRun ==
    /\ hnd = "run"
    /\ job' = [job EXCEPT !.payload = rx.n]
    /\ \E r \in Replies(job.id) : tx' = [kind |-> r.kind, sized |-> r.sized \/ tx.sized]
    /\ hnd' = "send"
    /\ UNCHANGED <<peer, link, server, buffer, erring, history>>

\* Mutant of HndSend: the reply is sent twice.
HndSendTwice ==
    /\ hnd = "send"
    /\ sock # 0
    /\ hnd' \in {"take", "send"}
    /\ erring' = FALSE
    /\ Delivered(sock, [to |-> job.payload, kind |-> tx.kind, sized |-> tx.sized, junk |-> erring])
    /\ UNCHANGED <<peer, wire, server, buffer, job, tx, history>>

\* The reply goes to sock_handle as it is now.
HndSend ==
    /\ hnd = "send"
    /\ sock # 0
    /\ hnd' = "take"
    /\ erring' = FALSE
    /\ Delivered(sock, [to |-> job.payload, kind |-> tx.kind, sized |-> tx.sized, junk |-> erring])
    /\ UNCHANGED <<peer, wire, server, buffer, job, tx, history>>

\* send() returns -1: to_write -= -1 starts the next attempt before the
\* reply, and the loop goes on until a connection takes the bytes.
HndSendFails ==
    /\ hnd = "send"
    /\ IF sock = 0 THEN TRUE ELSE state[sock] = "rst"
    /\ erring' = TRUE
    /\ UNCHANGED <<peer, link, server, buffer, hnd, job, tx, history>>

Client == Connect \/ (\E id \in Ids, e, s \in BOOLEAN : Send(id, e, s)) \/ Receive \/ Leave
Server == SrvAccept \/ SrvRecv \/ SrvRecvTwo \/ SrvNack \/ SrvNackFails \/ SrvHangup
Handler == HndTake \/ HndDispatch \/ HndRun \/ HndSend \/ HndSendFails
Next == Client \/ Server \/ Handler

SafetySpec == Init /\ [][Next]_vars

\* Both tasks run at fixed priorities and block only on recv, accept and the
\* semaphore; TCP delivers while the connection is up.
Fairness == WF_vars(Server) /\ WF_vars(Handler) /\ WF_vars(Receive)
Spec == SafetySpec /\ Fairness

-----------------------------------------------------------------------------
\* The client talks to the connection the server has accepted, the shell was
\* quiet when it did, and every message so far waited for its reply.
Patient == sock # 0 /\ sock = conn /\ client # "closed" /\ clean /\ strict

(* A client that sends one request at a time gets exactly the reply to that *)
(* request: from the handler of its id, run on its payload, once, and with  *)
(* no bytes before it.  This must hold although rx_buffer, the semaphore    *)
(* and sock_handle are shared without a lock (170-210, 351-390), and it     *)
(* must hold again for the first connection accepted after an earlier       *)
(* client left in the middle, once the shell has come to rest.              *)
PatientClientServed ==
    Patient =>
        /\ client = "open" => answers[conn] = <<>>
        /\ client = "waiting" /\ answers[conn] # <<>> =>
               /\ Len(answers[conn]) = 1
               /\ answers[conn][1].to = sent
               /\ answers[conn][1].kind \in {"ACK", "NACK", asked}
               /\ ~answers[conn][1].junk

(* The handler runs for a patient client only on a message that passed      *)
(* message_is_valid, and takes id (362) and payload (104) from the same one *)
(* although the server task may overwrite rx_buffer between the two reads.  *)
HandlerSeesOneMessage ==
    Patient /\ hnd \in {"run", "send"} =>
        /\ rx.ok
        /\ job.n = sent
        /\ hnd = "send" => job.payload = job.n

(* An ACK or a NACK never announces the payload of an earlier reply: most   *)
(* handlers leave payload_size alone and rely on its reset for every        *)
(* message (359).                                                           *)
NoStalePayload ==
    \A c \in Conns : \A i \in DOMAIN answers[c] :
        answers[c][i].kind \in {"ACK", "NACK"} => ~answers[c][i].sized

(* While the handler works for a patient client, the server task has        *)
(* nothing that it could put into rx_buffer.                                *)
NothingToOverwrite ==
    Patient /\ (sem \/ hnd # "take") => wire[conn] = <<>> /\ srv = "recv"

(* The buffer and the sizes that the two tasks share without a lock are    *)
(* those of the one message that is being handled.                         *)
HandlerUndisturbed ==
    TypeOK /\ HandlerSeesOneMessage /\ NothingToOverwrite /\ NoStalePayload

\* The server task sends a NACK to a connection that was reset: send() fails
\* for ever, the loop adds one to to_write each time and never ends.
NackForEver == srv = "nack" /\ state[sock] = "rst"

(* A request is answered before the client gives up, so that the recv of    *)
(* send_message (socket_test.py 134-135) returns, unless the server task    *)
(* is in the loop that ends no more (tcp_shell.c 198-206).                  *)
EveryRequestAnswered == client = "waiting" ~> client # "waiting" \/ NackForEver

(* Clients whose messages are whole, known and awaited are refused only on  *)
(* a connection that was accepted while the shell still worked for an       *)
(* earlier client: the reply meant for that one lets the next client send   *)
(* too early, and two requests in one recv are one of the wrong length      *)
(* (149-152, 170-210).                                                      *)
RefusedAfterHurry == srv = "nack" => ~clean
===============================================================================
