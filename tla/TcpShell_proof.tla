---------------------------- MODULE TcpShell_proof ----------------------------
(***************************************************************************)
(* Proofs about TcpShell, for any set of ids and any number of requests    *)
(* and connections, and at the end about Clock, for any length of minutes, *)
(* hours and days (MCTcpShell).                                            *)
(*                                                                         *)
(* The argument for the shell: on the connection of a patient client       *)
(* exactly one thing is under way, and it is in one place - on the wire,   *)
(* announced by the semaphore, in the handler task, or on its way back     *)
(* (ServedInv).  Before the server accepts the connection, only the        *)
(* client's first request can be on it (PendingInv).                       *)
(***************************************************************************)
EXTENDS Integers, MCTcpShell, SequenceTheorems, TLAPS

Request == [n |-> sent, id |-> asked, ok |-> TRUE]

\* Connections that the client has not made yet are empty.
FreshInv ==
    \A c \in Conns : c > conn => wire[c] = <<>> /\ answers[c] = <<>> /\ state[c] = "up"

\* The two tasks and the connection they work for.
ShapeInv ==
    /\ srv = "accept" <=> sock = 0
    /\ client # "closed" => conn \in Conns /\ state[conn] = "up"
    /\ erring => hnd = "send"
    /\ hnd \in {"run", "send"} => job.id \in KnownIds

\* The client's connection waits in the backlog.
PendingInv ==
    client # "closed" /\ accepted < conn =>
        /\ answers[conn] = <<>>
        /\ strict /\ client = "open" => wire[conn] = <<>>
        /\ strict /\ client = "waiting" => wire[conn] = <<Request>>

Quiet == ~sem /\ hnd = "take"

\* Where the one request of a patient client is.
OnWire == wire[conn] = <<Request>> /\ answers[conn] = <<>> /\ Quiet
Announced == rx = Request /\ sem /\ hnd = "take" /\ wire[conn] = <<>> /\ answers[conn] = <<>>
InHandler ==
    /\ rx = Request /\ ~sem /\ wire[conn] = <<>> /\ answers[conn] = <<>>
    /\ hnd \in {"handle", "run", "send"}
    /\ hnd \in {"run", "send"} => job.id = asked /\ job.n = sent
    /\ hnd = "send" => job.payload = sent /\ tx.kind \in {"ACK", "NACK", asked}
Replied ==
    /\ wire[conn] = <<>> /\ Quiet
    /\ Len(answers[conn]) = 1
    /\ answers[conn][1].to = sent
    /\ answers[conn][1].kind \in {"ACK", "NACK", asked}
    /\ ~answers[conn][1].junk
Dropped == wire[conn] = <<>> /\ answers[conn] = <<>> /\ Quiet

ServedInv ==
    Patient =>
        /\ srv = "recv"
        /\ ~erring
        /\ client = "open" => wire[conn] = <<>> /\ answers[conn] = <<>> /\ Quiet
        /\ client = "waiting" => OnWire \/ Announced \/ InHandler \/ Replied \/ Dropped

\* payload_size is set only by a handler that names its own id.
SizeInv ==
    /\ NoStalePayload
    /\ hnd \in {"handle", "run"} => ~tx.sized
    /\ hnd = "send" /\ tx.kind \in {"ACK", "NACK"} => ~tx.sized

Inv == TypeOK /\ FreshInv /\ ShapeInv /\ PendingInv /\ ServedInv /\ SizeInv

-----------------------------------------------------------------------------
\* Every reply of every handler is ACK, NACK or the id of the request, and
\* ACK and NACK have no payload of their own.
LEMMA RepliesFit ==
    ASSUME NEW id \in KnownIds, NEW r \in Replies(id)
    PROVE  /\ r \in Reply
           /\ r.kind \in {"ACK", "NACK", id}
           /\ r.kind \in {"ACK", "NACK"} => ~r.sized
<1>1. \/ r = [kind |-> "ACK", sized |-> FALSE]
      \/ r = [kind |-> "NACK", sized |-> FALSE]
      \/ r = [kind |-> id, sized |-> TRUE] /\ id \in Queries \cup Reads
  BY DEF Replies, Plain, Full
<1>2. "ACK" \in KnownIds /\ "NACK" \in KnownIds
  BY DEF KnownIds, AlwaysAcked, AlwaysRefused
<1>3. id \in Queries \cup Reads => id # "ACK" /\ id # "NACK"
  BY DEF Queries, Reads, BusQueries, AdcQueries,
         BatteryQueries, MiscReads, AudioReads, MemReads, GpioReads, ClockReads
<1>4. CASE r = [kind |-> "ACK", sized |-> FALSE]
  BY <1>2, <1>4 DEF Reply
<1>5. CASE r = [kind |-> "NACK", sized |-> FALSE]
  BY <1>2, <1>5 DEF Reply
<1>6. CASE r = [kind |-> id, sized |-> TRUE] /\ id \in Queries \cup Reads
  BY <1>3, <1>6 DEF Reply
<1>7. QED
  BY <1>1, <1>4, <1>5, <1>6

\* An accepted connection is one the client has made.
LEMMA SockMade ==
    ASSUME Inv
    PROVE  /\ sock # 0 => sock \in Conns /\ sock = accepted
           /\ conn \in Nat /\ accepted \in Nat /\ accepted <= conn
           /\ conn # 0 => conn \in Conns
<1> QED
  BY ShellAssumption DEF Inv, TypeOK, ShapeInv, Conns

\* NACK is an id.
LEMMA NackKnown == "NACK" \in KnownIds
BY DEF KnownIds, AlwaysRefused

\* The client connects.
LEMMA ConnectStep ==
    ASSUME Inv, Connect
    PROVE  Inv'
<1>0. /\ TypeOK /\ FreshInv /\ ShapeInv /\ PendingInv /\ ServedInv /\ SizeInv
      /\ sock # 0 => sock \in Conns /\ sock = accepted
      /\ conn \in Nat /\ accepted \in Nat /\ accepted <= conn
      /\ conn # 0 => conn \in Conns
      /\ MaxReq \in Nat /\ MaxConn \in Nat /\ Conns = 1 .. MaxConn
  BY SockMade, ShellAssumption DEF Inv, Conns
<1>1. TypeOK'
  BY <1>0 DEF TypeOK, Connect, peer, link, server, buffer, handler, history
<1>2. FreshInv'
  BY <1>0, <1>1 DEF TypeOK, FreshInv, Connect, peer, link, server, buffer, handler, history
<1>3. ShapeInv'
  BY <1>0, <1>1 DEF TypeOK, ShapeInv, FreshInv, Connect, link, server, buffer, handler
<1>4. PendingInv'
  <2>1. conn' \in Conns /\ conn' > conn /\ client' = "open"
    BY <1>0 DEF Connect
  <2>2. wire[conn'] = <<>> /\ answers[conn'] = <<>> /\ wire' = wire /\ answers' = answers
    BY <1>0, <2>1 DEF FreshInv, Connect, link
  <2>3. QED
    BY <2>1, <2>2 DEF PendingInv
<1>5. ServedInv'
  BY <1>0, <1>1 DEF TypeOK, ShapeInv, ServedInv, Patient, OnWire, Announced, InHandler, Replied, Dropped, Quiet, Request, Connect, peer, link, server, buffer, handler, history
<1>6. SizeInv'
  BY <1>0, <1>1 DEF TypeOK, SizeInv, NoStalePayload, Connect, peer, link, server, buffer, handler, history
<1>7. QED
  BY <1>1, <1>2, <1>3, <1>4, <1>5, <1>6 DEF Inv

\* The client sends.
LEMMA SendStep ==
    ASSUME NEW id \in Ids, NEW e \in BOOLEAN, NEW s \in BOOLEAN, Inv, Send(id, e, s)
    PROVE  Inv'
<1>0. /\ TypeOK /\ FreshInv /\ ShapeInv /\ PendingInv /\ ServedInv /\ SizeInv
      /\ sock # 0 => sock \in Conns /\ sock = accepted
      /\ conn \in Nat /\ accepted \in Nat /\ accepted <= conn
      /\ conn # 0 => conn \in Conns
      /\ MaxReq \in Nat /\ MaxConn \in Nat /\ Conns = 1 .. MaxConn
  BY SockMade, ShellAssumption DEF Inv, Conns
<1>1. TypeOK'
  <2>1. conn \in Conns /\ sent + 1 \in 0 .. MaxReq /\ id \in Ids \cup {Unknown}
    BY <1>0 DEF TypeOK, ShapeInv, Send
  <2>2. wire[conn] \in Seq(Segment)
    BY <2>1, <1>0 DEF TypeOK
  <2> DEFINE first == [n |-> sent + 1, id |-> id, ok |-> FALSE]
             second == [n |-> sent + 1, id |-> Unknown, ok |-> FALSE]
             whole == [n |-> sent + 1, id |-> id, ok |-> TRUE]
  <2>3. first \in Segment /\ second \in Segment /\ whole \in Segment
    BY <2>1 DEF Segment
  <2>4. Append(wire[conn], whole) \in Seq(Segment)
    BY <2>2, <2>3, AppendProperties
  <2>5. wire[conn] \o <<first, second>> \in Seq(Segment)
    <3>1. <<first, second>> \in Seq(Segment)
      BY <2>3
    <3>2. QED
      BY <2>2, <3>1, ConcatProperties
  <2>6. wire' \in [Conns -> Seq(Segment)]
    BY <1>0, <2>1, <2>4, <2>5 DEF TypeOK, Send
  <2>7. QED
    BY <1>0, <2>1, <2>6 DEF TypeOK, Send, server, buffer, handler
<1>2. FreshInv'
  <2>1. conn' = conn /\ answers' = answers /\ state' = state /\ \A c \in Conns : c # conn => wire'[c] = wire[c]
    BY <1>0 DEF Send, TypeOK
  <2>2. QED
    BY <1>0, <2>1 DEF FreshInv
<1>3. ShapeInv'
  BY <1>0, <1>1 DEF TypeOK, ShapeInv, Send, peer, link, server, buffer, handler, history
<1>4. PendingInv'
  <2>1. /\ client = "open" /\ conn \in Conns /\ conn' = conn /\ answers' = answers /\ accepted' = accepted
        /\ strict' => strict /\ e /\ ~s
        /\ sent' = sent + 1 /\ asked' = id
        /\ client' = (IF e THEN "waiting" ELSE "open")
    BY <1>0 DEF Send, ShapeInv, server
  <2>2. ~s => wire'[conn] = Append(wire[conn], Request')
    BY <1>0, <2>1 DEF Send, TypeOK, Request
  <2>3. Append(<<>>, Request') = <<Request'>>
    OBVIOUS
  <2>4. QED
    BY <1>0, <2>1, <2>2, <2>3 DEF PendingInv
<1>5. ServedInv'
  <2>1. /\ client = "open" /\ conn \in Conns /\ conn' = conn /\ answers' = answers
        /\ srv' = srv /\ sock' = sock /\ erring' = erring /\ sem' = sem /\ hnd' = hnd /\ clean' = clean
        /\ strict' => strict /\ e /\ ~s
        /\ e => client' = "waiting"
    BY <1>0 DEF Send, ShapeInv, server, buffer, handler
  <2>2. ~s => wire'[conn] = Append(wire[conn], Request')
    BY <1>0, <2>1 DEF Send, TypeOK, Request
  <2>3. Append(<<>>, Request') = <<Request'>>
    OBVIOUS
  <2>4. Patient' => Patient /\ e /\ ~s
    BY <2>1 DEF Patient
  <2>5. Patient' => srv = "recv" /\ ~erring /\ wire[conn] = <<>> /\ answers[conn] = <<>> /\ Quiet
    BY <1>0, <2>1, <2>4 DEF ServedInv
  <2>6. Patient' => OnWire'
    BY <2>1, <2>2, <2>3, <2>4, <2>5 DEF OnWire, Quiet
  <2>7. QED
    BY <2>1, <2>4, <2>5, <2>6 DEF ServedInv
<1>6. SizeInv'
  BY <1>0, <1>1 DEF TypeOK, SizeInv, NoStalePayload, Send, peer, link, server, buffer, handler, history
<1>7. QED
  BY <1>1, <1>2, <1>3, <1>4, <1>5, <1>6 DEF Inv

\* The client reads the reply.
LEMMA ReceiveStep ==
    ASSUME Inv, Receive
    PROVE  Inv'
<1>0. /\ TypeOK /\ FreshInv /\ ShapeInv /\ PendingInv /\ ServedInv /\ SizeInv
      /\ sock # 0 => sock \in Conns /\ sock = accepted
      /\ conn \in Nat /\ accepted \in Nat /\ accepted <= conn
      /\ conn # 0 => conn \in Conns
      /\ MaxReq \in Nat /\ MaxConn \in Nat /\ Conns = 1 .. MaxConn
  BY SockMade, ShellAssumption DEF Inv, Conns
<1>1. TypeOK'
  <2>1. conn \in Conns /\ answers[conn] # <<>> /\ answers[conn] \in Seq(Answer)
    BY <1>0 DEF TypeOK, ShapeInv, Receive
  <2>2. Tail(answers[conn]) \in Seq(Answer)
    BY <2>1, HeadTailProperties
  <2>3. answers' \in [Conns -> Seq(Answer)]
    BY <1>0, <2>1, <2>2 DEF TypeOK, Receive
  <2>4. QED
    BY <1>0, <2>3 DEF TypeOK, Receive, server, buffer, handler, history
<1>2. FreshInv'
  BY <1>0, <1>1 DEF TypeOK, FreshInv, Receive, peer, link, server, buffer, handler, history
<1>3. ShapeInv'
  BY <1>0, <1>1 DEF TypeOK, ShapeInv, Receive, peer, link, server, buffer, handler, history
<1>4. PendingInv'
  BY <1>0, <1>1 DEF TypeOK, ShapeInv, FreshInv, PendingInv, Request, Receive, peer, link, server, buffer, handler, history
<1>5. ServedInv'
  <2>1. conn \in Conns /\ answers[conn] # <<>> /\ answers[conn] \in Seq(Answer) /\ client = "waiting"
    BY <1>0 DEF TypeOK, ShapeInv, Receive
  <2>2. Len(Tail(answers[conn])) = Len(answers[conn]) - 1 /\ Tail(answers[conn]) \in Seq(Answer)
    BY <2>1, HeadTailProperties
  <2>3. Len(answers[conn]) = 1 => Tail(answers[conn]) = <<>>
    <3>1. Tail(answers[conn]) # <<>> => Len(Tail(answers[conn])) \in Nat \ {0}
      BY <2>2, EmptySeq
    <3>2. Len(answers[conn]) = 1 => Len(Tail(answers[conn])) = 0
      BY <2>2
    <3>3. QED
      BY <3>1, <3>2
  <2>4. answers'[conn] = Tail(answers[conn]) /\ client' = "open" /\ conn' = conn /\ wire' = wire
    BY <1>0, <2>1 DEF TypeOK, Receive
  <2>5. Patient' => Patient
    BY <2>1 DEF Patient, Receive, server, history
  <2>6. Patient' => srv = "recv" /\ ~erring /\ Replied
    BY <1>0, <2>1, <2>5 DEF ServedInv, OnWire, Announced, InHandler, Dropped
  <2>7. QED
    BY <2>3, <2>4, <2>6 DEF ServedInv, Replied, Quiet, Receive, server, buffer, handler
<1>6. SizeInv'
  BY <1>0, <1>1 DEF TypeOK, SizeInv, NoStalePayload, Receive, peer, link, server, buffer, handler, history
<1>7. QED
  BY <1>1, <1>2, <1>3, <1>4, <1>5, <1>6 DEF Inv

\* The client leaves.
LEMMA LeaveStep ==
    ASSUME Inv, Leave
    PROVE  Inv'
<1>0. /\ TypeOK /\ FreshInv /\ ShapeInv /\ PendingInv /\ ServedInv /\ SizeInv
      /\ sock # 0 => sock \in Conns /\ sock = accepted
      /\ conn \in Nat /\ accepted \in Nat /\ accepted <= conn
      /\ conn # 0 => conn \in Conns
      /\ MaxReq \in Nat /\ MaxConn \in Nat /\ Conns = 1 .. MaxConn
  BY SockMade, ShellAssumption DEF Inv, Conns
<1>1. TypeOK'
  <2>1. state' \in [Conns -> {"up", "fin", "rst"}]
    BY <1>0 DEF TypeOK, Leave
  <2>2. QED
    BY <1>0, <2>1 DEF TypeOK, Leave, server, buffer, handler, history
<1>2. FreshInv'
  BY <1>0, <1>1 DEF TypeOK, FreshInv, Leave, peer, link, server, buffer, handler, history
<1>3. ShapeInv'
  BY <1>0, <1>1 DEF TypeOK, ShapeInv, Leave, peer, link, server, buffer, handler, history
<1>4. PendingInv'
  BY <1>0, <1>1 DEF TypeOK, ShapeInv, FreshInv, PendingInv, Request, Leave, peer, link, server, buffer, handler, history
<1>5. ServedInv'
  BY <1>0, <1>1 DEF TypeOK, ShapeInv, ServedInv, Patient, OnWire, Announced, InHandler, Replied, Dropped, Quiet, Request, Leave, peer, link, server, buffer, handler, history
<1>6. SizeInv'
  BY <1>0, <1>1 DEF TypeOK, SizeInv, NoStalePayload, Leave, peer, link, server, buffer, handler, history
<1>7. QED
  BY <1>1, <1>2, <1>3, <1>4, <1>5, <1>6 DEF Inv

\* The server accepts.
LEMMA SrvAcceptStep ==
    ASSUME Inv, SrvAccept
    PROVE  Inv'
<1>0. /\ TypeOK /\ FreshInv /\ ShapeInv /\ PendingInv /\ ServedInv /\ SizeInv
      /\ sock # 0 => sock \in Conns /\ sock = accepted
      /\ conn \in Nat /\ accepted \in Nat /\ accepted <= conn
      /\ conn # 0 => conn \in Conns
      /\ MaxReq \in Nat /\ MaxConn \in Nat /\ Conns = 1 .. MaxConn
  BY SockMade, ShellAssumption DEF Inv, Conns
<1>1. TypeOK'
  BY <1>0 DEF TypeOK, SrvAccept, peer, link, server, buffer, handler, history
<1>2. FreshInv'
  BY <1>0, <1>1 DEF TypeOK, FreshInv, SrvAccept, peer, link, server, buffer, handler, history
<1>3. ShapeInv'
  BY <1>0, <1>1 DEF TypeOK, ShapeInv, SrvAccept, peer, link, server, buffer, handler, history
<1>4. PendingInv'
  BY <1>0, <1>1 DEF TypeOK, ShapeInv, FreshInv, PendingInv, Request, SrvAccept, peer, link, server, buffer, handler, history
<1>5. ServedInv'
  <2>1. SUFFICES ASSUME Patient' PROVE ServedInv'
    BY DEF ServedInv
  <2>2. /\ hnd = "take" /\ ~sem /\ srv' = "recv" /\ accepted + 1 = conn /\ conn' = conn
        /\ strict /\ client # "closed" /\ client' = client
    BY <2>1, <1>0 DEF Patient, SrvAccept, peer
  <2>3. /\ answers[conn] = <<>>
        /\ client = "open" => wire[conn] = <<>>
        /\ client = "waiting" => wire[conn] = <<Request>>
    BY <1>0, <2>2 DEF PendingInv
  <2>4. Request' = Request
    BY DEF Request, SrvAccept, peer
  <2>5. ~erring /\ Quiet
    BY <1>0, <2>2 DEF ShapeInv, Quiet
  <2>6. QED
    BY <2>2, <2>3, <2>4, <2>5 DEF ServedInv, OnWire, Quiet, SrvAccept, link, buffer, handler
<1>6. SizeInv'
  BY <1>0, <1>1 DEF TypeOK, SizeInv, NoStalePayload, SrvAccept, peer, link, server, buffer, handler, history
<1>7. QED
  BY <1>1, <1>2, <1>3, <1>4, <1>5, <1>6 DEF Inv

\* The server receives one segment.
LEMMA SrvRecvStep ==
    ASSUME Inv, SrvRecv
    PROVE  Inv'
<1>0. /\ TypeOK /\ FreshInv /\ ShapeInv /\ PendingInv /\ ServedInv /\ SizeInv
      /\ sock # 0 => sock \in Conns /\ sock = accepted
      /\ conn \in Nat /\ accepted \in Nat /\ accepted <= conn
      /\ conn # 0 => conn \in Conns
      /\ MaxReq \in Nat /\ MaxConn \in Nat /\ Conns = 1 .. MaxConn
  BY SockMade, ShellAssumption DEF Inv, Conns
<1>1. TypeOK'
  <2>1. sock \in Conns /\ wire[sock] \in Seq(Segment) /\ wire[sock] # <<>>
    BY <1>0 DEF TypeOK, ShapeInv, SrvRecv
  <2>2. Head(wire[sock]) \in Segment /\ Tail(wire[sock]) \in Seq(Segment)
    BY <2>1, HeadTailProperties
  <2>3. wire' \in [Conns -> Seq(Segment)]
    BY <1>0, <2>1, <2>2 DEF TypeOK, SrvRecv
  <2>4. rx' \in Segment /\ sem' \in BOOLEAN /\ srv' \in {"accept", "recv", "nack"}
    BY <1>0, <2>2 DEF TypeOK, SrvRecv, Received
  <2>5. QED
    BY <1>0, <2>3, <2>4 DEF TypeOK, SrvRecv, peer, handler, history
<1>2. FreshInv'
  BY <1>0, <1>1 DEF TypeOK, FreshInv, SrvRecv, Received, peer, link, server, buffer, handler, history
<1>3. ShapeInv'
  BY <1>0, <1>1 DEF TypeOK, ShapeInv, SrvRecv, Received, peer, link, server, buffer, handler, history
<1>4. PendingInv'
  BY <1>0, <1>1 DEF TypeOK, ShapeInv, FreshInv, PendingInv, Request, SrvRecv, Received, peer, link, server, buffer, handler, history
<1>5. ServedInv'
  <2>1. SUFFICES ASSUME Patient' PROVE ServedInv'
    BY DEF ServedInv
  <2>2. Patient /\ sock = conn /\ conn \in Conns /\ wire[conn] # <<>> /\ conn' = conn
    BY <1>0, <2>1 DEF Patient, SrvRecv, ShapeInv, peer, history
  <2>3. client = "waiting" /\ OnWire /\ srv = "recv" /\ ~erring
    BY <1>0, <2>2 DEF ServedInv, Patient, TypeOK, Announced, InHandler, Replied, Dropped
  <2>4. Head(<<Request>>) = Request /\ Tail(<<Request>>) = <<>> /\ Request.ok
    BY DEF Request
  <2>5. rx' = Request /\ sem' /\ srv' = "recv" /\ wire'[conn] = <<>>
    BY <1>0, <2>2, <2>3, <2>4 DEF SrvRecv, Received, OnWire, TypeOK
  <2>6. Request' = Request /\ client' = client /\ answers' = answers /\ hnd' = hnd /\ erring' = erring
    BY DEF Request, SrvRecv, peer, handler
  <2>7. Announced'
    BY <2>2, <2>3, <2>5, <2>6 DEF Announced, OnWire, Quiet
  <2>8. QED
    BY <2>3, <2>5, <2>6, <2>7 DEF ServedInv
<1>6. SizeInv'
  BY <1>0, <1>1 DEF TypeOK, SizeInv, NoStalePayload, SrvRecv, Received, peer, link, server, buffer, handler, history
<1>7. QED
  BY <1>1, <1>2, <1>3, <1>4, <1>5, <1>6 DEF Inv

\* The server receives two segments.
LEMMA SrvRecvTwoStep ==
    ASSUME Inv, SrvRecvTwo
    PROVE  Inv'
<1>0. /\ TypeOK /\ FreshInv /\ ShapeInv /\ PendingInv /\ ServedInv /\ SizeInv
      /\ sock # 0 => sock \in Conns /\ sock = accepted
      /\ conn \in Nat /\ accepted \in Nat /\ accepted <= conn
      /\ conn # 0 => conn \in Conns
      /\ MaxReq \in Nat /\ MaxConn \in Nat /\ Conns = 1 .. MaxConn
  BY SockMade, ShellAssumption DEF Inv, Conns
<1>1. TypeOK'
  <2>1. sock \in Conns /\ wire[sock] \in Seq(Segment) /\ Len(wire[sock]) >= 2
    BY <1>0 DEF TypeOK, ShapeInv, SrvRecvTwo
  <2>2. wire[sock] # <<>> /\ wire[sock][1] \in Segment
    BY <2>1, ElementOfSeq
  <2>3. Tail(wire[sock]) \in Seq(Segment) /\ Len(Tail(wire[sock])) = Len(wire[sock]) - 1
    BY <2>1, <2>2, HeadTailProperties
  <2>4. Tail(wire[sock]) # <<>>
    BY <2>1, <2>3
  <2>5. Tail(Tail(wire[sock])) \in Seq(Segment)
    BY <2>3, <2>4, HeadTailProperties
  <2>6. wire' \in [Conns -> Seq(Segment)]
    BY <1>0, <2>1, <2>5 DEF TypeOK, SrvRecvTwo
  <2>7. \A b \in BOOLEAN : [wire[sock][1] EXCEPT !.ok = b] \in Segment
    BY <2>2 DEF Segment
  <2>8. rx' \in Segment /\ sem' \in BOOLEAN /\ srv' \in {"accept", "recv", "nack"}
    BY <1>0, <2>7 DEF TypeOK, SrvRecvTwo, Received
  <2>9. QED
    BY <1>0, <2>6, <2>8 DEF TypeOK, SrvRecvTwo, peer, handler, history
<1>2. FreshInv'
  BY <1>0, <1>1 DEF TypeOK, FreshInv, SrvRecvTwo, Received, peer, link, server, buffer, handler, history
<1>3. ShapeInv'
  BY <1>0, <1>1 DEF TypeOK, ShapeInv, SrvRecvTwo, Received, peer, link, server, buffer, handler, history
<1>4. PendingInv'
  <2>1. sock # 0
    BY <1>0 DEF ShapeInv, SrvRecvTwo
  <2>2. accepted < conn => wire'[conn] = wire[conn]
    BY <1>0, <2>1 DEF SrvRecvTwo, TypeOK
  <2>3. Request' = Request /\ client' = client /\ conn' = conn /\ accepted' = accepted /\ answers' = answers /\ strict' = strict
    BY DEF SrvRecvTwo, Request, peer, history
  <2>4. QED
    BY <1>0, <2>2, <2>3 DEF PendingInv
<1>5. ServedInv'
  BY <1>0, <1>1 DEF TypeOK, ShapeInv, ServedInv, Patient, OnWire, Announced, InHandler, Replied, Dropped, Quiet, Request, SrvRecvTwo, Received, peer, link, server, buffer, handler, history
<1>6. SizeInv'
  BY <1>0, <1>1 DEF TypeOK, SizeInv, NoStalePayload, SrvRecvTwo, Received, peer, link, server, buffer, handler, history
<1>7. QED
  BY <1>1, <1>2, <1>3, <1>4, <1>5, <1>6 DEF Inv

\* The server sends a NACK.
LEMMA SrvNackStep ==
    ASSUME Inv, SrvNack
    PROVE  Inv'
<1>0. /\ TypeOK /\ FreshInv /\ ShapeInv /\ PendingInv /\ ServedInv /\ SizeInv
      /\ sock # 0 => sock \in Conns /\ sock = accepted
      /\ conn \in Nat /\ accepted \in Nat /\ accepted <= conn
      /\ conn # 0 => conn \in Conns
      /\ MaxReq \in Nat /\ MaxConn \in Nat /\ Conns = 1 .. MaxConn
  BY SockMade, ShellAssumption DEF Inv, Conns
<1>1. TypeOK'
  <2>1. sock \in Conns /\ answers[sock] \in Seq(Answer)
    BY <1>0 DEF TypeOK, ShapeInv, SrvNack
  <2> DEFINE a == [to |-> rx.n, kind |-> "NACK", sized |-> FALSE, junk |-> FALSE]
  <2>2. a \in Answer
    BY <1>0, NackKnown DEF TypeOK, Answer, Segment
  <2>3. Append(answers[sock], a) \in Seq(Answer)
    BY <2>1, <2>2, AppendProperties
  <2>4. answers' \in [Conns -> Seq(Answer)] /\ state' \in [Conns -> {"up", "fin", "rst"}]
    BY <1>0, <2>1, <2>3 DEF TypeOK, SrvNack, Delivered
  <2>5. QED
    BY <1>0, <2>4 DEF TypeOK, SrvNack, peer, server, buffer, handler, history
<1>2. FreshInv'
  <2>1. sock \in Conns /\ sock <= conn /\ conn' = conn /\ wire' = wire
    BY <1>0 DEF TypeOK, ShapeInv, SrvNack, peer
  <2>2. \A c \in Conns : c # sock => answers'[c] = answers[c] /\ state'[c] = state[c]
    BY <1>0, <2>1 DEF TypeOK, SrvNack, Delivered
  <2>3. QED
    BY <1>0, <2>1, <2>2 DEF FreshInv
<1>3. ShapeInv'
  BY <1>0, <1>1 DEF TypeOK, ShapeInv, SrvNack, Delivered, peer, link, server, buffer, handler, history
<1>4. PendingInv'
  <2>1. sock \in Conns /\ sock <= accepted /\ accepted' = accepted
    BY <1>0 DEF TypeOK, ShapeInv, SrvNack, server
  <2>2. accepted < conn => answers'[conn] = answers[conn]
    BY <1>0, <2>1 DEF TypeOK, SrvNack, Delivered
  <2>3. Request' = Request /\ client' = client /\ conn' = conn /\ wire' = wire /\ strict' = strict
    BY DEF SrvNack, Request, peer, history
  <2>4. QED
    BY <1>0, <2>1, <2>2, <2>3 DEF PendingInv
<1>5. ServedInv'
  BY <1>0, <1>1 DEF TypeOK, ShapeInv, ServedInv, Patient, OnWire, Announced, InHandler, Replied, Dropped, Quiet, Request, SrvNack, Delivered, peer, link, server, buffer, handler, history
<1>6. SizeInv'
  <2>1. sock \in Conns /\ answers[sock] \in Seq(Answer)
    BY <1>0 DEF TypeOK, ShapeInv, SrvNack
  <2> DEFINE a == [to |-> rx.n, kind |-> "NACK", sized |-> FALSE, junk |-> FALSE]
  <2>2. a \in Answer
    BY <1>0, <1>1, NackKnown DEF TypeOK, Answer, Segment
  <2>3. a.kind \in {"ACK", "NACK"} => ~a.sized
    BY <1>0
  <2>4. answers' = answers \/ answers' = [answers EXCEPT ![sock] = Append(@, a)]
    BY DEF SrvNack, Delivered
  <2>5. ASSUME NEW c \in Conns, NEW i \in DOMAIN answers'[c], answers'[c][i].kind \in {"ACK", "NACK"}
        PROVE  ~answers'[c][i].sized
    <3>1. CASE answers'[c] = answers[c]
      BY <1>0, <2>5, <3>1 DEF SizeInv, NoStalePayload
    <3>2. CASE answers'[c] = Append(answers[c], a) /\ c = sock
      <4>1. Len(answers'[c]) = Len(answers[c]) + 1 /\ DOMAIN answers'[c] = 1 .. Len(answers'[c])
        BY <2>1, <2>2, <3>2, AppendProperties
      <4>2. CASE i = Len(answers[c]) + 1
        BY <2>1, <2>2, <2>3, <2>5, <3>2, <4>2, AppendProperties
      <4>3. CASE i \in 1 .. Len(answers[c])
        <5>1. answers'[c][i] = answers[c][i] /\ i \in DOMAIN answers[c]
          BY <2>1, <2>2, <3>2, <4>3, AppendProperties
        <5>2. QED
          BY <1>0, <2>5, <5>1 DEF SizeInv, NoStalePayload
      <4>4. Len(answers[c]) \in Nat
        BY <2>1, <3>2
      <4>5. QED
        BY <4>1, <4>2, <4>3, <4>4
    <3>3. QED
      BY <1>0, <2>4, <3>1, <3>2 DEF TypeOK
  <2>6. QED
    BY <1>0, <2>5 DEF SizeInv, NoStalePayload, SrvNack, handler
<1>7. QED
  BY <1>1, <1>2, <1>3, <1>4, <1>5, <1>6 DEF Inv

\* The server closes the connection.
LEMMA SrvHangupStep ==
    ASSUME Inv, SrvHangup
    PROVE  Inv'
<1>0. /\ TypeOK /\ FreshInv /\ ShapeInv /\ PendingInv /\ ServedInv /\ SizeInv
      /\ sock # 0 => sock \in Conns /\ sock = accepted
      /\ conn \in Nat /\ accepted \in Nat /\ accepted <= conn
      /\ conn # 0 => conn \in Conns
      /\ MaxReq \in Nat /\ MaxConn \in Nat /\ Conns = 1 .. MaxConn
  BY SockMade, ShellAssumption DEF Inv, Conns
<1>1. TypeOK'
  BY <1>0 DEF TypeOK, SrvHangup, peer, link, server, buffer, handler, history
<1>2. FreshInv'
  BY <1>0, <1>1 DEF TypeOK, FreshInv, SrvHangup, peer, link, server, buffer, handler, history
<1>3. ShapeInv'
  BY <1>0, <1>1 DEF TypeOK, ShapeInv, SrvHangup, peer, link, server, buffer, handler, history
<1>4. PendingInv'
  BY <1>0, <1>1 DEF TypeOK, ShapeInv, FreshInv, PendingInv, Request, SrvHangup, peer, link, server, buffer, handler, history
<1>5. ServedInv'
  BY <1>0, <1>1 DEF TypeOK, ShapeInv, ServedInv, Patient, OnWire, Announced, InHandler, Replied, Dropped, Quiet, Request, SrvHangup, peer, link, server, buffer, handler, history
<1>6. SizeInv'
  BY <1>0, <1>1 DEF TypeOK, SizeInv, NoStalePayload, SrvHangup, peer, link, server, buffer, handler, history
<1>7. QED
  BY <1>1, <1>2, <1>3, <1>4, <1>5, <1>6 DEF Inv

\* The handler takes the semaphore.
LEMMA HndTakeStep ==
    ASSUME Inv, HndTake
    PROVE  Inv'
<1>0. /\ TypeOK /\ FreshInv /\ ShapeInv /\ PendingInv /\ ServedInv /\ SizeInv
      /\ sock # 0 => sock \in Conns /\ sock = accepted
      /\ conn \in Nat /\ accepted \in Nat /\ accepted <= conn
      /\ conn # 0 => conn \in Conns
      /\ MaxReq \in Nat /\ MaxConn \in Nat /\ Conns = 1 .. MaxConn
  BY SockMade, ShellAssumption DEF Inv, Conns
<1>1. TypeOK'
  <2>1. tx' \in Reply
    BY <1>0 DEF TypeOK, Reply, HndTake
  <2>2. QED
    BY <1>0, <2>1 DEF TypeOK, HndTake, peer, link, server, history
<1>2. FreshInv'
  BY <1>0, <1>1 DEF TypeOK, FreshInv, HndTake, peer, link, server, buffer, handler, history
<1>3. ShapeInv'
  BY <1>0, <1>1 DEF TypeOK, ShapeInv, HndTake, peer, link, server, buffer, handler, history
<1>4. PendingInv'
  BY <1>0, <1>1 DEF TypeOK, ShapeInv, FreshInv, PendingInv, Request, HndTake, peer, link, server, buffer, handler, history
<1>5. ServedInv'
  BY <1>0, <1>1 DEF TypeOK, ShapeInv, ServedInv, Patient, OnWire, Announced, InHandler, Replied, Dropped, Quiet, Request, HndTake, peer, link, server, buffer, handler, history
<1>6. SizeInv'
  BY <1>0, <1>1 DEF TypeOK, SizeInv, NoStalePayload, HndTake, peer, link, server, buffer, handler, history
<1>7. QED
  BY <1>1, <1>2, <1>3, <1>4, <1>5, <1>6 DEF Inv

\* The handler task looks up the id.
LEMMA HndDispatchStep ==
    ASSUME Inv, HndDispatch
    PROVE  Inv'
<1>0. /\ TypeOK /\ FreshInv /\ ShapeInv /\ PendingInv /\ ServedInv /\ SizeInv
      /\ sock # 0 => sock \in Conns /\ sock = accepted
      /\ conn \in Nat /\ accepted \in Nat /\ accepted <= conn
      /\ conn # 0 => conn \in Conns
      /\ MaxReq \in Nat /\ MaxConn \in Nat /\ Conns = 1 .. MaxConn
  BY SockMade, ShellAssumption DEF Inv, Conns
<1>1. TypeOK'
  <2>1. job' \in [id : Ids \cup {Unknown}, n : 0 .. MaxReq, payload : 0 .. MaxReq]
    BY <1>0 DEF TypeOK, Segment, HndDispatch
  <2>2. QED
    BY <1>0, <2>1 DEF TypeOK, HndDispatch, peer, link, server, buffer, history
<1>2. FreshInv'
  BY <1>0, <1>1 DEF TypeOK, FreshInv, HndDispatch, peer, link, server, buffer, handler, history
<1>3. ShapeInv'
  BY <1>0, <1>1 DEF TypeOK, ShapeInv, HndDispatch, peer, link, server, buffer, handler, history
<1>4. PendingInv'
  BY <1>0, <1>1 DEF TypeOK, ShapeInv, FreshInv, PendingInv, Request, HndDispatch, peer, link, server, buffer, handler, history
<1>5. ServedInv'
  <2>1. SUFFICES ASSUME Patient' PROVE ServedInv'
    BY DEF ServedInv
  <2>2. Patient /\ Request' = Request
    BY <2>1 DEF Patient, Request, HndDispatch, peer, server, history
  <2>3. client = "waiting" /\ InHandler /\ srv = "recv" /\ ~erring
    BY <1>0, <2>2 DEF ServedInv, Patient, TypeOK, HndDispatch, OnWire, Announced, Replied, Dropped, Quiet
  <2>4. job'.id = asked /\ job'.n = sent
    BY <2>3 DEF InHandler, Request, HndDispatch
  <2>5. InHandler' \/ Dropped'
    BY <2>2, <2>3, <2>4 DEF InHandler, Dropped, Quiet, HndDispatch, peer, link, buffer
  <2>6. QED
    BY <2>3, <2>5 DEF ServedInv, HndDispatch, peer, server
<1>6. SizeInv'
  BY <1>0, <1>1 DEF TypeOK, SizeInv, NoStalePayload, HndDispatch, peer, link, server, buffer, handler, history
<1>7. QED
  BY <1>1, <1>2, <1>3, <1>4, <1>5, <1>6 DEF Inv

\* The handler runs.
LEMMA HndRunStep ==
    ASSUME Inv, HndRun
    PROVE  Inv'
<1>0. /\ TypeOK /\ FreshInv /\ ShapeInv /\ PendingInv /\ ServedInv /\ SizeInv
      /\ sock # 0 => sock \in Conns /\ sock = accepted
      /\ conn \in Nat /\ accepted \in Nat /\ accepted <= conn
      /\ conn # 0 => conn \in Conns
      /\ MaxReq \in Nat /\ MaxConn \in Nat /\ Conns = 1 .. MaxConn
  BY SockMade, ShellAssumption DEF Inv, Conns
<1>1. TypeOK'
  <2>1. job' \in [id : Ids \cup {Unknown}, n : 0 .. MaxReq, payload : 0 .. MaxReq]
    BY <1>0 DEF TypeOK, Segment, HndRun
  <2>2. PICK r \in Replies(job.id) : tx' = [kind |-> r.kind, sized |-> r.sized \/ tx.sized]
    BY DEF HndRun
  <2>3. r \in Reply
    BY <1>0, <2>2, RepliesFit DEF ShapeInv, HndRun
  <2>4. tx' \in Reply
    BY <2>2, <2>3 DEF Reply
  <2>5. QED
    BY <1>0, <2>1, <2>4 DEF TypeOK, HndRun, peer, link, server, buffer, history
<1>2. FreshInv'
  BY <1>0, <1>1 DEF TypeOK, FreshInv, HndRun, peer, link, server, buffer, handler, history
<1>3. ShapeInv'
  BY <1>0, <1>1 DEF TypeOK, ShapeInv, HndRun, peer, link, server, buffer, handler, history
<1>4. PendingInv'
  BY <1>0, <1>1 DEF TypeOK, ShapeInv, FreshInv, PendingInv, Request, HndRun, peer, link, server, buffer, handler, history
<1>5. ServedInv'
  <2>1. SUFFICES ASSUME Patient' PROVE ServedInv'
    BY DEF ServedInv
  <2>2. Patient /\ Request' = Request
    BY <2>1 DEF Patient, Request, HndRun, peer, server, history
  <2>3. client = "waiting" /\ InHandler /\ srv = "recv" /\ ~erring
    BY <1>0, <2>2 DEF ServedInv, Patient, TypeOK, HndRun, OnWire, Announced, Replied, Dropped, Quiet
  <2>4. job.id = asked /\ job.n = sent /\ job.id \in KnownIds /\ rx.n = sent
    BY <1>0, <2>3 DEF InHandler, Request, HndRun, ShapeInv
  <2>5. job'.id = asked /\ job'.n = sent /\ job'.payload = sent
    BY <1>0, <2>4 DEF HndRun, TypeOK
  <2>6. PICK r \in Replies(job.id) : tx' = [kind |-> r.kind, sized |-> r.sized \/ tx.sized]
    BY DEF HndRun
  <2>7. r.kind \in {"ACK", "NACK", asked}
    BY <2>4, RepliesFit
  <2>8. tx'.kind \in {"ACK", "NACK", asked}
    BY <2>6, <2>7
  <2>9. InHandler'
    BY <2>2, <2>3, <2>5, <2>8 DEF InHandler, HndRun, peer, link, buffer
  <2>10. QED
    BY <2>3, <2>9 DEF ServedInv, HndRun, peer, server
<1>6. SizeInv'
  <2>1. job.id \in KnownIds /\ ~tx.sized
    BY <1>0 DEF ShapeInv, SizeInv, HndRun
  <2>2. PICK r \in Replies(job.id) : tx' = [kind |-> r.kind, sized |-> r.sized \/ tx.sized]
    BY DEF HndRun
  <2>3. r.kind \in {"ACK", "NACK"} => ~r.sized
    BY <2>1, RepliesFit
  <2>4. tx'.kind \in {"ACK", "NACK"} => ~tx'.sized
    BY <2>1, <2>2, <2>3
  <2>5. QED
    BY <1>0, <2>4 DEF SizeInv, NoStalePayload, HndRun, link
<1>7. QED
  BY <1>1, <1>2, <1>3, <1>4, <1>5, <1>6 DEF Inv

\* The reply is sent.
LEMMA HndSendStep ==
    ASSUME Inv, HndSend
    PROVE  Inv'
<1>0. /\ TypeOK /\ FreshInv /\ ShapeInv /\ PendingInv /\ ServedInv /\ SizeInv
      /\ sock # 0 => sock \in Conns /\ sock = accepted
      /\ conn \in Nat /\ accepted \in Nat /\ accepted <= conn
      /\ conn # 0 => conn \in Conns
      /\ MaxReq \in Nat /\ MaxConn \in Nat /\ Conns = 1 .. MaxConn
  BY SockMade, ShellAssumption DEF Inv, Conns
<1>1. TypeOK'
  <2>1. sock \in Conns /\ answers[sock] \in Seq(Answer)
    BY <1>0 DEF TypeOK, ShapeInv, HndSend
  <2> DEFINE a == [to |-> job.payload, kind |-> tx.kind, sized |-> tx.sized, junk |-> erring]
  <2>2. a \in Answer
    BY <1>0 DEF TypeOK, Answer, Reply
  <2>3. Append(answers[sock], a) \in Seq(Answer)
    BY <2>1, <2>2, AppendProperties
  <2>4. answers' \in [Conns -> Seq(Answer)] /\ state' \in [Conns -> {"up", "fin", "rst"}]
    BY <1>0, <2>1, <2>3 DEF TypeOK, HndSend, Delivered
  <2>5. QED
    BY <1>0, <2>4 DEF TypeOK, HndSend, peer, server, buffer, handler, history
<1>2. FreshInv'
  <2>1. sock \in Conns /\ sock <= conn /\ conn' = conn /\ wire' = wire
    BY <1>0 DEF TypeOK, ShapeInv, HndSend, peer
  <2>2. \A c \in Conns : c # sock => answers'[c] = answers[c] /\ state'[c] = state[c]
    BY <1>0, <2>1 DEF TypeOK, HndSend, Delivered
  <2>3. QED
    BY <1>0, <2>1, <2>2 DEF FreshInv
<1>3. ShapeInv'
  BY <1>0, <1>1 DEF TypeOK, ShapeInv, HndSend, Delivered, peer, link, server, buffer, handler, history
<1>4. PendingInv'
  <2>1. sock \in Conns /\ sock <= accepted /\ accepted' = accepted
    BY <1>0 DEF TypeOK, ShapeInv, HndSend, server
  <2>2. accepted < conn => answers'[conn] = answers[conn]
    BY <1>0, <2>1 DEF TypeOK, HndSend, Delivered
  <2>3. Request' = Request /\ client' = client /\ conn' = conn /\ wire' = wire /\ strict' = strict
    BY DEF HndSend, Request, peer, history
  <2>4. QED
    BY <1>0, <2>1, <2>2, <2>3 DEF PendingInv
<1>5. ServedInv'
  <2>1. SUFFICES ASSUME Patient' PROVE ServedInv'
    BY DEF ServedInv
  <2>2. Patient /\ sock = conn /\ conn \in Conns /\ state[conn] = "up" /\ answers[conn] \in Seq(Answer)
    BY <1>0, <2>1 DEF Patient, HndSend, ShapeInv, TypeOK, peer, server, history
  <2>3. client = "waiting" /\ InHandler /\ srv = "recv" /\ ~erring
    BY <1>0, <2>2 DEF ServedInv, Patient, TypeOK, HndSend, OnWire, Announced, Replied, Dropped, Quiet
  <2> DEFINE a == [to |-> job.payload, kind |-> tx.kind, sized |-> tx.sized, junk |-> erring]
  <2>4. answers'[conn] = Append(<<>>, a)
    BY <1>0, <2>2, <2>3 DEF HndSend, Delivered, InHandler, TypeOK
  <2>5. answers'[conn] = <<a>>
    BY <2>4
  <2>6. a.to = sent /\ a.kind \in {"ACK", "NACK", asked} /\ ~a.junk
    BY <2>3 DEF InHandler, HndSend
  <2>7. Replied'
    BY <2>3, <2>5, <2>6 DEF Replied, Quiet, InHandler, HndSend, peer, buffer
  <2>8. QED
    BY <2>3, <2>7 DEF ServedInv, HndSend, peer, server
<1>6. SizeInv'
  <2>1. sock \in Conns /\ answers[sock] \in Seq(Answer)
    BY <1>0 DEF TypeOK, ShapeInv, HndSend
  <2> DEFINE a == [to |-> job.payload, kind |-> tx.kind, sized |-> tx.sized, junk |-> erring]
  <2>2. a \in Answer
    BY <1>0, <1>1 DEF TypeOK, Answer, Reply
  <2>3. a.kind \in {"ACK", "NACK"} => ~a.sized
    BY <1>0 DEF SizeInv, HndSend
  <2>4. answers' = answers \/ answers' = [answers EXCEPT ![sock] = Append(@, a)]
    BY DEF HndSend, Delivered
  <2>5. ASSUME NEW c \in Conns, NEW i \in DOMAIN answers'[c], answers'[c][i].kind \in {"ACK", "NACK"}
        PROVE  ~answers'[c][i].sized
    <3>1. CASE answers'[c] = answers[c]
      BY <1>0, <2>5, <3>1 DEF SizeInv, NoStalePayload
    <3>2. CASE answers'[c] = Append(answers[c], a) /\ c = sock
      <4>1. Len(answers'[c]) = Len(answers[c]) + 1 /\ DOMAIN answers'[c] = 1 .. Len(answers'[c])
        BY <2>1, <2>2, <3>2, AppendProperties
      <4>2. CASE i = Len(answers[c]) + 1
        BY <2>1, <2>2, <2>3, <2>5, <3>2, <4>2, AppendProperties
      <4>3. CASE i \in 1 .. Len(answers[c])
        <5>1. answers'[c][i] = answers[c][i] /\ i \in DOMAIN answers[c]
          BY <2>1, <2>2, <3>2, <4>3, AppendProperties
        <5>2. QED
          BY <1>0, <2>5, <5>1 DEF SizeInv, NoStalePayload
      <4>4. Len(answers[c]) \in Nat
        BY <2>1, <3>2
      <4>5. QED
        BY <4>1, <4>2, <4>3, <4>4
    <3>3. QED
      BY <1>0, <2>4, <3>1, <3>2 DEF TypeOK
  <2>6. QED
    BY <1>0, <2>5 DEF SizeInv, NoStalePayload, HndSend, handler
<1>7. QED
  BY <1>1, <1>2, <1>3, <1>4, <1>5, <1>6 DEF Inv

\* send() fails.
LEMMA HndSendFailsStep ==
    ASSUME Inv, HndSendFails
    PROVE  Inv'
<1>0. /\ TypeOK /\ FreshInv /\ ShapeInv /\ PendingInv /\ ServedInv /\ SizeInv
      /\ sock # 0 => sock \in Conns /\ sock = accepted
      /\ conn \in Nat /\ accepted \in Nat /\ accepted <= conn
      /\ conn # 0 => conn \in Conns
      /\ MaxReq \in Nat /\ MaxConn \in Nat /\ Conns = 1 .. MaxConn
  BY SockMade, ShellAssumption DEF Inv, Conns
<1>1. TypeOK'
  BY <1>0 DEF TypeOK, HndSendFails, peer, link, server, buffer, handler, history
<1>2. FreshInv'
  BY <1>0, <1>1 DEF TypeOK, FreshInv, HndSendFails, peer, link, server, buffer, handler, history
<1>3. ShapeInv'
  BY <1>0, <1>1 DEF TypeOK, ShapeInv, HndSendFails, peer, link, server, buffer, handler, history
<1>4. PendingInv'
  BY <1>0, <1>1 DEF TypeOK, ShapeInv, FreshInv, PendingInv, Request, HndSendFails, peer, link, server, buffer, handler, history
<1>5. ServedInv'
  BY <1>0, <1>1 DEF TypeOK, ShapeInv, ServedInv, Patient, OnWire, Announced, InHandler, Replied, Dropped, Quiet, Request, HndSendFails, peer, link, server, buffer, handler, history
<1>6. SizeInv'
  BY <1>0, <1>1 DEF TypeOK, SizeInv, NoStalePayload, HndSendFails, peer, link, server, buffer, handler, history
<1>7. QED
  BY <1>1, <1>2, <1>3, <1>4, <1>5, <1>6 DEF Inv

-----------------------------------------------------------------------------
LEMMA InitInv == Init => Inv
<1> SUFFICES ASSUME Init PROVE Inv
  OBVIOUS
<1>1. TypeOK
  <2>1. wire \in [Conns -> Seq(Segment)] /\ answers \in [Conns -> Seq(Answer)]
    BY DEF Init
  <2>2. rx \in Segment /\ tx \in Reply
    BY ShellAssumption DEF Init, Segment, Reply, KnownIds, AlwaysAcked
  <2>3. /\ client \in {"closed", "open", "waiting"}
        /\ asked \in Ids \cup {Unknown}
        /\ state \in [Conns -> {"up", "fin", "rst"}]
        /\ srv \in {"accept", "recv", "nack"}
        /\ hnd \in {"take", "handle", "run", "send"}
    BY DEF Init
  <2>4. /\ conn \in 0 .. MaxConn
        /\ sent \in 0 .. MaxReq
        /\ accepted \in 0 .. conn
        /\ sock \in {0, accepted}
    BY ShellAssumption DEF Init
  <2>5. wifi \in BOOLEAN /\ sem \in BOOLEAN /\ erring \in BOOLEAN
        /\ clean \in BOOLEAN /\ strict \in BOOLEAN
    BY DEF Init
  <2>6. job \in [id : Ids \cup {Unknown}, n : 0 .. MaxReq, payload : 0 .. MaxReq]
    BY ShellAssumption DEF Init
  <2>7. QED
    BY <2>1, <2>2, <2>3, <2>4, <2>5, <2>6 DEF TypeOK
<1>2. FreshInv /\ ShapeInv /\ PendingInv /\ ServedInv
  BY ShellAssumption DEF Init, FreshInv, ShapeInv, PendingInv, ServedInv, Patient
<1>3. SizeInv
  BY DEF Init, SizeInv, NoStalePayload
<1>4. QED
  BY <1>1, <1>2, <1>3 DEF Inv

LEMMA NextInv == Inv /\ [Next]_vars => Inv'
<1> SUFFICES ASSUME Inv, [Next]_vars PROVE Inv'
  OBVIOUS
<1>1. CASE Client
  <2>1. CASE \E id \in Ids, e, s \in BOOLEAN : Send(id, e, s)
    BY <2>1, SendStep
  <2>2. QED
    BY <1>1, <2>1, ConnectStep, ReceiveStep, LeaveStep DEF Client
<1>2. CASE Server
  <2>1. CASE SrvNackFails
    BY <2>1 DEF SrvNackFails, vars, peer, link, server, buffer, handler, history, Inv, TypeOK,
                FreshInv, ShapeInv, PendingInv, ServedInv, SizeInv, NoStalePayload, Patient,
                OnWire, Announced, InHandler, Replied, Dropped, Quiet, Request
  <2>2. QED
    BY <1>2, <2>1, SrvAcceptStep, SrvRecvStep, SrvRecvTwoStep, SrvNackStep, SrvHangupStep DEF Server
<1>3. CASE Handler
  BY <1>3, HndTakeStep, HndDispatchStep, HndRunStep, HndSendStep, HndSendFailsStep DEF Handler
<1>4. CASE UNCHANGED vars
  BY <1>4 DEF vars, peer, link, server, buffer, handler, history, Inv, TypeOK,
              FreshInv, ShapeInv, PendingInv, ServedInv, SizeInv, NoStalePayload, Patient,
              OnWire, Announced, InHandler, Replied, Dropped, Quiet, Request
<1>5. QED
  BY <1>1, <1>2, <1>3, <1>4 DEF Next

\* The inductive invariant holds of every behaviour.
THEOREM Invariance == SafetySpec => []Inv
BY InitInv, NextInv, PTL DEF SafetySpec

\* Type correctness of the two tasks, the connections and the buffers.
THEOREM TypeCorrect == SafetySpec => []TypeOK
<1>1. Inv => TypeOK
  BY DEF Inv
<1>2. QED
  BY <1>1, Invariance, PTL

\* A client that waits for its replies gets exactly the reply to each of its
\* requests, from the first connection that is accepted while the shell is at
\* rest, for any ids and any number of earlier clients (tcp_shell.c 164-396).
THEOREM PatientServed == SafetySpec => []PatientClientServed
<1>1. Inv => PatientClientServed
  BY DEF Inv, ServedInv, PatientClientServed, OnWire, Announced, InHandler, Replied, Dropped
<1>2. QED
  BY <1>1, Invariance, PTL

\* The handler takes id and payload from one validated message, although
\* rx_buffer is not locked (tcp_shell.c 170, 362; message_handlers.c 104).
THEOREM OneMessage == SafetySpec => []HandlerSeesOneMessage
<1>1. Inv => HandlerSeesOneMessage
  BY DEF Inv, ServedInv, HandlerSeesOneMessage, Patient, TypeOK, OnWire, Announced, InHandler,
         Replied, Dropped, Quiet, Request
<1>2. QED
  BY <1>1, Invariance, PTL

\* Nothing can overwrite the request the handler works on.
THEOREM BufferKept == SafetySpec => []NothingToOverwrite
<1>1. Inv => NothingToOverwrite
  BY DEF Inv, ServedInv, NothingToOverwrite, Patient, TypeOK, OnWire, Announced, InHandler,
         Replied, Dropped, Quiet
<1>2. QED
  BY <1>1, Invariance, PTL

\* ACK and NACK replies carry no payload size of an earlier reply, for every
\* client, patient or not (tcp_shell.c 359).
THEOREM SizesFresh == SafetySpec => []NoStalePayload
<1>1. Inv => NoStalePayload
  BY DEF Inv, SizeInv
<1>2. QED
  BY <1>1, Invariance, PTL

(* The handler works on one message and announces the sizes of its own     *)
(* reply.                                                                  *)
THEOREM HandlerIsUndisturbed == SafetySpec => []HandlerUndisturbed
BY TypeCorrect, OneMessage, BufferKept, SizesFresh, PTL DEF HandlerUndisturbed

-----------------------------------------------------------------------------
(* Lemmas about quotients and remainders, and what they make of a time of   *)
(* day.                                                                     *)

LEMMA QuotientNat == \A t \in Nat, m \in Nat \ {0} : t \div m \in Nat
OBVIOUS

LEMMA Quotient == \A t \in Nat, m \in Nat \ {0} : t = m * (t \div m) + (t % m)
OBVIOUS

LEMMA Remainder ==
    ASSUME NEW m \in Nat \ {0}, NEW t \in Nat
    PROVE  t \div m \in Nat /\ t % m \in 0 .. m - 1 /\ t = m * (t \div m) + (t % m)
<1>1. t % m \in 0 .. m - 1
  OBVIOUS
<1> QED
  BY <1>1, QuotientNat, Quotient

LEMMA RemainderIs ==
    ASSUME NEW m \in Nat \ {0}, NEW q \in Nat, NEW r \in 0 .. m - 1
    PROVE  (m * q + r) % m = r
OBVIOUS

LEMMA ProductGrows ==
    ASSUME NEW m \in Nat \ {0}, NEW p \in Nat, NEW q \in Nat, p < q
    PROVE  m * p + m <= m * q
<1>1. PICK k \in Nat : q = p + 1 + k
  OBVIOUS
<1>2. m * k \in Nat
  OBVIOUS
<1>3. m * q = m * p + m + m * k
  BY <1>1
<1> QED
  BY <1>2, <1>3

LEMMA Lengths ==
    /\ HalfDay \in Nat \ {0} /\ Minutes \in Nat \ {0}
    /\ Seconds \in Nat \ {0} /\ Seconds >= 2
    /\ C!Hours \in Nat \ {0} /\ C!Hours = 2 * HalfDay
    /\ Minutes * Seconds \in Nat \ {0} /\ C!Day \in Nat \ {0}
    /\ C!Day = Seconds * (C!Hours * Minutes) /\ C!Day = (Minutes * Seconds) * C!Hours
    /\ C!Hours * Minutes \in Nat \ {0}
BY DayAssumption DEF C!ClockAssumption, C!Hours, C!Day

Times == 0 .. C!Day - 1

LEMMA TimeRange == ASSUME NEW n \in Nat PROVE n % C!Day \in Times
BY Lengths DEF Times

LEMMA SecondRange == ASSUME NEW t \in Times PROVE C!Second(t) \in 0 .. Seconds - 1
BY Lengths DEF Times, C!Second

LEMMA MinuteRange == ASSUME NEW t \in Times PROVE C!Minute(t) \in 0 .. Minutes - 1
<1>1. t \div Seconds \in Nat
  BY Lengths, Remainder DEF Times
<1> QED
  BY <1>1, Lengths, Remainder DEF C!Minute

LEMMA HourRange == ASSUME NEW t \in Times PROVE C!Hour(t) \in 0 .. C!Hours - 1
<1>1. PICK m \in Nat \ {0} : m = Minutes * Seconds
  BY Lengths
<1>2. PICK h \in Nat : h = t \div m
  BY Lengths, Remainder DEF Times
<1>3. m * h <= t
  BY <1>2, Lengths DEF Times
<1>4. t < m * C!Hours
  BY <1>1, Lengths DEF Times
<1>5. CASE h < C!Hours
  BY <1>1, <1>2, <1>5, Lengths DEF C!Hour
<1>6. CASE C!Hours <= h
  <2>1. m * C!Hours <= m * h
    <3>1. CASE C!Hours = h
      BY <3>1
    <3>2. CASE C!Hours < h
      BY <3>2, Lengths, ProductGrows
    <3> QED
      BY <1>6, <3>1, <3>2, Lengths
  <2>2. m * C!Hours \in Nat /\ m * h \in Nat
    BY Lengths
  <2> QED
    BY <1>3, <1>4, <2>1, <2>2 DEF Times
<1> QED
  BY <1>5, <1>6, Lengths

(* A second later, also at midnight. *)
LEMMA NextSecond ==
    ASSUME NEW t \in Times
    PROVE  C!Second((t + 1) % C!Day) = (C!Second(t) + 1) % Seconds
<1>1. PICK s \in Nat \ {0} : s = Seconds /\ s >= 2
  BY Lengths
<1>2. PICK k \in Nat \ {0} : k = C!Hours * Minutes
  BY Lengths
<1>3. C!Day = s * k
  BY <1>1, <1>2, Lengths
<1>4. PICK q \in Nat, r \in 0 .. s - 1 : q = t \div s /\ r = t % s /\ t = s * q + r
  <2>1. t \in Nat
    BY Lengths DEF Times
  <2> QED
    BY <2>1, Remainder
<1>5. CASE t + 1 < C!Day
  <2>1. (t + 1) % C!Day = t + 1
    BY <1>5, Lengths DEF Times
  <2>2. CASE r + 1 < s
    <3>1. (t + 1) % s = r + 1 /\ (r + 1) % s = r + 1
      <4>1. t + 1 = s * q + (r + 1) /\ r + 1 \in 0 .. s - 1
        BY <1>4, <2>2
      <4> QED
        BY <4>1, RemainderIs
    <3> QED
      BY <1>1, <1>4, <2>1, <3>1 DEF C!Second
  <2>3. CASE r + 1 = s
    <3>1. t + 1 = s * (q + 1) + 0
      BY <1>4, <2>3
    <3>2. (t + 1) % s = 0
      BY <3>1, RemainderIs
    <3>3. (r + 1) % s = 0
      BY <2>3
    <3> QED
      BY <1>1, <1>4, <2>1, <3>2, <3>3 DEF C!Second
  <2> QED
    BY <1>4, <2>2, <2>3
<1>6. CASE t + 1 = C!Day
  <2>1. (t + 1) % C!Day = 0 /\ 0 % s = 0
    BY <1>6, Lengths
  <2>2. r = s - 1
    <3>1. PICK j \in Nat : j = k - 1
      BY <1>2
    <3>2. t + 1 = s * j + s
      BY <1>3, <1>6, <3>1
    <3>3. t = s * j + (s - 1) /\ s - 1 \in 0 .. s - 1
      BY <3>2, <1>1 DEF Times
    <3>4. (s * j + (s - 1)) % s = s - 1
      BY <3>3, RemainderIs
    <3> QED
      BY <1>4, <3>3, <3>4
  <2>3. (r + 1) % s = 0
    BY <2>2
  <2> QED
    BY <1>1, <1>4, <2>1, <2>3 DEF C!Second
<1> QED
  BY <1>5, <1>6, Lengths DEF Times

(* The second before. *)
LEMMA SecondBefore ==
    ASSUME NEW s \in Nat, s >= 2, NEW x \in 0 .. s - 1
    PROVE  /\ (x + s - 1) % s \in 0 .. s - 1
           /\ (x + s - 1) % s # x
           /\ (((x + 1) % s) + s - 1) % s = x
<1>1. CASE x = 0
  <2>1. x + s - 1 = s - 1 /\ (s - 1) % s = s - 1
    BY <1>1
  <2>2. (x + 1) % s = 1 /\ 1 + s - 1 = s * 1 + 0
    BY <1>1
  <2>3. (1 + s - 1) % s = 0
    BY <2>2
  <2> QED
    BY <1>1, <2>1, <2>2, <2>3
<1>2. CASE x > 0 /\ x < s - 1
  <2>1. x + s - 1 = s * 1 + (x - 1) /\ x - 1 \in 0 .. s - 1
    BY <1>2
  <2>2. (x + s - 1) % s = x - 1
    BY <2>1, RemainderIs
  <2>3. (x + 1) % s = x + 1 /\ x + 1 + s - 1 = s * 1 + x
    BY <1>2
  <2>4. (x + 1 + s - 1) % s = x
    BY <2>3, RemainderIs
  <2> QED
    BY <2>2, <2>3, <2>4
<1>3. CASE x = s - 1 /\ x > 0
  <2>1. x + s - 1 = s * 1 + (x - 1) /\ x - 1 \in 0 .. s - 1
    BY <1>3
  <2>2. (x + s - 1) % s = x - 1
    BY <2>1, RemainderIs
  <2>3. (x + 1) % s = 0 /\ 0 + s - 1 = s - 1 /\ (s - 1) % s = s - 1
    BY <1>3
  <2> QED
    BY <1>3, <2>2, <2>3
<1> QED
  BY <1>1, <1>2, <1>3

(* Half a day and the hour of the half tell the hour. *)
LEMMA HalfTold ==
    ASSUME NEW h \in 0 .. C!Hours - 1
    PROVE  /\ C!convert_24hour_to_12hour(h) \in 0 .. HalfDay
           /\ (C!convert_24hour_to_12hour(h) % HalfDay) + (IF h < HalfDay THEN 0 ELSE HalfDay) = h
<1>1. PICK n \in Nat \ {0} : n = HalfDay
  BY Lengths
<1>2. h % n \in 0 .. n - 1 /\ (h % n) + (IF h < n THEN 0 ELSE n) = h
  <2>1. CASE h < n
    BY <2>1
  <2>2. CASE n <= h
    <3>1. h - n \in 0 .. n - 1 /\ h = n * 1 + (h - n)
      BY <1>1, <2>2, Lengths
    <3>2. h % n = h - n
      BY <3>1, RemainderIs
    <3> QED
      BY <2>2, <3>1, <3>2
  <2> QED
    BY <2>1, <2>2
<1>3. n % n = 0 /\ (h % n) % n = h % n
  <2>1. n = n * 1 + 0 /\ 0 \in 0 .. n - 1
    OBVIOUS
  <2>2. n % n = 0
    BY <2>1, RemainderIs
  <2>3. \A r \in 0 .. n - 1 : r % n = r
    OBVIOUS
  <2> QED
    BY <1>2, <2>2, <2>3
<1>4. C!convert_24hour_to_12hour(h) = IF h % n = 0 THEN n ELSE h % n
  BY <1>1 DEF C!convert_24hour_to_12hour
<1>5. CASE h % n = 0
  BY <1>1, <1>2, <1>3, <1>4, <1>5
<1>6. CASE h % n # 0
  BY <1>1, <1>2, <1>3, <1>4, <1>6
<1> QED
  BY <1>5, <1>6

LEMMA MinuteTyped ==
    ASSUME NEW m \in 0 .. Minutes - 1
    PROVE  m \in 0 .. Minutes
BY Lengths

LEMMA TextTells ==
    ASSUME NEW t \in Times
    PROVE  /\ C!get_time_components(t) \in C!Text
           /\ C!HourShown(C!get_time_components(t)) = C!Hour(t)
           /\ C!get_time_components(t).min = C!Minute(t)
           /\ C!get_time_components(t).sec = C!Second(t)
<1>1. /\ C!Second(t) \in 0 .. Seconds /\ C!Minute(t) \in 0 .. Minutes - 1
      /\ C!Hour(t) \in 0 .. C!Hours - 1
  BY SecondRange, MinuteRange, HourRange, Lengths
<1>2. C!convert_24hour_to_12hour(C!Hour(t)) \in 0 .. HalfDay
  BY <1>1, HalfTold
<1>3. C!get_time_components(t) \in C!Text
  BY <1>1, <1>2, MinuteTyped DEF C!get_time_components, C!Text
<1>4. C!HourShown(C!get_time_components(t)) = C!Hour(t)
  BY <1>1, HalfTold DEF C!get_time_components, C!HourShown
<1> QED
  BY <1>3, <1>4 DEF C!get_time_components

LEMMA MenuTells ==
    ASSUME NEW h \in 0 .. C!Hours - 1, NEW m \in 0 .. Minutes - 1
    PROVE  /\ C!MenuText(h, m) \in C!Text
           /\ C!HourShown(C!MenuText(h, m)) = h /\ C!MenuText(h, m).min = m
<1>1. C!convert_24hour_to_12hour(h) \in 0 .. HalfDay /\ Seconds \in 0 .. Seconds
  BY HalfTold, Lengths
<1>2. C!MenuText(h, m) \in C!Text
  BY <1>1, MinuteTyped DEF C!MenuText, C!Text
<1>3. C!HourShown(C!MenuText(h, m)) = h
  BY HalfTold DEF C!MenuText, C!HourShown
<1> QED
  BY <1>2, <1>3 DEF C!MenuText

LEMMA BlankIsText == C!Blank \in C!Text
BY Lengths DEF C!Blank, C!Text

(* A text with the seconds of the update before. *)
LEMMA EarlierText ==
    ASSUME NEW t \in Times, NEW p \in 0 .. Seconds - 1, NEW x,
           x = [C!get_time_components(t) EXCEPT !.sec = p]
    PROVE  /\ x \in C!Text /\ C!HourShown(x) = C!Hour(t)
           /\ x.min = C!Minute(t) /\ x.sec = p
<1>1. PICK n \in C!Text : n = C!get_time_components(t)
  BY TextTells
<1>2. x = [n EXCEPT !.sec = p] /\ p \in 0 .. Seconds
  BY <1>1, Lengths
<1>3. x \in C!Text /\ x.hour = n.hour /\ x.am = n.am /\ x.min = n.min /\ x.sec = p
  BY <1>2 DEF C!Text
<1> QED
  BY <1>1, <1>3, TextTells DEF C!HourShown

LEMMA SteppedRange ==
    ASSUME NEW l \in Nat \ {0}, NEW n \in 0 .. l - 1, NEW up \in BOOLEAN
    PROVE  C!Stepped(n, l, up) \in 0 .. l - 1
<1>1. (n + 1) % l \in 0 .. l - 1
  OBVIOUS
<1> QED
  BY <1>1 DEF C!Stepped

-----------------------------------------------------------------------------
(* One lemma on each of the invariant's parts. *)

ClockStep == [C!Next]_(C!vars)

LEMMA TimeTyped ==
    C!TypeOK /\ ClockStep => time' \in Times
<1> SUFFICES ASSUME C!TypeOK, ClockStep PROVE time' \in Times
  OBVIOUS
<1>1. time \in Times
  BY DEF C!TypeOK, Times
<1>2. CASE C!Tick
  <2>1. PICK t \in Times : t = time
    BY <1>1
  <2>2. t + 1 \in Nat
    BY DEF Times
  <2> QED
    BY <1>2, <2>1, <2>2, TimeRange DEF C!Tick
<1>3. ASSUME NEW h \in Numbers, NEW m \in Numbers, NEW s \in Numbers, C!RtcSetTime(h, m, s)
      PROVE  time' \in Times
  <2>1. h \in Nat /\ m \in Nat /\ s \in Nat
    BY DayAssumption DEF C!ClockAssumption
  <2>2. h * Minutes * Seconds + m * Seconds + s \in Nat
    BY <2>1, Lengths
  <2>3. (h * Minutes * Seconds + m * Seconds + s) % C!Day \in Times
    BY <2>2, TimeRange
  <2> QED
    BY <1>3, <2>3 DEF C!RtcSetTime, C!TimeOf
<1>4. C!MenuCommit => time' \in Times
  BY DayAssumption DEF C!MenuCommit, C!ClockAssumption, Times
<1>5. C!OtherToIdle \/ C!IdleUpdate \/ C!IdleLeave \/ C!IdleToMenu => time' = time
  BY DEF C!OtherToIdle, C!IdleUpdate, C!IdleLeave, C!IdleToMenu
<1>6. C!MenuSelect \/ C!MenuCancel \/ C!MenuDraw \/ (\E up \in BOOLEAN : C!MenuStep(up)) => time' = time
  BY DEF C!MenuSelect, C!MenuCancel, C!MenuDraw, C!MenuStep
<1>7. UNCHANGED C!vars => time' = time
  BY DEF C!vars
<1> QED
  BY <1>1, <1>2, <1>3, <1>4, <1>5, <1>6, <1>7 DEF C!Next, ClockStep

LEMMA EnterKeeps ==
    ASSUME NEW t \in Times, C!IdleEnter(t)
    PROVE  /\ mode' = "IDLE" /\ ~fresh' /\ ~settled' /\ fresh' \in BOOLEAN /\ settled' \in BOOLEAN
           /\ time_buf' \in C!Text /\ prev_sec' \in 0 .. Seconds - 1
BY TextTells, SecondRange DEF C!IdleEnter

\* What the menu shows of an hour and a minute while it sets a field.
Shows(text, h, m, field) ==
    /\ text.am = (h < HalfDay)
    /\ C!HourShown(text) = h \/ (field = "HOURS" /\ text.hour = 0)
    /\ text.min = m \/ (field = "MINUTES" /\ text.min = Minutes)

LEMMA DrawnTells ==
    ASSUME NEW h \in 0 .. C!Hours - 1, NEW m \in 0 .. Minutes - 1, NEW field \in {"HOURS", "MINUTES"},
           set_hour' = h, set_min' = m, time_idx' = field, C!Drawn
    PROVE  fresh' /\ screen' \in C!Text /\ Shows(screen', h, m, field)
<1>1. PICK text \in C!Text : text = C!MenuText(h, m)
  BY MenuTells
<1>2. /\ C!HourShown(text) = h /\ text.min = m /\ text.am = (h < HalfDay)
  BY <1>1, MenuTells DEF C!MenuText
<1>3. fresh' /\ screen' \in C!MenuTexts(h, m, field)
  BY DEF C!Drawn
<1>4. CASE screen' = text
  BY <1>2, <1>3, <1>4 DEF Shows
<1>5. CASE field = "HOURS" /\ screen' = [text EXCEPT !.hour = 0]
  <2>1. PICK x : x = screen'
    OBVIOUS
  <2>2. x = [text EXCEPT !.hour = 0]
    BY <1>5, <2>1
  <2>3. x \in C!Text /\ x.hour = 0 /\ x.am = text.am /\ x.min = text.min
    BY <2>2, Lengths DEF C!Text
  <2> QED
    BY <1>2, <1>3, <1>5, <2>1, <2>3 DEF Shows
<1>6. CASE field = "MINUTES" /\ screen' = [text EXCEPT !.min = Minutes]
  <2>1. PICK x : x = screen'
    OBVIOUS
  <2>2. x = [text EXCEPT !.min = Minutes]
    BY <1>6, <2>1
  <2>3. x \in C!Text /\ x.hour = text.hour /\ x.am = text.am /\ x.min = Minutes
    BY <2>2, Lengths DEF C!Text
  <2>4. C!HourShown(x) = h
    BY <1>2, <2>3 DEF C!HourShown
  <2> QED
    BY <1>2, <1>3, <1>6, <2>1, <2>3, <2>4 DEF Shows
<1> QED
  BY <1>1, <1>3, <1>4, <1>5, <1>6 DEF C!MenuTexts

\* The text after an update of IDLE, in a second that has begun with or without one.
LEMMA UpdateTells ==
    ASSUME C!TypeOK, C!IdleText, C!ScreenFollows, C!IdleUpdate
    PROVE  /\ time_buf' \in C!Text
           /\ settled => /\ C!HourShown(time_buf') = C!Hour(time)
                         /\ time_buf'.min = C!Minute(time)
                         /\ time_buf'.sec = (C!Second(time) + Seconds - 1) % Seconds
<1>1. PICK t \in Times : t = time
  BY DEF C!TypeOK, Times
<1>2. PICK p \in 0 .. Seconds - 1 : p = prev_sec
  BY DEF C!TypeOK
<1>3. time_buf' = IF C!Second(t) # p THEN [C!get_time_components(t) EXCEPT !.sec = p] ELSE time_buf
  BY <1>1, <1>2, TextTells DEF C!IdleUpdate, C!IdleShow
<1>4. PICK x : x = time_buf'
  OBVIOUS
<1>5. x = [C!get_time_components(t) EXCEPT !.sec = p] =>
          /\ x \in C!Text /\ C!HourShown(x) = C!Hour(t)
          /\ x.min = C!Minute(t) /\ x.sec = p
  BY EarlierText
<1>6. mode = "IDLE"
  BY DEF C!IdleUpdate
<1>7. CASE settled /\ ~fresh
  <2>1. p = (C!Second(t) + Seconds - 1) % Seconds
    BY <1>1, <1>2, <1>6, <1>7 DEF C!IdleText
  <2>2. p # C!Second(t)
    BY <2>1, SecondRange, SecondBefore, Lengths
  <2> QED
    BY <1>1, <1>3, <1>4, <1>5, <2>1, <2>2
<1>8. CASE fresh
  <2>1. p = C!Second(t) /\ screen = time_buf
    BY <1>1, <1>2, <1>6, <1>8 DEF C!IdleText
  <2>2. time_buf' = time_buf
    BY <1>3, <2>1
  <2> QED
    BY <1>6, <1>8, <2>1, <2>2 DEF C!ScreenFollows, C!TypeOK
<1>9. CASE ~settled
  BY <1>3, <1>4, <1>5, <1>9 DEF C!TypeOK
<1> QED
  BY <1>7, <1>8, <1>9

\* A second that passes in IDLE.
LEMMA TickRemembers ==
    ASSUME C!TypeOK, C!IdleText, C!Tick, mode = "IDLE"
    PROVE  prev_sec' = (C!Second(time') + Seconds - 1) % Seconds
<1>1. PICK t \in Times : t = time
  BY DEF C!TypeOK, Times
<1>2. PICK x \in 0 .. Seconds - 1 : x = C!Second(t)
  BY <1>1, SecondRange
<1>3. prev_sec' = x
  BY <1>1, <1>2 DEF C!Tick, C!IdleText, C!idle
<1>4. C!Second(time') = (x + 1) % Seconds
  BY <1>1, <1>2, NextSecond DEF C!Tick
<1>5. (((x + 1) % Seconds) + Seconds - 1) % Seconds = x
  BY Lengths, SecondBefore
<1> QED
  BY <1>3, <1>4, <1>5

LEMMA ClockStepKeeps == C!IInv /\ ClockStep => C!IInv'
<1> SUFFICES ASSUME C!IInv, ClockStep PROVE C!IInv'
  OBVIOUS
<1>1. C!TypeOK /\ C!IdleText /\ C!ScreenFollows /\ C!MenuShowsChoice
  BY DEF C!IInv
<1>2. time' \in Times /\ time \in Times
  BY <1>1, TimeTyped DEF C!TypeOK, Times
<1> USE DEF C!idle, C!menu
<1> DEFINE Typed == /\ mode' \in {"IDLE", "MENU", "OTHER"}
                    /\ screen' \in C!Text /\ time_buf' \in C!Text
                    /\ prev_sec' \in 0 .. Seconds - 1
                    /\ set_hour' \in 0 .. C!Hours - 1 /\ set_min' \in 0 .. Minutes - 1
                    /\ time_idx' \in {"HOURS", "MINUTES", "IDLE"}
                    /\ mode' = "MENU" => time_idx' # "IDLE"
                    /\ fresh' \in BOOLEAN /\ settled' \in BOOLEAN
<1>3. Typed => C!TypeOK'
  BY <1>2 DEF C!TypeOK, Times
<1>4. mode' # "IDLE" => C!IdleText' /\ C!ScreenFollows'
  BY DEF C!IdleText, C!ScreenFollows
<1>5. ~fresh' \/ mode' # "MENU" => C!MenuShowsChoice'
  BY DEF C!MenuShowsChoice
<1>6. ~fresh' /\ ~settled' => C!IdleText' /\ C!ScreenFollows'
  BY DEF C!IdleText, C!ScreenFollows
<1>7. mode' = "MENU" /\ Shows(screen', set_hour', set_min', time_idx') =>
          C!MenuShowsChoice'
  BY DEF C!MenuShowsChoice, C!HourShown, Shows
<1>8. CASE C!Tick
  <2>1. Typed
    BY <1>1, <1>8 DEF C!Tick, C!TypeOK
  <2>2. ~fresh' /\ mode' = mode
    BY <1>8 DEF C!Tick
  <2>3. mode = "IDLE" => C!IdleText'
    BY <1>1, <1>8, <2>2, TickRemembers DEF C!IdleText, C!Second
  <2>4. C!ScreenFollows'
    BY <2>2 DEF C!ScreenFollows
  <2> QED
    BY <1>3, <1>4, <1>5, <2>1, <2>2, <2>3, <2>4 DEF C!IInv
<1>9. ASSUME NEW h \in Numbers, NEW m \in Numbers, NEW s \in Numbers, C!RtcSetTime(h, m, s)
      PROVE  C!IInv'
  <2>1. Typed /\ ~fresh' /\ ~settled'
    BY <1>1, <1>9 DEF C!RtcSetTime, C!TypeOK
  <2> QED
    BY <1>3, <1>5, <1>6, <2>1 DEF C!IInv
<1>10. CASE C!OtherToIdle
  <2>1. C!IdleEnter(time) /\ UNCHANGED <<screen, set_hour, set_min, time_idx>>
    BY <1>10 DEF C!OtherToIdle
  <2>2. Typed /\ ~fresh' /\ ~settled'
    BY <1>1, <1>2, <2>1, EnterKeeps DEF C!TypeOK
  <2> QED
    BY <1>3, <1>5, <1>6, <2>2 DEF C!IInv
<1>11. CASE C!IdleUpdate
  <2>1. /\ time_buf' \in C!Text
        /\ settled => /\ C!HourShown(time_buf') = C!Hour(time)
                      /\ time_buf'.min = C!Minute(time)
                      /\ time_buf'.sec = (C!Second(time) + Seconds - 1) % Seconds
    BY <1>1, <1>11, UpdateTells
  <2>2. /\ mode = "IDLE" /\ prev_sec' = C!Second(time) /\ screen' = time_buf' /\ fresh' = TRUE
        /\ UNCHANGED <<time, mode, settled, set_hour, set_min, time_idx>>
    BY <1>11 DEF C!IdleUpdate
  <2>3. Typed
    BY <1>1, <1>2, <2>1, <2>2, SecondRange DEF C!TypeOK
  <2>4. C!IdleText'
    BY <2>2 DEF C!IdleText, C!Second
  <2>5. C!ScreenFollows'
    BY <2>1, <2>2 DEF C!ScreenFollows, C!HourShown, C!Hour, C!Minute, C!Second
  <2> QED
    BY <1>3, <1>5, <2>2, <2>3, <2>4, <2>5 DEF C!IInv
<1>12. CASE C!IdleLeave
  <2>1. Typed /\ mode' = "OTHER"
    BY <1>1, <1>12, BlankIsText DEF C!IdleLeave, C!TypeOK
  <2> QED
    BY <1>3, <1>4, <1>5, <2>1 DEF C!IInv
<1>13. CASE C!IdleToMenu
  <2>1. PICK t \in Times : t = time
    BY <1>2
  <2>2. set_hour' = C!convert_24hour_to_12hour(C!Hour(t)) /\ set_min' = C!Minute(t)
    BY <1>13, <2>1 DEF C!IdleToMenu, C!get_time_components
  <2>3. C!convert_24hour_to_12hour(C!Hour(t)) \in 0 .. C!Hours - 1
    <3>1. C!convert_24hour_to_12hour(C!Hour(t)) \in 0 .. HalfDay
      BY HourRange, HalfTold
    <3> QED
      BY <3>1, Lengths
  <2>4. Typed /\ mode' = "MENU" /\ ~fresh'
    BY <1>1, <1>13, <2>2, <2>3, BlankIsText, MinuteRange DEF C!IdleToMenu, C!TypeOK
  <2> QED
    BY <1>3, <1>4, <1>5, <2>4 DEF C!IInv
<1>14. CASE C!MenuSelect
  <2>1. /\ mode' = "MENU" /\ C!Drawn /\ set_hour' = set_hour /\ set_min' = set_min
        /\ UNCHANGED <<time_buf, prev_sec, settled>> /\ time_idx' = "MINUTES"
    BY <1>14 DEF C!MenuSelect
  <2>2. fresh' /\ screen' \in C!Text /\ Shows(screen', set_hour', set_min', time_idx')
    <3>1. PICK h \in 0 .. C!Hours - 1 : h = set_hour'
      BY <1>1, <2>1 DEF C!TypeOK
    <3>2. PICK m \in 0 .. Minutes - 1 : m = set_min'
      BY <1>1, <2>1 DEF C!TypeOK
    <3>3. PICK field \in {"HOURS", "MINUTES"} : field = time_idx'
      BY <1>1, <2>1 DEF C!TypeOK
    <3> QED
      BY <2>1, <3>1, <3>2, <3>3, DrawnTells
  <2>3. Typed
    BY <1>1, <2>1, <2>2 DEF C!TypeOK, C!Drawn
  <2> QED
    BY <1>3, <1>4, <1>7, <2>1, <2>2, <2>3 DEF C!IInv
<1>15. CASE C!MenuCommit
  <2>1. MenuTime \in Times
    BY DayAssumption DEF C!ClockAssumption, Times
  <2>2. /\ C!IdleEnter(MenuTime) /\ screen' = C!MenuText(set_hour, set_min)
        /\ UNCHANGED <<set_hour, set_min>> /\ time_idx' = "IDLE"
    BY <1>15 DEF C!MenuCommit
  <2>3. screen' \in C!Text
    BY <1>1, <2>2, MenuTells DEF C!TypeOK
  <2>4. Typed /\ ~fresh' /\ ~settled'
    BY <1>1, <2>1, <2>2, <2>3, EnterKeeps DEF C!TypeOK
  <2> QED
    BY <1>3, <1>5, <1>6, <2>4 DEF C!IInv
<1>16. CASE C!MenuCancel
  <2>1. C!IdleEnter(time) /\ UNCHANGED <<screen, set_hour, set_min, time_idx>>
    BY <1>16 DEF C!MenuCancel
  <2>2. Typed /\ ~fresh' /\ ~settled'
    BY <1>1, <1>2, <2>1, EnterKeeps DEF C!TypeOK
  <2> QED
    BY <1>3, <1>5, <1>6, <2>2 DEF C!IInv
<1>17. ASSUME NEW up \in BOOLEAN, C!MenuStep(up) PROVE C!IInv'
  <2>1. /\ mode' = "MENU" /\ mode = "MENU" /\ C!Drawn
        /\ UNCHANGED <<time_buf, prev_sec, settled, time_idx>>
    BY <1>17 DEF C!MenuStep
  <2>2. set_hour' \in 0 .. C!Hours - 1 /\ set_min' \in 0 .. Minutes - 1
    BY <1>1, <1>17, SteppedRange, Lengths DEF C!MenuStep, C!TypeOK
  <2>3. fresh' /\ screen' \in C!Text /\ Shows(screen', set_hour', set_min', time_idx')
    <3>1. PICK h \in 0 .. C!Hours - 1 : h = set_hour'
      BY <2>2
    <3>2. PICK m \in 0 .. Minutes - 1 : m = set_min'
      BY <2>2
    <3>3. PICK field \in {"HOURS", "MINUTES"} : field = time_idx'
      BY <1>1, <2>1 DEF C!TypeOK
    <3> QED
      BY <2>1, <3>1, <3>2, <3>3, DrawnTells
  <2>4. Typed
    BY <1>1, <2>1, <2>2, <2>3 DEF C!TypeOK, C!Drawn
  <2> QED
    BY <1>3, <1>4, <1>7, <2>1, <2>3, <2>4 DEF C!IInv
<1>18. CASE C!MenuDraw
  <2>1. /\ mode' = "MENU" /\ mode = "MENU" /\ C!Drawn
        /\ UNCHANGED <<time_buf, prev_sec, settled, set_hour, set_min, time_idx>>
    BY <1>18 DEF C!MenuDraw
  <2>2. fresh' /\ screen' \in C!Text /\ Shows(screen', set_hour', set_min', time_idx')
    <3>1. PICK h \in 0 .. C!Hours - 1 : h = set_hour'
      BY <1>1, <2>1 DEF C!TypeOK
    <3>2. PICK m \in 0 .. Minutes - 1 : m = set_min'
      BY <1>1, <2>1 DEF C!TypeOK
    <3>3. PICK field \in {"HOURS", "MINUTES"} : field = time_idx'
      BY <1>1, <2>1 DEF C!TypeOK
    <3> QED
      BY <2>1, <3>1, <3>2, <3>3, DrawnTells
  <2>3. Typed
    BY <1>1, <2>1, <2>2 DEF C!TypeOK, C!Drawn
  <2> QED
    BY <1>3, <1>4, <1>7, <2>1, <2>2, <2>3 DEF C!IInv
<1>19. CASE UNCHANGED C!vars
  <2>1. C!TypeOK'
    BY <1>1, <1>19 DEF C!vars, C!TypeOK
  <2>2. C!IdleText' /\ C!ScreenFollows'
    BY <1>1, <1>19 DEF C!vars, C!IdleText, C!ScreenFollows, C!HourShown, C!Hour, C!Minute, C!Second
  <2>3. C!MenuShowsChoice'
    BY <1>1, <1>19 DEF C!vars, C!MenuShowsChoice, C!HourShown
  <2> QED
    BY <2>1, <2>2, <2>3 DEF C!IInv
<1> QED
  BY <1>8, <1>9, <1>10, <1>11, <1>12, <1>13, <1>14, <1>15, <1>16, <1>17, <1>18, <1>19
     DEF ClockStep, C!Next

LEMMA ClockInitially == MCInit => C!IInv
<1> SUFFICES ASSUME C!Init PROVE C!IInv
  BY DEF MCInit
<1>1. C!TypeOK
  <2>1. 0 \in 0 .. Seconds - 1 /\ 0 \in 0 .. C!Hours - 1 /\ 0 \in 0 .. Minutes - 1
    BY Lengths
  <2>2. /\ set_hour = 0 /\ set_min = 0 /\ prev_sec = 0 /\ time_idx = "IDLE" /\ mode = "OTHER"
        /\ screen = C!Blank /\ time_buf = C!Blank /\ fresh = FALSE /\ settled = FALSE
        /\ time \in 0 .. C!Day - 1
    BY DEF C!Init
  <2> QED
    BY <2>1, <2>2, BlankIsText DEF C!TypeOK
<1>2. C!IdleText /\ C!ScreenFollows /\ C!MenuShowsChoice
  BY DEF C!Init, C!IdleText, C!ScreenFollows, C!MenuShowsChoice
<1> QED
  BY <1>1, <1>2 DEF C!IInv

(* A second after IDLE began or the time was set the display has the hour   *)
(* and minute of now (idle_state.c 221-236), and the menu tells what it     *)
(* would set (menu_state.c 155-232), for every length of minutes, hours and *)
(* days and every time a client sets.                                       *)
THEOREM ClockTells == MCSpec => []ClockRight
<1>1. C!IInv /\ [MCNext]_<<part, vars, clockVars>> => C!IInv'
  <2> SUFFICES ASSUME C!IInv, [MCNext]_<<part, vars, clockVars>> PROVE C!IInv'
    OBVIOUS
  <2>1. ClockStep
    BY DEF MCNext, clockVars, ClockStep, C!vars, C!idle, C!menu
  <2> QED
    BY <2>1, ClockStepKeeps
<1>2. C!IInv => ClockRight
  BY DEF C!IInv, ClockRight
<1> QED
  BY <1>1, <1>2, ClockInitially, PTL DEF MCSpec
===============================================================================
