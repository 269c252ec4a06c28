----------------------------- MODULE Websocket -----------------------------
(***************************************************************************)
(* A websocket over a socketbuf: connect() sends the request and reads the  *)
(* answer's lines, msg() reads frames, send() may come from anybody at any  *)
(* time, and whoever owns the websocket may reset it while it is read.  The *)
(* socketbuf turns the socket's "can be read" and "can be written" into     *)
(* reads of a given size and writes that never wait.                        *)
(*                                                                         *)
(* The bytes the server sends are numbers that tell which item of what it   *)
(* sent they belong to, and where in it; those of the client are 1, 2, ...  *)
(***************************************************************************)
EXTENDS BytePipe, SequencesExt, FiniteSetsExt

CONSTANTS
    BufSize, Chunk,     \* sizes of the receive buffer (4096) and of a read (1024)
    SendSize,           \* size of the send buffer (256)
    Capacity,           \* what the kernel takes before it says "not now"
    Short,              \* the longest body whose length is in the second byte (125)
    Kinds,              \* the frames the server may send
    MaxFrames,          \* bounds: frames of a connection,
    MaxEvents           \* frames, sends and faults in all

VARIABLES
    sb,         \* the socketbuf, and what its last completed read or wait returned
    pc, kind,   \* the coroutine in connect() and msg(), the frame it reads
    resetting,  \* reset() runs the coroutine from inside socket_failed()
    net,        \* the connection: wire, closed, room and what the kernel took
    sent,       \* items the server sent on this connection
    mine,       \* bytes the client queued on it
    got,        \* messages msg() returned on it
    events

conn == <<net, sent, mine, got>>
vars == <<sb, pc, kind, resetting, conn, events>>

(***************************************************************************)
(* Items: lines of the handshake and frames.                               *)
(***************************************************************************)
Lines == {"101", "403", "blank"}
Body(item) ==
    CASE item = "text" -> 1 [] item = "long" -> Short + 3 [] item = "ping" -> 1
      [] item = "close" -> 0 [] item = "fragment" -> 1
Length(item) ==
    CASE item = "blank" -> 1 [] item \in {"101", "403"} -> 2
      [] OTHER -> Body(item) + IF Body(item) > Short THEN 4 ELSE 2
Bytes(k, item) == [j \in 1..Length(item) |-> 10 * k + j]
Item(b) == sent[b \div 10]
Place(b) == b % 10
NewlinesIn(p) ==
    {b \in ToSet(Content(p)) : Item(b) \in Lines /\ Place(b) = Length(Item(b))}

(***************************************************************************)
(* socketbuf.                                                              *)
(***************************************************************************)
NoSocket ==
    [sock |-> FALSE, recv_by |-> Pipe(BufSize), send_by |-> Pipe(SendSize),
     recv_op |-> "none", recv_bytes |-> 0, recv_wait |-> FALSE,
     send_wait |-> FALSE, send_prod |-> FALSE, ready |-> FALSE, val |-> <<>>]

\* Whoever waits gets zero, or false.
SocketFailed(s) ==
    LET waits == s.send_prod \/ s.recv_op # "none"
    IN  [s EXCEPT !.sock = FALSE, !.send_wait = FALSE, !.recv_wait = FALSE,
                  !.send_prod = FALSE, !.recv_op = "none",
                  !.ready = @ \/ waits, !.val = IF waits THEN <<>> ELSE @]

Cleared(s) == [s EXCEPT !.recv_by = Pipe(BufSize), !.send_by = Pipe(SendSize)]
Reset(s) == Cleared(SocketFailed(s))

Complete(s, r) ==
    [s EXCEPT !.recv_by = r.pipe, !.recv_op = "none", !.ready = TRUE, !.val = r.bytes]
CanRecv(s) == [s EXCEPT !.recv_wait = TRUE]

\* Mutant: more bytes are waited for than asked for.
RecvCompleteLate(s, prev_size) ==
    LET line == PullLine(s.recv_by, prev_size, NewlinesIn(s.recv_by))
    IN  IF ~s.sock THEN SocketFailed(s)
        ELSE IF s.recv_op = "line"
        THEN IF line.bytes # <<>> \/ Size(s.recv_by) >= s.recv_bytes
             THEN Complete(s, line) ELSE CanRecv(s)
        ELSE IF Size(s.recv_by) > s.recv_bytes
        THEN Complete(s, Pull(s.recv_by, s.recv_bytes)) ELSE CanRecv(s)

RecvComplete(s, prev_size) ==
    LET line == PullLine(s.recv_by, prev_size, NewlinesIn(s.recv_by))
    IN  IF ~s.sock THEN SocketFailed(s)
        ELSE IF s.recv_op = "line"
        THEN IF line.bytes # <<>> \/ Size(s.recv_by) >= s.recv_bytes
             THEN Complete(s, line) ELSE CanRecv(s)
        ELSE IF Size(s.recv_by) >= s.recv_bytes
        THEN Complete(s, Pull(s.recv_by, s.recv_bytes)) ELSE CanRecv(s)

\* u8, u16b, bytes and line: a read begins.
Get(s, op, n) ==
    RecvComplete([s EXCEPT !.recv_op = op, !.recv_bytes = n, !.ready = FALSE], 0)
MaxLine == BufSize * 2

\* recv_ready, which read these bytes.
RecvReady(s, bytes) ==
    LET prev == Size(s.recv_by)
        q == Filled(PushBegin(s.recv_by, Chunk), bytes)
    IN  RecvComplete([s EXCEPT !.recv_by = q, !.recv_wait = FALSE], prev)

SendPrepare(s) ==
    IF Size(s.send_by) > 0 THEN [s EXCEPT !.send_wait = TRUE]
    ELSE IF s.send_prod THEN [s EXCEPT !.send_prod = FALSE, !.ready = TRUE, !.val = <<1>>]
    ELSE s

\* send_ready on a connection whose kernel has this room: what send_sync() is given, and
\* takes, and the socketbuf after it.  No bytes at all are an error.
Offered(s) == IF s.sock THEN Chunk1(PullBegin(s.send_by, 1)) ELSE <<>>
Taken(s, room) == SubSeq(Offered(s), 1, Min({room, Len(Offered(s))}))
Refused(s, fails) == s.sock /\ (fails \/ Offered(s) = <<>>)

\* Mutant: what was offered is forgotten, taken or not.
SendReadyAll(s, room, fails) ==
    IF ~s.sock THEN s
    ELSE IF Refused(s, fails) THEN SocketFailed(s)
    ELSE SendPrepare([s EXCEPT !.send_by = PullFinish(PullBegin(@, 1), Len(Offered(s)))])

SendReady(s, room, fails) ==
    IF ~s.sock THEN s
    ELSE IF Refused(s, fails) THEN SocketFailed(s)
    ELSE SendPrepare([s EXCEPT !.send_by = PullFinish(PullBegin(@, 1), Len(Taken(s, room)))])

\* await_send
AwaitSend(s) ==
    IF ~s.sock \/ Size(s.send_by) = 0
    THEN [s EXCEPT !.ready = TRUE, !.val = IF s.sock THEN <<1>> ELSE <<>>]
    ELSE [s EXCEPT !.send_prod = TRUE]

(***************************************************************************)
(* websocket, and a coroutine that calls connect() and then msg() as long   *)
(* as there is a connection.                                               *)
(***************************************************************************)
NoNet == [wire |-> <<>>, closed |-> FALSE, room |-> Capacity, out |-> <<>>]

Init ==
    /\ sb = NoSocket /\ pc = "idle" /\ kind = "" /\ resetting = FALSE
    /\ net = NoNet /\ sent = <<>> /\ mine = 0 /\ got = <<>> /\ events = 0

Spend == events < MaxEvents /\ events' = events + 1
\* Nobody is in the middle of something.
Idle == ~sb.ready /\ ~resetting

\* send_buf for each of the parts and send_flush(), on s.
Send(s, lengths) ==
    LET Numbers(from, k) == [i \in 1..k |-> from + i]
        Add(r, k) == [pipe |-> Push(r.pipe, Numbers(r.end, k)), end |-> r.end + k]
        all == FoldLeft(Add, [pipe |-> s.send_by, end |-> mine], lengths)
        full == [s EXCEPT !.send_by = all.pipe]
    IN  \E fails \in {FALSE, net.closed} :
            /\ sb' = SendReady(full, net.room, fails)
            /\ net' = IF Refused(full, fails) THEN net
                      ELSE [net EXCEPT !.room = @ - Len(Taken(full, net.room)),
                                       !.out = @ \o Taken(full, net.room)]
            /\ mine' = all.end

Connect ==
    /\ pc = "idle" /\ Idle /\ pc' = "dial"
    /\ sb' = Reset(sb)
    /\ UNCHANGED <<kind, resetting, conn, events>>

DialFails ==
    /\ pc = "dial" /\ Idle /\ Spend /\ pc' = "idle"
    /\ UNCHANGED <<sb, kind, resetting, conn>>

\* A new connection: the request is queued in pieces, flushed and waited for.
Request == <<1, 2>>
Dialed ==
    /\ pc = "dial" /\ Idle /\ pc' = "request"
    /\ LET all == FoldLeft(LAMBDA p, k : Push(p, [i \in 1..k |-> Size(p) + i]),
                           Pipe(SendSize), Request)
           full == [Reset(sb) EXCEPT !.sock = TRUE, !.send_by = all]
       IN  /\ sb' = AwaitSend(SendReady(full, Capacity, FALSE))
           /\ net' = [NoNet EXCEPT !.room = @ - Len(Taken(full, Capacity)),
                                   !.out = Taken(full, Capacity)]
           /\ mine' = Size(all)
    /\ sent' = <<>> /\ got' = <<>>
    /\ UNCHANGED <<kind, resetting, events>>

\* The coroutine goes on: sb.val is what it waited for.
Goes(at) == sb.ready /\ pc = at
Reads(op, n, next) == sb' = Get(sb, op, n) /\ pc' = next
\* "sock = nullptr" and return; the owner tries again later.
Fails == sb' = [Reset(sb) EXCEPT !.ready = FALSE] /\ pc' = "idle"
Rest == UNCHANGED <<resetting, conn, events>>

RequestSent ==
    /\ Goes("request")
    /\ IF sb.val # <<>> /\ sb.sock THEN Reads("line", MaxLine, "status") ELSE Fails
    /\ Rest /\ UNCHANGED kind

StatusLine ==
    /\ Goes("status")
    /\ IF sb.val # <<>> /\ Item(sb.val[1]) = "101" THEN Reads("line", MaxLine, "headers") ELSE Fails
    /\ Rest /\ UNCHANGED kind

HeaderLine ==
    /\ Goes("headers")
    /\ IF sb.val = <<>> THEN Fails
       ELSE IF Len(sb.val) = 1 THEN sb' = sb /\ pc' = "caller"
       ELSE Reads("line", MaxLine, "headers")
    /\ Rest /\ UNCHANGED kind

CallMsg ==
    /\ Goes("caller")
    /\ IF sb.sock THEN Reads("u8", 1, "type") ELSE Fails
    /\ Rest /\ UNCHANGED kind

\* A byte that is the j-th of a frame.
HeadByte(j) == sb.val # <<>> /\ Item(sb.val[1]) \notin Lines /\ Place(sb.val[1]) = j

FrameType ==
    /\ Goes("type")
    /\ IF HeadByte(1) /\ Item(sb.val[1]) # "fragment"
       THEN kind' = Item(sb.val[1]) /\ Reads("u8", 1, "size")
       ELSE kind' = "" /\ Fails
    /\ Rest

\* A connection that failed here gives a size of zero, and bytes() then sees it.
FrameSize ==
    /\ Goes("size")
    /\ IF sb.val = <<>> THEN Reads("bytes", 0, "body")
       ELSE IF ~HeadByte(2) THEN Fails
       ELSE IF Body(kind) > Short THEN Reads("u16b", 2, "size16")
       ELSE Reads("bytes", Body(kind), "body")
    /\ Rest /\ UNCHANGED kind

FrameSize16 ==
    /\ Goes("size16")
    /\ IF HeadByte(3) THEN Reads("bytes", Body(kind), "body") ELSE Fails
    /\ Rest /\ UNCHANGED kind

\* The end of msg(), on a ping only until it reads again.
FrameBody ==
    /\ Goes("body") /\ kind' = ""
    /\ IF ~sb.sock THEN pc' = "caller" /\ UNCHANGED <<sb, conn>>
       ELSE IF kind = "close" THEN pc' = "caller" /\ sb' = Reset(sb) /\ UNCHANGED conn
       ELSE IF kind = "ping"
       THEN Send(sb, <<1, Len(sb.val)>>) /\ pc' = "again" /\ UNCHANGED <<sent, got>>
       ELSE got' = Append(got, sb.val) /\ pc' = "caller" /\ UNCHANGED <<sb, net, sent, mine>>
    /\ UNCHANGED <<resetting, events>>

Again ==
    /\ Goes("again") /\ Reads("u8", 1, "type")
    /\ Rest /\ UNCHANGED kind

\* Somebody sends a message: the coroutine between two messages, or anybody else while it
\* waits for one.
Up == pc \in {"caller", "type", "size", "size16", "body"}
AppSend ==
    /\ Up /\ sb.sock /\ Spend
    /\ Idle \/ (pc = "caller" /\ ~resetting)
    /\ Send(sb, <<1, 1>>)
    /\ UNCHANGED <<pc, kind, resetting, sent, got>>

\* Somebody resets the websocket while the coroutine waits: it runs at once, inside
\* socket_failed(), and reset() goes on when it waits again.
OwnerResets ==
    /\ Idle /\ sb.sock /\ Spend
    /\ sb' = SocketFailed(sb) /\ resetting' = TRUE
    /\ UNCHANGED <<pc, kind, conn>>
ResetGoesOn ==
    /\ resetting /\ ~sb.ready /\ resetting' = FALSE
    /\ sb' = [Cleared(sb) EXCEPT !.sock = FALSE]
    /\ UNCHANGED <<pc, kind, conn, events>>

\* Or the coroutine is destroyed first.
OwnerCancels ==
    /\ Idle /\ sb.sock /\ Spend
    /\ sb' = Reset([sb EXCEPT !.recv_op = "none", !.send_prod = FALSE])
    /\ pc' = "idle" /\ kind' = ""
    /\ UNCHANGED <<resetting, conn>>

(***************************************************************************)
(* The run loop: the socket can be read or written.                        *)
(***************************************************************************)
Readable ==
    /\ Idle /\ sb.recv_wait
    /\ \/ net.wire = <<>> /\ net.closed /\ sb' = SocketFailed(sb) /\ UNCHANGED net
       \/ \E k \in 1..Min({Len(net.wire), Room(PushBegin(sb.recv_by, Chunk))}) :
            /\ sb' = RecvReady(sb, SubSeq(net.wire, 1, k))
            /\ net' = [net EXCEPT !.wire = SubSeq(@, k + 1, Len(@))]
    /\ UNCHANGED <<pc, kind, resetting, sent, mine, got, events>>

Writable ==
    /\ Idle /\ sb.send_wait /\ (net.room > 0 \/ net.closed)
    /\ Send([sb EXCEPT !.send_wait = FALSE], <<>>)
    /\ UNCHANGED <<pc, kind, resetting, sent, got, events>>

(***************************************************************************)
(* The network and the server (external).                                  *)
(***************************************************************************)
NetworkCarries ==
    /\ net.room < Capacity /\ net' = [net EXCEPT !.room = Capacity]
    /\ UNCHANGED <<sb, pc, kind, resetting, sent, mine, got, events>>

Says(item) ==
    /\ sb.sock /\ ~net.closed
    /\ sent' = Append(sent, item)
    /\ net' = [net EXCEPT !.wire = @ \o Bytes(Len(sent'), item)]
    /\ UNCHANGED <<sb, pc, kind, resetting, mine, got>>
GotRequest == Len(net.out) >= Request[1] + Request[2]

ServerAnswers ==
    /\ GotRequest /\ UNCHANGED events
    /\ \/ sent = <<>> /\ Says("101")
       \/ sent = <<"101">> /\ Says("blank")
ServerRefuses == GotRequest /\ sent = <<>> /\ Spend /\ Says("403")
ServerSends(item) ==
    /\ Len(sent) \in 2..(MaxFrames + 1) /\ sent[1] = "101"
    /\ Spend /\ Says(item)
ServerCloses ==
    /\ sb.sock /\ ~net.closed /\ Spend
    /\ \E wire \in {net.wire, <<>>} : net' = [net EXCEPT !.closed = TRUE, !.wire = wire]
    /\ UNCHANGED <<sb, pc, kind, resetting, sent, mine, got>>

Runs ==
    \/ RequestSent \/ StatusLine \/ HeaderLine \/ CallMsg
    \/ FrameType \/ FrameSize \/ FrameSize16 \/ FrameBody \/ Again \/ ResetGoesOn

Next ==
    \/ Runs \/ Connect \/ Dialed \/ DialFails \/ Readable \/ Writable
    \/ AppSend \/ OwnerResets \/ OwnerCancels
    \/ NetworkCarries \/ ServerAnswers \/ ServerRefuses \/ ServerCloses
    \/ \E item \in Kinds : ServerSends(item)

Spec == Init /\ [][Next]_vars

\* Coroutines that can run do, the run loop sees what can be read and written, the network
\* carries, the owner connects again and the server answers the request.  The first five
\* are weak fairness, with the condition under which the action can happen spelled out.
Fairness ==
    /\ []<>~(sb.ready \/ resetting) \/ []<><<Runs>>_vars
    /\ []<>~(pc = "idle" /\ Idle) \/ []<><<Connect>>_vars
    /\ []<>~(pc = "dial" /\ Idle) \/ []<><<Dialed>>_vars
    /\ []<>~(Idle /\ sb.recv_wait /\ (net.wire # <<>> \/ net.closed)) \/ []<><<Readable>>_vars
    /\ []<>~(Idle /\ sb.send_wait /\ (net.room > 0 \/ net.closed)) \/ []<><<Writable>>_vars
    /\ WF_vars(NetworkCarries) /\ WF_vars(ServerAnswers)

FairSpec == Spec /\ Fairness

(***************************************************************************)
(* Properties.                                                             *)
(***************************************************************************)
Bodies ==
    [k \in DOMAIN sent |->
        IF sent[k] \in {"text", "long"}
        THEN <<SubSeq(Bytes(k, sent[k]), Length(sent[k]) - Body(sent[k]) + 1, Length(sent[k]))>>
        ELSE <<>>]
Messages == FlattenSeq(Bodies)

\* msg() returns the messages of the connection in order, each whole and once, whatever
\* pieces they come in and whoever sends, fails or resets meanwhile.
MessagesInOrder == IsPrefix(got, Messages)

\* What the kernel was given and what waits in send_by is, in order, everything that was
\* sent on this connection: no byte twice, none left out, no frame inside another.
BytesInOrder == sb.sock => net.out \o Content(sb.send_by) = [i \in 1..mine |-> i]

Inside(p) ==
    /\ 0 <= p.buf1st /\ p.buf1st <= p.buf1end /\ p.buf1end <= Len(p.buf1)
    /\ 0 <= p.buf2st /\ p.buf2st <= p.buf2end /\ p.buf2end <= Len(p.buf2)

\* The pipes stay inside their buffers; a read that is not complete waits for the socket,
\* and so do bytes that are not sent.
TypeOK ==
    /\ Inside(sb.recv_by) /\ Inside(sb.send_by)
    /\ sb.recv_op \in {"none", "line", "u8", "u16b", "bytes"}
    /\ sb.recv_op # "none" => sb.sock /\ sb.recv_wait /\ ~sb.ready
    /\ sb.sock /\ Size(sb.send_by) > 0 => sb.send_wait
    /\ net.room \in 0..Capacity /\ mine \in Nat /\ events \in 0..MaxEvents

\* Nobody waits for what will not come, and the buffers have what was put into them.
SocketbufIsSound == TypeOK /\ BytesInOrder

\* In the end there is a connection on which everything has arrived, in both directions.
EverythingArrives ==
    <>[](Up /\ sb.sock /\ got = Messages /\ net.wire = <<>> /\ Len(net.out) = mine)

\* send_sync() is never called without bytes ("cannot send zero bytes", socket-unix.cpp):
\* whoever waits for the socket to become writable has some.
NoEmptySend == sb.send_wait => Size(sb.send_by) > 0
=============================================================================
