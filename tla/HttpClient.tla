----------------------------- MODULE HttpClient -----------------------------
(***************************************************************************)
(* http_t::request (arlib/http.cpp): an HTTP/1.1 client that pipelines     *)
(* GETs on one kept-alive socket, for coroutines on one run loop.          *)
(*                                                                         *)
(* A request takes mut1, decides whether it may be pipelined, and if not   *)
(* also takes mut2 and replaces the socket unless keep-alive suffices; it  *)
(* leaves mut1, sends, takes mut2 unless it has it, checks that the socket *)
(* is still the one it sent on and that it is next on it, and reads.       *)
(* Code between two co_awaits runs without interruption, on top of stack.  *)
(* The value is delivered to the caller, whose code runs on, before the    *)
(* destructors of the request's locks: that is pc "return".                *)
(*                                                                         *)
(* The server answers a connection's requests in order, each in two units, *)
(* "head" (status line and headers) and "body", and may close any time.    *)
(***************************************************************************)
EXTENDS CoMutex

CONSTANTS
  Reqs,        \* requests, each made at most once
  Method,      \* their method, "GET" or "POST" (any with a body is not a GET)
  Origins,     \* what their schemes and hosts may be: functions of the requests
  BadOrigin,   \* an origin with a scheme http_t does not know
  MaxSockets,  \* bound: successful connections
  MayCancel,   \* requests the caller may cancel
  CancelScheduled,  \* whether also between unlock() scheduling one and its resumption
  MayClose     \* whether the server may close a connection early

None == "none"
Errors == {"e_bad_url", "e_connect", "e_broken", "e_not_http"}

ASSUME HttpAssumption ==
  /\ Method \in [Reqs -> {"GET", "POST"}]
  /\ \A o \in Origins : DOMAIN o = Reqs
  /\ MaxSockets \in Nat
  /\ MayCancel \subseteq Reqs
  /\ CancelScheduled \in BOOLEAN
  /\ MayClose \in BOOLEAN
  /\ Reqs \cap (Errors \cup {None}) = {}

VARIABLES
  Origin,        \* their scheme and host
  pc,            \* where each request is
  can_retry,     \* the local of that name
  held,          \* the mutexes (1, 2) whose locks l1, l2 the request has
  last_gen,      \* last_sock_generation
  recv_expect,   \* sock_recv_expect
  from,          \* the request whose status line it read
  result,        \* its answer: a request (whose response it is) or an error
  sends,         \* how often it was sent
  mut,           \* mut1 and mut2
  scheduled,     \* the run loop's fifo
  stack,         \* the coroutines that run, innermost first
  pending,       \* the requests made and not answered, in the order of their turns
  sock,          \* whether the client has a socket
  sock_generation, sock_sent, sock_received, sock_origin,
  keepalive,     \* sock_keepalive_until > now
  server_open,   \* the server's end of the current connection
  wire,          \* units the server has yet to send on it
  inbox          \* units that arrived and were not read

locals == <<can_retry, last_gen, recv_expect, from, sends>>
answers == <<result, pending>>
locks == <<held, mut, scheduled>>
socket == <<sock, sock_generation, sock_sent, sock_received, sock_origin, keepalive>>
network == <<server_open, wire, inbox>>

vars == <<Origin, pc, locals, answers, locks, stack, socket, network>>

Init ==
  /\ Origin \in Origins
  /\ pc = [r \in Reqs |-> "idle"]
  /\ can_retry = [r \in Reqs |-> TRUE]
  /\ held = [r \in Reqs |-> {}]
  /\ last_gen = [r \in Reqs |-> 0]
  /\ recv_expect = [r \in Reqs |-> 0]
  /\ from = [r \in Reqs |-> None]
  /\ result = [r \in Reqs |-> None]
  /\ sends = [r \in Reqs |-> 0]
  /\ mut = <<Unlocked, Unlocked>>
  /\ scheduled = <<>> /\ stack = <<>> /\ pending = <<>>
  /\ sock = FALSE /\ keepalive = FALSE /\ sock_origin = None
  /\ sock_generation = 0 /\ sock_sent = 0 /\ sock_received = 0
  /\ server_open = FALSE /\ wire = <<>> /\ inbox = <<>>

-----------------------------------------------------------------------------
(* Control.                                                                *)

Dispatching == stack = <<>>
Running(r) == stack # <<>> /\ Head(stack) = r

\* Code of the callers runs: an event handler, or what follows a co_await of a
\* request that returned.
CallerRuns == stack # <<>> => pc[Head(stack)] = "return"

Goto(r, label) == pc' = [pc EXCEPT ![r] = label]
Resumes(r) == stack' = <<r>> \o stack
Suspends == stack' = Tail(stack)

\* The locks ms of r are destroyed, l2 before l1.
ReleaseLocks(r, ms) ==
  /\ held' = [held EXCEPT ![r] = @ \ ms]
  /\ mut' = [m \in {1, 2} |-> IF m \in ms THEN Unlock(mut[m]) ELSE mut[m]]
  /\ scheduled' = scheduled \o (IF 2 \in ms THEN Woken(mut[2]) ELSE <<>>)
                            \o (IF 1 \in ms THEN Woken(mut[1]) ELSE <<>>)

\* return_value(): the answer is the caller's; r's locals still exist.
Deliver(r, a) ==
  /\ result' = [result EXCEPT ![r] = a]
  /\ pending' = Unlink(pending, r)
  /\ Goto(r, "return")

\* co_return set_error(r, e)
Fail(r, e) ==
  /\ Deliver(r, e)
  /\ sock' = FALSE
  /\ UNCHANGED <<locals, locks, sock_generation, sock_sent,
                 sock_received, sock_origin, keepalive, network>>

-----------------------------------------------------------------------------
(* co_await mut1, co_await mut2.                                           *)

MutexOf(r) == IF pc[r] \in {"want1", "wait1"} THEN 1 ELSE 2
Got == [want1 |-> "have1", want2 |-> "have2", want2x |-> "have2x",
        wait1 |-> "have1", wait2 |-> "have2", wait2x |-> "have2x"]
Blocked == [want1 |-> "wait1", want2 |-> "wait2", want2x |-> "wait2x"]

\* A request whose send failed is still in send(), which runs another one's caller,
\* and nobody has mut1: a request made now comes to mut2 before it.
Overtaken(s) == pc[s] = "sending" /\ CanTake(mut[1])

\* The requests that wait for their turns with r, which was just made, among them.
InTurn(r) ==
  IF pending # <<>> /\ Overtaken(Last(pending))
    THEN Front(pending) \o <<r, Last(pending)>>
    ELSE Append(pending, r)

Call(r) ==
  /\ CallerRuns
  /\ pc[r] = "idle"
  /\ Goto(r, "want1")
  /\ Resumes(r)
  /\ pending' = InTurn(r)
  /\ UNCHANGED <<Origin, locals, result, locks, socket, network>>

GetsLock(r) ==
  LET m == MutexOf(r) IN
  /\ mut' = [mut EXCEPT ![m] = Take(@, r)]
  /\ held' = [held EXCEPT ![r] = @ \cup {m}]
  /\ Goto(r, Got[pc[r]])

LockFree(r) ==
  /\ Running(r)
  /\ pc[r] \in DOMAIN Blocked
  /\ CanTake(mut[MutexOf(r)])
  /\ GetsLock(r)
  /\ UNCHANGED <<locals, answers, scheduled, stack, socket, network>>

LockBusy(r) ==
  /\ Running(r)
  /\ pc[r] \in DOMAIN Blocked
  /\ ~CanTake(mut[MutexOf(r)])
  /\ mut' = [mut EXCEPT ![MutexOf(r)] = Enqueue(@, r)]
  /\ Goto(r, Blocked[pc[r]])
  /\ Suspends
  /\ UNCHANGED <<locals, answers, held, scheduled, socket, network>>

LockHandedOver(r) ==
  /\ Dispatching
  /\ scheduled # <<>> /\ Head(scheduled) = r
  /\ pc[r] \in {"wait1", "wait2", "wait2x"}
  /\ GetsLock(r)
  /\ scheduled' = Tail(scheduled)
  /\ Resumes(r)
  /\ UNCHANGED <<locals, answers, socket, network>>

-----------------------------------------------------------------------------
(* Sending.                                                                *)

\* Mutant of CanKeepalive: a socket to anywhere.
CanKeepaliveAnywhere(r) == sock /\ keepalive

CanKeepalive(r) == sock /\ keepalive /\ sock_origin = Origin[r]

\* can_retry = false: a request that was given a socket of its own is not sent again.
NoRetry(r) == [can_retry EXCEPT ![r] = FALSE]

\* Mutant of CanPipeline: anything is pipelined.
CanPipelineAny(r) == CanKeepalive(r)

CanPipeline(r) == Method[r] = "GET" /\ CanKeepalive(r)

\* send_request(r) as number n of connection g, on a server end that is open or
\* not.  A send to a closed end may or may not notice it and drop the socket.
Transmit(r, g, n, open, queued) ==
  /\ sends' = [sends EXCEPT ![r] = @ + 1]
  /\ last_gen' = [last_gen EXCEPT ![r] = g]
  /\ recv_expect' = [recv_expect EXCEPT ![r] = n]
  /\ sock_sent' = n + 1
  /\ wire' = IF open THEN queued \o <<<<r, "head">>, <<r, "body">>>> ELSE queued
  /\ sock' \in IF open THEN {TRUE} ELSE BOOLEAN

InRead(r) == pc[r] \in {"status", "body"}

\* A pipelined request leaves mut1, is sent, and wants mut2.  When the send fails,
\* socket_failed() completes the read another request waits for: that one's code, and
\* its caller's, runs to its next suspension inside the send.  (Nothing is sent and no
\* socket is made there, so that it does not matter that the counters are set first.)
Pipeline(r) ==
  /\ Running(r)
  /\ pc[r] = "have1"
  /\ CanPipeline(r)
  /\ ReleaseLocks(r, {1})
  /\ Transmit(r, sock_generation, sock_sent, server_open, wire)
  /\ \/ /\ sock' \/ ~\E q \in Reqs : InRead(q)
        /\ Goto(r, "want2")
        /\ UNCHANGED stack
     \/ /\ ~sock'
        /\ \E q \in Reqs : InRead(q) /\ Resumes(q)
        /\ Goto(r, "sending")
  /\ UNCHANGED <<can_retry, from, answers, sock_generation, sock_received,
                 sock_origin, keepalive, server_open, inbox>>

\* The send that failed returns, when all it resumed has suspended.
SendReturns(r) ==
  /\ Running(r)
  /\ pc[r] = "sending"
  /\ Goto(r, "want2")
  /\ UNCHANGED <<locals, answers, locks, stack, socket, network>>

\* Any other request waits until it is alone on the socket.
Exclusive(r) ==
  /\ Running(r)
  /\ pc[r] = "have1"
  /\ ~CanPipeline(r)
  /\ Goto(r, "want2x")
  /\ UNCHANGED <<locals, answers, locks, stack, socket, network>>

\* The socket is good enough for a request that is alone on it.
ReuseSocket(r) ==
  /\ Running(r)
  /\ pc[r] = "have2x"
  /\ CanKeepalive(r)
  /\ can_retry' = NoRetry(r)
  /\ ReleaseLocks(r, {1})
  /\ Transmit(r, sock_generation, sock_sent, server_open, wire)
  /\ Goto(r, "status")
  /\ Suspends
  /\ UNCHANGED <<from, answers, sock_generation, sock_received, sock_origin,
                 keepalive, server_open, inbox>>

\* The receive counter is not compared.
MayReadUnchecked(r) == sock /\ last_gen[r] = sock_generation

\* The check after co_await mut2: is this the socket the request was sent on,
\* and is its response the next one on it?
MayRead(r) ==
  /\ sock
  /\ last_gen[r] = sock_generation
  /\ recv_expect[r] = sock_received

ReadTurn(r) ==
  /\ Running(r)
  /\ pc[r] = "have2"
  /\ MayRead(r)
  /\ Goto(r, "status")
  /\ Suspends
  /\ UNCHANGED <<locals, answers, locks, socket, network>>

\* The ways to recreate_sock: no usable socket, a socket that was replaced or has
\* somebody else's response next, or one that broke before the status line.
NeedSocket(r) ==
  /\ \/ Running(r) /\ pc[r] = "have2x" /\ ~CanKeepalive(r)
     \/ Running(r) /\ pc[r] = "have2" /\ ~MayRead(r)
  /\ Goto(r, "recreate")
  /\ UNCHANGED <<locals, answers, locks, stack, socket, network>>

\* recreate_sock: once, and only for a scheme there are sockets for.
GiveUp(r) ==
  /\ Running(r)
  /\ pc[r] = "recreate"
  /\ ~can_retry[r] \/ Origin[r] = BadOrigin
  /\ Fail(r, IF can_retry[r] THEN "e_bad_url" ELSE "e_broken")
  /\ UNCHANGED stack

Connect(r) ==
  /\ Running(r)
  /\ pc[r] = "recreate"
  /\ can_retry[r] /\ Origin[r] # BadOrigin
  /\ Goto(r, "mksock")
  /\ Suspends
  /\ UNCHANGED <<locals, answers, locks, socket, network>>

ConnectFails(r) ==
  /\ Dispatching
  /\ pc[r] = "mksock"
  /\ Fail(r, "e_connect")
  /\ Resumes(r)

\* The new socket replaces the old one, with all that was on its way.
NewSocket(r) ==
  /\ sock_generation' = sock_generation + 1
  /\ sock_received' = 0
  /\ sock_origin' = Origin[r]
  /\ keepalive' = TRUE
  /\ server_open' = TRUE
  /\ inbox' = <<>>

\* ... and the request is sent on it, as its first.
Connected(r) ==
  /\ Dispatching
  /\ pc[r] = "mksock"
  /\ sock_generation < MaxSockets
  /\ can_retry' = NoRetry(r)
  /\ ReleaseLocks(r, held[r] \ {2})
  /\ Transmit(r, sock_generation + 1, 0, TRUE, <<>>)
  /\ NewSocket(r)
  /\ Goto(r, "status")
  /\ UNCHANGED <<from, answers, stack>>

-----------------------------------------------------------------------------
(* Reading.                                                                *)

SocketDead == ~sock \/ (~server_open /\ inbox = <<>>)

\* r's read ends without a result: the run loop finds the socket dead, or another
\* request's send did and runs r.
ReadFails(r) ==
  /\ SocketDead
  /\ \/ Dispatching /\ Resumes(r)
     \/ Running(r) /\ UNCHANGED stack

\* The status line and headers of somebody's response.
ReadHead(r) ==
  /\ Dispatching
  /\ pc[r] = "status"
  /\ sock /\ inbox # <<>> /\ Head(inbox)[2] = "head"
  /\ from' = [from EXCEPT ![r] = Head(inbox)[1]]
  /\ inbox' = Tail(inbox)
  /\ Goto(r, "body")
  /\ UNCHANGED <<can_retry, last_gen, recv_expect, sends, answers, locks, stack,
                 socket, server_open, wire>>

ReadBody(r) ==
  /\ Dispatching
  /\ pc[r] = "body"
  /\ sock /\ inbox # <<>>
  /\ inbox' = Tail(inbox)
  /\ Deliver(r, from[r])
  /\ sock_received' = sock_received + 1
  /\ keepalive' = TRUE
  /\ Resumes(r)
  /\ UNCHANGED <<locals, locks, sock, sock_generation, sock_sent, sock_origin,
                 server_open, wire>>

\* What arrived is no status line (the rest of a response nobody waits for), or no
\* acceptable response: not HTTP, or too big.
Reject(r) ==
  /\ Dispatching
  /\ pc[r] \in {"status", "body"}
  /\ sock /\ inbox # <<>>
  /\ Fail(r, "e_not_http")
  /\ Resumes(r)

\* No status line: the socket broke.
LostBeforeStatus(r) ==
  /\ pc[r] = "status"
  /\ ReadFails(r)
  /\ sock' = FALSE
  /\ Goto(r, "recreate")
  /\ UNCHANGED <<locals, answers, locks, sock_generation, sock_sent,
                 sock_received, sock_origin, keepalive, network>>

\* The socket broke in the headers or a chunk.
LostInHeaders(r) ==
  /\ pc[r] = "body"
  /\ ReadFails(r)
  /\ Fail(r, "e_broken")

\* The socket broke in a body with a Content-Length: sock.bytes() returns nothing,
\* which is not checked: the response is handed over as if it were complete.
LostInBody(r) ==
  /\ pc[r] = "body"
  /\ ReadFails(r)
  /\ Deliver(r, from[r])
  /\ sock' = FALSE
  /\ sock_received' = sock_received + 1
  /\ keepalive' = TRUE
  /\ UNCHANGED <<locals, locks, sock_generation, sock_sent, sock_origin, network>>

-----------------------------------------------------------------------------
(* The end of a request.                                                   *)

\* The caller's code suspended; the request's locals are destroyed.
Return(r) ==
  /\ Running(r)
  /\ pc[r] = "return"
  /\ ReleaseLocks(r, held[r])
  /\ Goto(r, "done")
  /\ Suspends
  /\ UNCHANGED <<locals, answers, socket, network>>

Suspended == {"wait1", "wait2", "wait2x", "mksock", "status", "body"}

\* The caller cancels a suspended request: its locks, or its places in the queues
\* for them, are destroyed; what it sent stays sent.  Of one that unlock() has given
\* a mutex the handle stays in the fifo, and the mutex stays locked: what resuming
\* the destroyed coroutine does is undefined and left out.
Cancel(r) ==
  /\ CallerRuns
  /\ r \in MayCancel
  /\ pc[r] \in Suspended
  /\ CancelScheduled \/ ~Contains(scheduled, r)
  /\ pending' = Unlink(pending, r)
  /\ held' = [held EXCEPT ![r] = {}]
  /\ mut' = [m \in {1, 2} |-> Forget(IF m \in held[r] THEN Unlock(mut[m]) ELSE mut[m], r)]
  /\ scheduled' = scheduled \o (IF 2 \in held[r] THEN Woken(mut[2]) ELSE <<>>)
                            \o (IF 1 \in held[r] THEN Woken(mut[1]) ELSE <<>>)
  /\ Goto(r, "gone")
  /\ UNCHANGED <<Origin, locals, result, stack, socket, network>>

-----------------------------------------------------------------------------
(* The clock and the server.                                               *)

\* Two seconds without a completed request.
KeepaliveExpires ==
  /\ Dispatching
  /\ keepalive
  /\ keepalive' = FALSE
  /\ UNCHANGED <<Origin, pc, locals, answers, locks, stack, sock, sock_generation, sock_sent,
                 sock_received, sock_origin, network>>

ServerSends ==
  /\ Dispatching
  /\ server_open /\ wire # <<>>
  /\ inbox' = Append(inbox, Head(wire))
  /\ wire' = Tail(wire)
  /\ UNCHANGED <<Origin, pc, locals, answers, locks, stack, socket, server_open>>

ServerCloses ==
  /\ Dispatching
  /\ MayClose
  /\ server_open
  /\ server_open' = FALSE
  /\ wire' = <<>>
  /\ UNCHANGED <<Origin, pc, locals, answers, locks, stack, socket, inbox>>

-----------------------------------------------------------------------------
\* The steps a run loop pass or the running coroutine makes for r.
Step(r) ==
  /\ UNCHANGED Origin
  /\ \/ LockFree(r) \/ LockBusy(r) \/ LockHandedOver(r)
     \/ Pipeline(r) \/ SendReturns(r) \/ Exclusive(r) \/ ReuseSocket(r) \/ ReadTurn(r)
     \/ NeedSocket(r) \/ GiveUp(r) \/ Connect(r) \/ Connected(r) \/ ConnectFails(r)
     \/ ReadHead(r) \/ ReadBody(r) \/ Reject(r)
     \/ LostBeforeStatus(r) \/ LostInHeaders(r) \/ LostInBody(r)
     \/ Return(r)

Next ==
  \/ \E r \in Reqs : Call(r) \/ Step(r) \/ Cancel(r)
  \/ KeepaliveExpires \/ ServerSends \/ ServerCloses

\* Every pass of the run loop dispatches all that is ready, so no step of a
\* request is put off forever; and the server answers what it received.
Fairness ==
  /\ \A r \in Reqs : WF_vars(Step(r))
  /\ WF_vars(ServerSends)

Safe == Init /\ [][Next]_vars

Spec == Safe /\ Fairness

-----------------------------------------------------------------------------
Labels == {"idle", "want1", "wait1", "have1", "sending", "want2", "wait2", "have2",
           "want2x", "wait2x", "have2x", "recreate", "mksock", "status", "body", "return",
           "done", "gone"}

TypeOK ==
  /\ pc \in [Reqs -> Labels]
  /\ can_retry \in [Reqs -> BOOLEAN]
  /\ held \in [Reqs -> SUBSET {1, 2}]
  /\ last_gen \in [Reqs -> Nat] /\ recv_expect \in [Reqs -> Nat]
  /\ from \in [Reqs -> Reqs \cup {None}]
  /\ result \in [Reqs -> Reqs \cup Errors \cup {None}]
  /\ sends \in [Reqs -> Nat]
  /\ mut \in [{1, 2} -> [locked : BOOLEAN, waiters : Seq(Reqs)]]
  /\ scheduled \in Seq(Reqs) /\ stack \in Seq(Reqs) /\ pending \in Seq(Reqs)
  /\ sock \in BOOLEAN /\ keepalive \in BOOLEAN /\ server_open \in BOOLEAN
  /\ sock_generation \in 0 .. MaxSockets
  /\ sock_sent \in Nat /\ sock_received \in 0 .. sock_sent
  /\ Origin \in Origins
  /\ sock_origin \in {Origin[r] : r \in Reqs} \cup {None}
  /\ wire \in Seq(Reqs \X {"head", "body"}) /\ inbox \in Seq(Reqs \X {"head", "body"})

\* The socketbuf has at most one user that reads or replaces it (a second reader is
\* fatal in socketbuf::get_async), and it is never touched without mut2.
OneReader ==
  /\ \A r \in Reqs : pc[r] \in {"recreate", "mksock", "status", "body"} => 2 \in held[r]
  /\ \A r, q \in Reqs : held[r] \cap held[q] # {} => r = q

\* A caller never gets the response to somebody else's request: the generation and
\* the receive counter are there to notice what was pipelined, then cancelled.
ResponseIsOwn ==
  \A r \in Reqs : result[r] \in Reqs => result[r] = r

\* The part of it that the check after co_await mut2 is responsible for: a request
\* that was pipelined, and not sent again (can_retry still holds), gets its own
\* response, whatever was cancelled before it on whichever connection.
PipelinedResponseIsOwn ==
  \A r \in Reqs : result[r] \in Reqs /\ can_retry[r] => result[r] = r

\* Retrying a request behind the caller's back is for GETs on a socket that was
\* already in use; anything else is sent at most once.
SentOnce ==
  \A r \in Reqs : sends[r] <= IF Method[r] = "GET" THEN 2 ELSE 1

\* "e_connect ... the request is guaranteed safe to retry": what is not a GET has
\* not been sent when its caller is told so.
ConnectErrorIsSafe ==
  \A r \in Reqs : result[r] = "e_connect" /\ Method[r] # "GET" => sends[r] = 0

\* The client never repeats what a server may have acted on, nor lets a caller do so.
RetryIsSafe == SentOnce /\ ConnectErrorIsSafe

\* What is sent on a connection, kept alive or new, is for the origin it leads to:
\* another request may have replaced the socket between the check and the send.
RightOrigin ==
  \A i \in DOMAIN wire : Origin[wire[i][1]] = sock_origin

\* When the last request has ended, by answer, error or cancellation, nobody is
\* left in a queue and both mutexes are free for the next one.
NoLockLeaked ==
  (\A r \in Reqs : pc[r] \in {"idle", "done", "gone"}) =>
    mut = <<Unlocked, Unlocked>> /\ scheduled = <<>> /\ stack = <<>>

\* The two mutexes guard the socket, from every error return and cancellation.
LocksAreSound == TypeOK /\ OneReader /\ NoLockLeaked

\* Every request is answered, unless it is cancelled.
EventuallyAnswered ==
  \A r \in Reqs : pc[r] = "want1" ~> pc[r] \in {"done", "gone"}

\* The client implements the service: one answer each, in order of the calls (the
\* order "http 4" and "http 5" assert) except that one made inside a failing send comes
\* before the request that is sent; its own response or an error, and that of another
\* request only if a request was cancelled.
Service == INSTANCE HttpService
  WITH cancelled <- {r \in Reqs : pc[r] = "gone"}, MayBreak <- MayClose

ImplementsService == Service!Spec
=============================================================================
