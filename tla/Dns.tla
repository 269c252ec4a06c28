-------------------------------- MODULE Dns --------------------------------
(***************************************************************************)
(* dns_t of arlib/dns.cpp: the lookups that wait for an answer, the UDP    *)
(* socket and the two waiters they share, retries and timeouts.            *)
(*                                                                         *)
(* Completing a lookup resumes its caller at once, in the middle of        *)
(* complete_recv() or of the loop in timeout(); the caller may cancel      *)
(* other lookups and start new ones, which run timeout() again.  `stack'   *)
(* holds the calls that are in progress, the innermost first; with an      *)
(* empty stack the program is in the run loop.                             *)
(*                                                                         *)
(* Times count down to the event they belong to, in units of which         *)
(* Patience make the 2000 ms of the code.                                  *)
(***************************************************************************)
EXTENDS Integers, Sequences, FiniteSets, FiniteSetsExt, SequencesExt

CONSTANTS
  Lookups,          \* what the callers look up, one name each
  Trids,            \* transaction ids; 16 bits in the code
  Tries,            \* the `tries' argument of await_lookup, 2 by default
  InitialSize,      \* slots of the array when it is first used; 8 in the code
  Patience,         \* the 2000 ms a query is waited for
  MaxReplies,       \* bound: replies the network holds
  AgainInTimeout,   \* whether a caller that timeout() fails may look up at once
  None

ASSUME DnsAssumption ==
  /\ Tries \in Nat \ {0} /\ InitialSize \in Nat \ {0} /\ Patience \in Nat \ {0}
  /\ AgainInTimeout \in BOOLEAN /\ None \notin Nat \union Lookups
  /\ Cardinality(Trids) > Cardinality(Lookups)

VARIABLES
  waiting,   \* dns_t::waiting: the slots
  free,      \* its freelist, the slot alloc() takes first
  sock,      \* whether dns_t::sock is open
  recv_w,    \* whether recv_w waits for the socket
  time_w,    \* time until time_w's timeout, or None
  stack,     \* calls in progress
  replies,   \* replies that may still arrive on the socket
  state,     \* what each caller knows: "idle", "busy", an answer
  age,       \* how long each busy caller has been waiting
  fault      \* the undefined behaviour the program ran into, or None

vars == <<waiting, free, sock, recv_w, time_w, stack, replies, state, age, fault>>
slots == <<waiting, free>>
waits == <<sock, recv_w, time_w>>
callers == <<state, age>>

Answers == {"found", "failed"}

\* A slot nobody uses.  Its contents are stale; none of it is read.
Blank == [waiter |-> None, name |-> None, trid |-> None, expiry |-> 0, retries |-> 0]

Init ==
  /\ waiting = <<>> /\ free = <<>>
  /\ sock = FALSE /\ recv_w = FALSE /\ time_w = None
  /\ stack = <<>> /\ replies = {}
  /\ state = [l \in Lookups |-> "idle"] /\ age = [l \in Lookups |-> 0]
  /\ fault = None

-----------------------------------------------------------------------------
(* The array of slots.                                                     *)

\* reallocate(): the new slots are on the freelist in order.
Grown ==
  LET old == Len(waiting)
      new == IF old = 0 THEN InitialSize ELSE 2 * old
  IN  IF free # <<>> THEN [slots |-> waiting, free |-> free]
      ELSE [slots |-> waiting \o [i \in 1 .. new - old |-> Blank],
            free |-> [i \in 1 .. new - old |-> old + i]]

Dealloc(i) ==
  /\ waiting' = [waiting EXCEPT ![i] = Blank]
  /\ free' = <<i>> \o free

\* A slot is found by its id only while its producer has a waiter.
NodesFor(trid) ==
  {i \in DOMAIN waiting : waiting[i].waiter # None /\ waiting[i].trid = trid}

\* pick_trid() rolls until no waiting lookup has the id.
FreeTrids == {t \in Trids : NodesFor(t) = {}}

-----------------------------------------------------------------------------
(* Who runs.                                                               *)

Top == stack[1]
InRunloop == stack = <<>> /\ fault = None
In(call) == stack # <<>> /\ fault = None /\ Top.call = call

\* A loop over the slots that began for the slot `special', which has no waiter yet, when
\* the array had `size' slots: the pointer to it dangles if the array has grown since.
TimeoutCall(special, lookup, size) ==
  [call |-> "timeout", special |-> special, lookup |-> lookup, size |-> size,
   next |-> None, at |-> 1]
CallerCall(l, during) == [call |-> "caller", lookup |-> l, during |-> during]
RecvCall == [call |-> "recv"]

\* A caller that runs because its lookup completed, or anything else the run loop runs.
CallersRun == InRunloop \/ In("caller")
MayLookUp == InRunloop \/ (In("caller") /\ (Top.during = "recv" \/ AgainInTimeout))

-----------------------------------------------------------------------------
(* await_lookup                                                            *)

\* An address, a name in the hosts file, a name that cannot be encoded, or no resolver:
\* the slot is returned at once, but the array may have grown for it.
LookupSync(l) ==
  /\ MayLookUp
  /\ state[l] # "busy"
  /\ \E answer \in Answers : state' = [state EXCEPT ![l] = answer]
  /\ waiting' = Grown.slots /\ free' = Grown.free
  /\ UNCHANGED <<waits, stack, replies, age, fault>>

\* The query may reach a server that replies.
Send(name, trid) ==
  replies' \in {replies, replies \union {[name |-> name, trid |-> trid]}}
Fits == Cardinality(replies') <= MaxReplies

Lookup(l) ==
  /\ MayLookUp
  /\ state[l] # "busy"
  /\ state' = [state EXCEPT ![l] = "busy"]
  /\ age' = [age EXCEPT ![l] = 0]
  /\ \E trid \in FreeTrids :
       LET i == Grown.free[1]
           n == [waiter |-> None, name |-> l, trid |-> trid, expiry |-> Patience,
                 retries |-> Tries - 1]
       IN  /\ waiting' = [Grown.slots EXCEPT ![i] = n]
           /\ free' = Tail(Grown.free)
           /\ stack' = <<TimeoutCall(i, l, Len(waiting'))>> \o stack
           /\ Send(l, trid) /\ Fits
  /\ sock' = TRUE
  /\ recv_w' = (recv_w \/ ~sock)
  /\ UNCHANGED <<time_w, fault>>

-----------------------------------------------------------------------------
(* timeout                                                                 *)

Later(a, b) == IF a = None \/ b > a THEN b ELSE a

Sooner(a, b) == IF a = None \/ b < a THEN b ELSE a

\* What a retry changes in the slot.
RetriedForever(n) == [n EXCEPT !.expiry = Patience]

Retried(n) == [n EXCEPT !.retries = @ - 1, !.expiry = Patience]

LoopsOverWaiters(i) == waiting[i].waiter # None

\* The slots the loop does not skip.
LoopsOver(i) ==
  \/ waiting[i].waiter # None
  \/ Top.special = i /\ Top.size = Len(waiting)
Visited == {i \in DOMAIN waiting : i >= Top.at /\ LoopsOver(i)}
Visit == Min(Visited)

Looped(next) == <<[Top EXCEPT !.next = next, !.at = Visit + 1]>> \o Tail(stack)

TimeoutLater ==
  /\ In("timeout") /\ Visited # {}
  /\ waiting[Visit].expiry > 0
  /\ stack' = Looped(Sooner(Top.next, waiting[Visit].expiry))
  /\ UNCHANGED <<slots, waits, replies, callers, fault>>

TimeoutRetry ==
  LET n == waiting[Visit] IN
  /\ In("timeout") /\ Visited # {}
  /\ n.expiry = 0 /\ n.retries > 0
  /\ waiting' = [waiting EXCEPT ![Visit] = Retried(n)]
  /\ IF sock THEN Send(n.name, n.trid) /\ Fits /\ UNCHANGED fault
     ELSE UNCHANGED replies /\ fault' = "null_sock"
  /\ stack' = Looped(Sooner(Top.next, Patience))
  /\ UNCHANGED <<free, waits, callers>>

TimeoutFail ==
  LET n == waiting[Visit] IN
  /\ In("timeout") /\ Visited # {}
  /\ n.expiry = 0 /\ n.retries = 0
  /\ Dealloc(Visit)
  /\ state' = [state EXCEPT ![n.waiter] = "failed"]
  /\ stack' = <<CallerCall(n.waiter, "timeout")>> \o Looped(Top.next)
  /\ UNCHANGED <<waits, replies, age, fault>>

\* After the loop: nothing waits, so the socket is closed, or the timer is started unless
\* it runs.  await_lookup() then returns the producer, which its caller waits for.
TimeoutReturn ==
  /\ In("timeout") /\ Visited = {}
  /\ IF Top.next = None
     THEN sock' = FALSE /\ recv_w' = FALSE /\ replies' = {} /\ UNCHANGED time_w
     ELSE /\ time_w' = (IF time_w = None THEN Top.next ELSE time_w)
          /\ UNCHANGED <<sock, recv_w, replies>>
  /\ IF Top.special = None THEN UNCHANGED <<waiting, fault>>
     ELSE IF Top.size # Len(waiting) THEN UNCHANGED waiting /\ fault' = "dangling"
     ELSE waiting' = [waiting EXCEPT ![Top.special].waiter = Top.lookup] /\ UNCHANGED fault
  /\ stack' = Tail(stack)
  /\ UNCHANGED <<free, callers>>

\* complete_timeout
TimerFires ==
  /\ InRunloop
  /\ time_w = 0
  /\ time_w' = None
  /\ stack' = <<TimeoutCall(None, None, Len(waiting))>>
  /\ UNCHANGED <<slots, sock, recv_w, replies, callers, fault>>

-----------------------------------------------------------------------------
(* complete_recv                                                           *)

\* A reply to another name is no answer, and one that nobody waits for is dropped.  The
\* network may deliver the reply again.
Received(m) ==
  LET nodes == NodesFor(m.trid) IN
  IF nodes = {} THEN UNCHANGED <<slots, recv_w, stack, state>>
  ELSE LET i == Min(nodes)
           l == waiting[i].waiter
       IN  /\ Dealloc(i)
           /\ recv_w' = FALSE
           /\ stack' = <<CallerCall(l, "recv"), RecvCall>>
           /\ \E answer \in IF m.name = waiting[i].name THEN Answers ELSE {"failed"} :
                state' = [state EXCEPT ![l] = answer]

Recv ==
  /\ InRunloop
  /\ sock /\ recv_w
  /\ \E m \in replies : /\ Received(m)
                        /\ replies' \in {replies, replies \ {m}}
  /\ UNCHANGED <<sock, time_w, age, fault>>

\* Wait for the next packet, once the caller has returned.
RecvReturn ==
  /\ In("recv")
  /\ IF sock THEN recv_w' = TRUE /\ UNCHANGED fault
     ELSE UNCHANGED recv_w /\ fault' = "null_sock"
  /\ stack' = <<>>
  /\ UNCHANGED <<slots, sock, time_w, replies, callers>>

-----------------------------------------------------------------------------
(* The callers and their surroundings.                                     *)

CallerReturn ==
  /\ In("caller")
  /\ stack' = Tail(stack)
  /\ UNCHANGED <<slots, waits, replies, callers, fault>>

\* A caller destroys its waiter, and with it the lookup.
Cancel(l) ==
  /\ CallersRun
  /\ \E i \in DOMAIN waiting : waiting[i].waiter = l /\ Dealloc(i)
  /\ state' = [state EXCEPT ![l] = "idle"]
  /\ UNCHANGED <<waits, stack, replies, age, fault>>

\* The run loop dispatches a timer that is due before it waits for anything else.
Tick ==
  /\ InRunloop
  /\ time_w # 0
  /\ time_w' = (IF time_w = None THEN None ELSE time_w - 1)
  /\ waiting' = [i \in DOMAIN waiting |->
                   [waiting[i] EXCEPT !.expiry = IF @ > 0 THEN @ - 1 ELSE 0]]
  /\ age' = [l \in Lookups |-> IF state[l] # "busy" THEN 0
                               ELSE Min({age[l] + 1, Tries * Patience + 1})]
  /\ UNCHANGED <<free, sock, recv_w, stack, replies, state, fault>>

Next ==
  \/ \E l \in Lookups : LookupSync(l) \/ Lookup(l) \/ Cancel(l)
  \/ TimeoutLater \/ TimeoutRetry \/ TimeoutFail \/ TimeoutReturn
  \/ TimerFires \/ Recv \/ RecvReturn \/ CallerReturn \/ Tick

Spec == Init /\ [][Next]_vars

-----------------------------------------------------------------------------

Slots == [waiter : Lookups \union {None}, name : Lookups \union {None},
          trid : Trids \union {None}, expiry : 0 .. Patience, retries : 0 .. Tries - 1]

\* The type invariant: in particular the freelist names each slot that exists at most once.
TypeOK ==
  /\ waiting \in Seq(Slots)
  /\ \A i \in DOMAIN free : free[i] \in DOMAIN waiting
  /\ IsInjective(free)
  /\ sock \in BOOLEAN /\ recv_w \in BOOLEAN /\ time_w \in {None} \union 0 .. Patience
  /\ state \in [Lookups -> {"idle", "busy"} \union Answers]
  /\ fault \in {None, "null_sock", "dangling"}

\* Whatever callers do while a lookup completes, the resolver never uses a socket it has
\* closed and never returns a producer in an array that was reallocated (dns.cpp:287, 307
\* and 326).
NoFault == fault = None

\* While a lookup waits for its answer, the socket is open and watched, and the timer runs
\* and is due no later than the lookup is (dns.cpp:338-344).
WaitingIsWatched ==
  InRunloop =>
    \A i \in DOMAIN waiting :
      waiting[i].waiter # None => /\ sock /\ recv_w
                                  /\ time_w # None /\ time_w <= waiting[i].expiry

\* Every slot is either on the freelist or waited for: completing, failing and cancelling
\* lookups from inside each other neither leaks a slot nor frees one in use.
NoSlotLost ==
  InRunloop =>
    \A i \in DOMAIN waiting : (waiting[i].waiter = None) <=> (\E k \in DOMAIN free : free[k] = i)

\* The slots, their freelist, the socket and the timer agree whenever the run loop runs, and
\* nothing that was closed or freed is used.
SlotsAreSound == TypeOK /\ NoFault /\ WaitingIsWatched /\ NoSlotLost

\* A lookup ends within `tries' times 2000 ms of its start, and one that is not ended has
\* a slot that will end it.
EndsInTime ==
  InRunloop =>
    \A l \in Lookups : state[l] = "busy" =>
      /\ age[l] <= Tries * Patience
      /\ \E i \in DOMAIN waiting : waiting[i].waiter = l
=============================================================================
