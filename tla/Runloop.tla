------------------------------ MODULE Runloop ------------------------------
(***************************************************************************)
(* runloop2_poll of arlib/runloop-poll.cpp as the GTK program builds it:   *)
(* the two arrays of waiters with their freelists, the scheduled fifo, and *)
(* step(), which polls once and dispatches GTK's events, the file          *)
(* descriptors, the timeouts and the scheduled coroutines, in that order.  *)
(*                                                                         *)
(* The code that a dispatched waiter runs may wait for other things,       *)
(* cancel any waiter and schedule coroutines before it returns; `running'  *)
(* says who runs, and step() goes on when nobody does.  Times count down   *)
(* to their timeout; dispatching takes no time.                            *)
(***************************************************************************)
EXTENDS Integers, Sequences, FiniteSets, FiniteSetsExt, SequencesExt

CONSTANTS
  Waiters,        \* waiters and coroutines of the program
  TimeoutSlots,   \* size of the timeout array when it is first used; 8 in the code
  MaxDelay,       \* bound: the longest timeout
  MaxChain,       \* bound: coroutines scheduled between two polls
  Main,           \* the code that runs before the run loop, and GTK's callbacks
  None

ASSUME RunloopAssumption ==
  /\ TimeoutSlots \in Nat \ {0} /\ MaxDelay \in Nat /\ MaxChain \in Nat
  /\ Main # None /\ {Main, None} \cap Waiters = {}
  /\ None \notin {"no_waiter", "dangling"}

VARIABLES
  fds,         \* fds.waiting and fds.wait_fd up to max_used
  fds_free,    \* the freelist of fds
  timeouts,    \* timeouts.waiting
  timeouts_free,
  scheduled,   \* coroutines to resume, first in first out
  phase,       \* what step() is doing
  at,          \* position in the loop over fds or timeouts
  size,        \* size of the timeout array when the loop over it began
  until,       \* how long ppoll() sleeps at most, or None
  ret,         \* whether this step dispatched something
  running,     \* who runs
  chain,       \* coroutines scheduled since the last poll
  owed,        \* waiters that ppoll() reported and that have not run or been cancelled
  fault        \* the undefined behaviour the program ran into, or None

vars == <<fds, fds_free, timeouts, timeouts_free, scheduled, phase, at, size, until, ret,
          running, chain, owed, fault>>
fdArray == <<fds, fds_free>>
timeoutArray == <<timeouts, timeouts_free>>
loop == <<phase, at, size, until, ret>>

Init ==
  /\ fds = <<>> /\ fds_free = <<>> /\ timeouts = <<>> /\ timeouts_free = <<>>
  /\ scheduled = <<>> /\ chain = 0
  /\ phase = "start" /\ at = 1 /\ size = 0 /\ until = None /\ ret = FALSE
  /\ running = Main
  /\ owed = {} /\ fault = None

-----------------------------------------------------------------------------
(* Registering and cancelling.                                             *)

OnFd(w) == \E i \in DOMAIN fds : fds[i].waiter = w
OnTimeout(w) == \E i \in DOMAIN timeouts : timeouts[i].waiter = w
Idle(w) == ~OnFd(w) /\ ~OnTimeout(w) /\ ~Contains(scheduled, w)

Registered(w) == [waiter |-> w, revents |-> FALSE]

\* reserve_space() takes one more slot of the array if no used one is free.
AwaitFd(w) ==
  /\ running # None
  /\ Idle(w)
  /\ IF fds_free = <<>>
     THEN fds' = Append(fds, Registered(w)) /\ UNCHANGED fds_free
     ELSE /\ fds' = [fds EXCEPT ![fds_free[1]] = Registered(w)]
          /\ fds_free' = Tail(fds_free)
  /\ UNCHANGED <<timeoutArray, scheduled, loop, running, chain, owed, fault>>

Unused == [waiter |-> None, left |-> 0]

\* allocatable_array::reallocate
Grown ==
  LET old == Len(timeouts)
      new == IF old = 0 THEN TimeoutSlots ELSE 2 * old
  IN  IF timeouts_free # <<>> THEN [slots |-> timeouts, free |-> timeouts_free]
      ELSE [slots |-> timeouts \o [i \in 1 .. new - old |-> Unused],
            free |-> [i \in 1 .. new - old |-> old + i]]

AwaitTimeout(w) ==
  /\ running # None
  /\ Idle(w)
  /\ \E d \in 0 .. MaxDelay :
       timeouts' = [Grown.slots EXCEPT ![Grown.free[1]] = [waiter |-> w, left |-> d]]
  /\ timeouts_free' = Tail(Grown.free)
  /\ UNCHANGED <<fdArray, scheduled, loop, running, chain, owed, fault>>

\* A cancelled fd that keeps what ppoll() said of it.
CancelFdOnly(i) ==
  /\ fds' = [fds EXCEPT ![i].waiter = None]
  /\ fds_free' = <<i>> \o fds_free

\* fds_t::cancel: zero revents, ppoll() may have claimed the fd is active.
CancelFd(i) ==
  /\ fds' = [fds EXCEPT ![i] = [waiter |-> None, revents |-> FALSE]]
  /\ fds_free' = <<i>> \o fds_free

\* Mutant of FreeTimeout: the slot is not put on the freelist.
FreeTimeoutLeaks(i) ==
  /\ timeouts' = [timeouts EXCEPT ![i] = Unused]
  /\ UNCHANGED timeouts_free

FreeTimeout(i) ==
  /\ timeouts' = [timeouts EXCEPT ![i] = Unused]
  /\ timeouts_free' = <<i>> \o timeouts_free

Cancel(w) ==
  /\ running # None
  /\ \/ /\ \E i \in DOMAIN fds : fds[i].waiter = w /\ CancelFd(i)
        /\ UNCHANGED timeoutArray
     \/ /\ \E i \in DOMAIN timeouts : timeouts[i].waiter = w /\ FreeTimeout(i)
        /\ UNCHANGED fdArray
  /\ owed' = owed \ {w}
  /\ UNCHANGED <<scheduled, loop, running, chain, fault>>

Schedule(w) ==
  /\ running # None
  /\ Idle(w)
  /\ chain < MaxChain
  /\ scheduled' = Append(scheduled, w)
  /\ chain' = chain + 1
  /\ UNCHANGED <<fdArray, timeoutArray, loop, running, owed, fault>>

\* The code that runs is done; main() then enters the run loop.
Return ==
  /\ running # None
  /\ running' = None
  /\ UNCHANGED <<fdArray, timeoutArray, scheduled, loop, chain, owed, fault>>

-----------------------------------------------------------------------------
(* step                                                                    *)

InLoop(p) == running = None /\ fault = None /\ phase = p

Deadlines == {timeouts[i].left : i \in {j \in DOMAIN timeouts : timeouts[j].waiter # None}}

\* The loop over the timeouts before ppoll().
Deadline == IF Deadlines = {} THEN None ELSE Min(Deadlines)

\* A step that dispatched something goes `again' and does not wait; any other returns to
\* run(), which calls step(true).
StepBegins ==
  /\ InLoop("start") \/ (InLoop("scheduled") /\ scheduled = <<>>)
  /\ until' = (IF scheduled # <<>> \/ ret THEN 0 ELSE Deadline)
  /\ ret' = FALSE
  /\ chain' = 0
  /\ phase' = "poll"
  /\ UNCHANGED <<fdArray, timeoutArray, scheduled, at, size, running, owed, fault>>

Less(t) == IF t = None THEN None ELSE IF t > 0 THEN t - 1 ELSE 0

Tick ==
  /\ InLoop("poll")
  /\ until' = Less(until)
  /\ timeouts' = [i \in DOMAIN timeouts |-> [timeouts[i] EXCEPT !.left = Less(@)]]
  /\ UNCHANGED <<fdArray, timeouts_free, scheduled, phase, at, size, ret, running, chain,
                 owed, fault>>

Due == {w \in Waiters : \E i \in DOMAIN timeouts : timeouts[i] = [waiter |-> w, left |-> 0]}

\* ppoll() returns early if a descriptor is ready, or one of GTK's is.  It writes every
\* revents, and 0 for the slots whose fd is negative.
PollReturns ==
  /\ InLoop("poll")
  /\ \E ready \in SUBSET {i \in DOMAIN fds : fds[i].waiter # None}, gtk \in BOOLEAN :
       /\ ready # {} \/ gtk \/ until = 0
       /\ fds' = [i \in DOMAIN fds |-> [fds[i] EXCEPT !.revents = i \in ready]]
       /\ owed' = {fds[i].waiter : i \in ready} \union Due
       /\ running' = IF gtk THEN Main ELSE None
       /\ ret' = gtk
  /\ phase' = "fds" /\ at' = 1 /\ until' = None
  /\ UNCHANGED <<fds_free, timeoutArray, scheduled, size, chain, fault>>

\* Whatever ppoll() said of the slot.
AllFds == {i \in DOMAIN fds : i >= at /\ fds[i].waiter # None}

ReadyFds == {i \in DOMAIN fds : i >= at /\ fds[i].revents}

\* activate(): the slot is free before its waiter runs; revents is left as it is.
RunFd ==
  LET i == Min(ReadyFds) IN
  /\ InLoop("fds") /\ ReadyFds # {}
  /\ fds' = [fds EXCEPT ![i].waiter = None]
  /\ fds_free' = <<i>> \o fds_free
  /\ running' = fds[i].waiter
  /\ owed' = owed \ {fds[i].waiter}
  /\ fault' = IF fds[i].waiter = None THEN "no_waiter" ELSE None
  /\ at' = i + 1
  /\ ret' = TRUE
  /\ UNCHANGED <<timeoutArray, scheduled, phase, size, until, chain>>

\* `for (auto& node : timeouts.waiting)' takes the begin and the end of the array once.
FdsDone ==
  /\ InLoop("fds") /\ ReadyFds = {}
  /\ phase' = "timeouts" /\ at' = 1 /\ size' = Len(timeouts)
  /\ UNCHANGED <<fdArray, timeoutArray, scheduled, until, ret, running, chain, owed, fault>>

DueTimeouts ==
  {i \in DOMAIN timeouts : i >= at /\ timeouts[i].waiter # None /\ timeouts[i].left = 0}

\* The array the loop walks was freed if a waiter it ran made the array grow.
Walks == at <= size
Reallocated == size # Len(timeouts)

\* Go on behind the slot that ran.
NextSlotSkipsOne(i) == i + 2

NextSlot(i) == i + 1

RunTimeout ==
  LET i == Min(DueTimeouts) IN
  /\ InLoop("timeouts")
  /\ Walks /\ ~Reallocated /\ DueTimeouts # {}
  /\ FreeTimeout(i)
  /\ running' = timeouts[i].waiter
  /\ owed' = owed \ {timeouts[i].waiter}
  /\ at' = NextSlot(i)
  /\ ret' = TRUE
  /\ UNCHANGED <<fdArray, scheduled, phase, size, until, chain, fault>>

TimeoutsDone ==
  /\ InLoop("timeouts")
  /\ Walks => Reallocated \/ DueTimeouts = {}
  /\ fault' = IF Walks /\ Reallocated THEN "dangling" ELSE None
  /\ phase' = "scheduled" /\ at' = 1 /\ size' = 0
  /\ UNCHANGED <<fdArray, timeoutArray, scheduled, until, ret, running, chain, owed>>

RunScheduled ==
  /\ InLoop("scheduled") /\ scheduled # <<>>
  /\ running' = Head(scheduled)
  /\ scheduled' = Tail(scheduled)
  /\ ret' = TRUE
  /\ UNCHANGED <<fdArray, timeoutArray, phase, at, size, until, chain, owed, fault>>

Step ==
  \/ StepBegins \/ PollReturns \/ RunFd \/ FdsDone
  \/ RunTimeout \/ TimeoutsDone \/ RunScheduled

Next ==
  \/ \E w \in Waiters : AwaitFd(w) \/ AwaitTimeout(w) \/ Cancel(w) \/ Schedule(w)
  \/ Return \/ Step \/ Tick

\* Whoever runs returns, step() goes on, ppoll() returns when its time is over, and time
\* passes even if the program is always busy.
Fairness ==
  /\ WF_vars(Return)
  /\ WF_vars(StepBegins) /\ WF_vars(PollReturns /\ until = 0) /\ WF_vars(RunFd)
  /\ WF_vars(FdsDone) /\ WF_vars(RunTimeout) /\ WF_vars(TimeoutsDone)
  /\ WF_vars(RunScheduled)
  /\ SF_vars(Tick)

Spec == Init /\ [][Next]_vars /\ Fairness

-----------------------------------------------------------------------------

\* The type invariant: in particular each freelist names a slot at most once.
TypeOK ==
  /\ fds \in Seq([waiter : Waiters \union {None}, revents : BOOLEAN])
  /\ timeouts \in Seq([waiter : Waiters \union {None}, left : 0 .. MaxDelay])
  /\ IsInjective(fds_free) /\ IsInjective(timeouts_free)
  /\ scheduled \in Seq(Waiters) /\ IsInjective(scheduled)
  /\ phase \in {"start", "poll", "fds", "timeouts", "scheduled"}
  /\ until \in {None} \union 0 .. MaxDelay
  /\ running \in Waiters \union {Main, None}
  /\ owed \subseteq Waiters

\* step() never completes a producer nobody waits for and never walks an array that was
\* reallocated, whatever the waiters it runs do (runloop-poll.cpp:257-272).
NoFault == fault = None

\* A slot is on its freelist exactly while nobody waits in it, also while a waiter runs
\* whose own slot was just freed (runloop-poll.cpp:63-69, 129-134 and 166-170).
NoSlotLost ==
  /\ \A i \in DOMAIN fds : (fds[i].waiter = None) <=> Contains(fds_free, i)
  /\ \A i \in DOMAIN timeouts : (timeouts[i].waiter = None) <=> Contains(timeouts_free, i)

\* Every fd that ppoll() reported and every timeout that was over has run or been
\* cancelled when step() comes to the scheduled coroutines: the loops skip nobody, however
\* slots are freed and used again meanwhile (runloop-poll.cpp:257-272).
OwedIsPaid == phase \in {"scheduled", "poll"} => owed = {}

\* The arrays agree with their freelists, and the loops over them skip nobody and use nothing
\* that was freed.
SlotsAreSound == TypeOK /\ NoFault /\ NoSlotLost /\ OwedIsPaid

\* The loop over the descriptors runs only waiters that ppoll() reported, never one that
\* was cancelled or began to wait after it (runloop-poll.cpp:67 and 125).
OnlyPolledRun ==
  [][(phase = "fds" /\ running = None /\ running' # None) => running' \in owed]_vars

\* A timeout ends: its waiter runs or is cancelled, also if descriptors, GTK and other
\* timeouts keep the loop busy all the time (runloop-poll.cpp:265-272).
EveryTimeoutEnds == \A w \in Waiters : OnTimeout(w) ~> ~OnTimeout(w)
=============================================================================
