--------------------------- MODULE CoMutexRunloop ---------------------------
(***************************************************************************)
(* Coroutines that go through a chain of co_mutexes on one run loop.       *)
(*                                                                         *)
(* Every coroutine runs, for stage s = 1 .. Stages,                        *)
(*     { auto lock = co_await mut[s];  something(); }                      *)
(* the shape arlib/runloop2.h documents at co_mutex and http_t::request    *)
(* uses with two mutexes.  something() may complete at once or suspend.    *)
(* The run loop is single threaded: a coroutine runs until it suspends,    *)
(* then the loop dispatches the next fd, timer or scheduled handle.        *)
(* Coroutine names are reused after the coroutine ends, so the system      *)
(* never stops.                                                            *)
(***************************************************************************)
EXTENDS CoMutex

CONSTANTS
  Coros,            \* coroutines
  Stages,           \* number of mutexes in the chain
  CancelScheduled,  \* may a coroutine be cancelled after unlock() scheduled it
                    \* and before the run loop resumed it
  Nil               \* no coroutine

ASSUME CoAssumption ==
  /\ Nil \notin Coros
  /\ Stages \in Nat \ {0}
  /\ CancelScheduled \in BOOLEAN

VARIABLES
  pc,         \* where each coroutine is
  stage,      \* which mutex it is at
  mutex,      \* the mutexes
  scheduled,  \* the run loop's fifo of handles to resume
  running,    \* the coroutine that runs now, or Nil when the loop dispatches
  arrival     \* the coroutines that exist, in the order they started

vars == <<pc, stage, mutex, scheduled, running, arrival>>

StageSet == 1 .. Stages

PCs == {"idle", "enter", "wait", "hold", "busy", "leave"}

Holds(c) == pc[c] \in {"hold", "busy", "leave"}

IsScheduled(c) == Contains(scheduled, c)

Init ==
  /\ pc = [c \in Coros |-> "idle"]
  /\ stage = [c \in Coros |-> 1]
  /\ mutex = [s \in StageSet |-> Unlocked]
  /\ scheduled = <<>>
  /\ running = Nil
  /\ arrival = <<>>

-----------------------------------------------------------------------------
\* Some event handler calls the coroutine; it runs up to its first co_await.
Start(c) ==
  /\ running = Nil
  /\ pc[c] = "idle"
  /\ pc' = [pc EXCEPT ![c] = "enter"]
  /\ stage' = [stage EXCEPT ![c] = 1]
  /\ running' = c
  /\ arrival' = Append(arrival, c)
  /\ UNCHANGED <<mutex, scheduled>>

\* co_await mut[s] on a free mutex: the coroutine keeps running.
EnterFree(c) ==
  /\ running = c
  /\ pc[c] = "enter"
  /\ CanTake(mutex[stage[c]])
  /\ mutex' = [mutex EXCEPT ![stage[c]] = Take(@, c)]
  /\ pc' = [pc EXCEPT ![c] = "hold"]
  /\ UNCHANGED <<stage, scheduled, running, arrival>>

\* co_await mut[s] on a busy mutex: the coroutine suspends.
EnterBusy(c) ==
  /\ running = c
  /\ pc[c] = "enter"
  /\ ~CanTake(mutex[stage[c]])
  /\ mutex' = [mutex EXCEPT ![stage[c]] = Enqueue(@, c)]
  /\ pc' = [pc EXCEPT ![c] = "wait"]
  /\ running' = Nil
  /\ UNCHANGED <<stage, scheduled, arrival>>

\* something() completes synchronously.
Sync(c) ==
  /\ running = c
  /\ pc[c] = "hold"
  /\ pc' = [pc EXCEPT ![c] = "leave"]
  /\ UNCHANGED <<stage, mutex, scheduled, running, arrival>>

\* something() suspends the coroutine, with the lock held.
Suspend(c) ==
  /\ running = c
  /\ pc[c] = "hold"
  /\ pc' = [pc EXCEPT ![c] = "busy"]
  /\ running' = Nil
  /\ UNCHANGED <<stage, mutex, scheduled, arrival>>

\* The event something() waits for is dispatched.
Wake(c) ==
  /\ running = Nil
  /\ pc[c] = "busy"
  /\ pc' = [pc EXCEPT ![c] = "leave"]
  /\ running' = c
  /\ UNCHANGED <<stage, mutex, scheduled, arrival>>

\* Whether the coroutine has no further mutex to go to.
AtLastStage(c) == stage[c] = Stages

\* The lock's destructor at the end of the block; the coroutine goes on to the
\* next mutex, or returns.
Release(c) ==
  /\ running = c
  /\ pc[c] = "leave"
  /\ mutex' = [mutex EXCEPT ![stage[c]] = Unlock(@)]
  /\ scheduled' = scheduled \o Woken(mutex[stage[c]])
  /\ IF AtLastStage(c)
       THEN /\ pc' = [pc EXCEPT ![c] = "idle"]
            /\ running' = Nil
            /\ arrival' = Unlink(arrival, c)
            /\ UNCHANGED stage
       ELSE /\ pc' = [pc EXCEPT ![c] = "enter"]
            /\ stage' = [stage EXCEPT ![c] = @ + 1]
            /\ UNCHANGED <<running, arrival>>

\* The run loop resumes the oldest scheduled handle, which takes the lock.
\* Resuming the handle of a destroyed coroutine is undefined, and not modelled.
Resume ==
  /\ running = Nil
  /\ scheduled # <<>>
  /\ LET c == Head(scheduled) IN
       /\ pc[c] = "wait"
       /\ mutex' = [mutex EXCEPT ![stage[c]] = Take(@, c)]
       /\ pc' = [pc EXCEPT ![c] = "hold"]
       /\ running' = c
  /\ scheduled' = Tail(scheduled)
  /\ UNCHANGED <<stage, arrival>>

\* A suspended coroutine is destroyed while it waits for a mutex; the handle in
\* the run loop's fifo, if there is one, stays there.
CancelWaiting(c) ==
  /\ pc[c] = "wait"
  /\ IsScheduled(c) => CancelScheduled
  /\ mutex' = [mutex EXCEPT ![stage[c]] = Forget(@, c)]
  /\ pc' = [pc EXCEPT ![c] = "idle"]
  /\ arrival' = Unlink(arrival, c)
  /\ UNCHANGED <<stage, scheduled, running>>

\* A suspended coroutine is destroyed while it holds a mutex; its lock's
\* destructor unlocks.
CancelHolding(c) ==
  /\ pc[c] = "busy"
  /\ mutex' = [mutex EXCEPT ![stage[c]] = Unlock(@)]
  /\ scheduled' = scheduled \o Woken(mutex[stage[c]])
  /\ pc' = [pc EXCEPT ![c] = "idle"]
  /\ arrival' = Unlink(arrival, c)
  /\ UNCHANGED <<stage, running>>

-----------------------------------------------------------------------------
\* The steps of the coroutine that runs.
Run(c) == EnterFree(c) \/ EnterBusy(c) \/ Sync(c) \/ Suspend(c) \/ Release(c)

Cancel(c) == CancelWaiting(c) \/ CancelHolding(c)

Next ==
  \/ Resume
  \/ \E c \in Coros : Start(c) \/ Run(c) \/ Wake(c) \/ Cancel(c)

\* Code that runs reaches its next co_await (weak).  Every pass of runloop2::step
\* visits all ready fds and timers and then drains the fifo, so a dispatch that is
\* possible again and again is made, whatever else the pass dispatches (strong);
\* and what something() waits for happens, for it is a socket or a timer with a
\* timeout.  Nothing makes anyone start or cancel a coroutine.
Fairness ==
  /\ SF_vars(Resume)
  /\ \A c \in Coros : WF_vars(Run(c)) /\ SF_vars(Wake(c))

Safe == Init /\ [][Next]_vars

Spec == Safe /\ Fairness

-----------------------------------------------------------------------------
TypeOK ==
  /\ pc \in [Coros -> PCs]
  /\ stage \in [Coros -> StageSet]
  /\ mutex \in [StageSet -> [locked : BOOLEAN, waiters : Seq(Coros)]]
  /\ scheduled \in Seq(Coros)
  /\ running \in Coros \cup {Nil}
  /\ arrival \in Seq(Coros)

\* Only one coroutine at a time may be between a co_await on a mutex and the end
\* of the lock (runloop2.h: "only one coroutine at the time may enter this
\* region"), through hand-overs and cancellations.
MutualExclusion ==
  \A c, d \in Coros :
    Holds(c) /\ Holds(d) /\ stage[c] = stage[d] => c = d

\* "will not allow any coroutine to overtake another, even if some of the
\* something()s are synchronous": of two coroutines, the one that started later
\* is never at a later mutex, and does not hold a mutex the other has yet to pass.
NoOvertaking ==
  \A i, j \in DOMAIN arrival :
    i < j => LET c == arrival[i]
                 d == arrival[j]
             IN  \/ stage[d] < stage[c]
                 \/ stage[d] = stage[c] /\ ~Holds(d)

\* A mutex that reads as locked has somebody who will unlock it: a holder, or a
\* scheduled waiter it was handed to.  A mutex locked for nobody blocks forever.
LockHasKeeper ==
  \A s \in StageSet :
    mutex[s].locked =>
      \E c \in Coros :
        stage[c] = s /\ (Holds(c) \/ (pc[c] = "wait" /\ IsScheduled(c)))

\* Nobody overtakes and no mutex is left locked for nobody, in a well-formed state.
QueuesAreSound == TypeOK /\ NoOvertaking /\ LockHasKeeper

\* Every handle the run loop is going to resume belongs to a coroutine that
\* still exists and is suspended at a mutex.
NoDanglingHandle ==
  \A i \in DOMAIN scheduled : pc[scheduled[i]] = "wait"

\* A coroutine that waits for a mutex gets it, unless it is cancelled.
EventuallyEnters ==
  \A c \in Coros : pc[c] = "wait" ~> pc[c] # "wait"

\* The chain of mutexes implements the fifo lock its users rely on: the owner is
\* the coroutine that holds the lock object; a hand-over in progress is an
\* ownerless lock with a queue.
Owner(s) ==
  IF \E c \in Coros : stage[c] = s /\ Holds(c)
    THEN CHOOSE c \in Coros : stage[c] = s /\ Holds(c)
    ELSE Nil

Lock == INSTANCE FifoLock WITH
  Mutexes <- StageSet,
  owner   <- [s \in StageSet |-> Owner(s)],
  queue   <- [s \in StageSet |-> mutex[s].waiters]

ImplementsFifoLock == Lock!Spec
=============================================================================
