------------------------------ MODULE FifoLock ------------------------------
(***************************************************************************)
(* What a set of co_mutexes promises its users: each mutex has at most one *)
(* owner, a coroutine that finds it busy queues, the queue is served in    *)
(* order and never overtaken by a newcomer, and a free mutex with a queue  *)
(* is eventually granted.                                                  *)
(***************************************************************************)
EXTENDS Naturals, Sequences

CONSTANTS
  Coros,    \* coroutines
  Mutexes,  \* mutexes
  Nil       \* no owner

VARIABLES
  owner,    \* the coroutine in each mutex's critical section, or Nil
  queue     \* the coroutines that wait for each mutex, oldest first

vars == <<owner, queue>>

Queued(m, c) == \E i \in DOMAIN queue[m] : queue[m][i] = c

Init ==
  /\ owner = [m \in Mutexes |-> Nil]
  /\ queue = [m \in Mutexes |-> <<>>]

\* A newcomer takes a mutex nobody owns or waits for.
Acquire(m, c) ==
  /\ owner[m] = Nil
  /\ queue[m] = <<>>
  /\ owner' = [owner EXCEPT ![m] = c]
  /\ UNCHANGED queue

\* Any other newcomer goes to the end of the queue.
Wait(m, c) ==
  /\ owner[m] # Nil \/ queue[m] # <<>>
  /\ owner[m] # c
  /\ ~Queued(m, c)
  /\ queue' = [queue EXCEPT ![m] = Append(@, c)]
  /\ UNCHANGED owner

\* The oldest waiter gets a mutex nobody owns.
Grant(m) ==
  /\ owner[m] = Nil
  /\ queue[m] # <<>>
  /\ owner' = [owner EXCEPT ![m] = Head(queue[m])]
  /\ queue' = [queue EXCEPT ![m] = Tail(@)]

\* The owner leaves the critical section, by itself or because it is cancelled.
Release(m) ==
  /\ owner[m] # Nil
  /\ owner' = [owner EXCEPT ![m] = Nil]
  /\ UNCHANGED queue

\* A waiter is cancelled.
Abandon(m, c) ==
  /\ \E i \in DOMAIN queue[m] :
       /\ queue[m][i] = c
       /\ queue' = [queue EXCEPT ![m] = SubSeq(@, 1, i - 1) \o SubSeq(@, i + 1, Len(@))]
  /\ UNCHANGED owner

Next ==
  \E m \in Mutexes :
    \/ Grant(m)
    \/ Release(m)
    \/ \E c \in Coros : Acquire(m, c) \/ Wait(m, c) \/ Abandon(m, c)

Safe == Init /\ [][Next]_vars

Spec == Safe /\ \A m \in Mutexes : WF_vars(Grant(m))
=============================================================================
