------------------------------ MODULE CoMutex ------------------------------
(***************************************************************************)
(* The value of one co_mutex (arlib/runloop2.h) and what each of its       *)
(* operations does to it.  A mutex is a record                             *)
(*   locked   whether the_lock is non-null, which is what await_ready      *)
(*            reads and what locked() returns;                             *)
(*   waiters  the linked list from first to last: the coroutines suspended *)
(*            in co_await, oldest first.                                   *)
(* A waiter object that finds the mutex free is linked and unlinked within *)
(* the same co_await, so only suspended coroutines are ever seen in the    *)
(* list.  Handles given to runloop2::schedule() are the caller's to queue: *)
(* Woken(mx) names them.                                                   *)
(***************************************************************************)
EXTENDS SequencesExt

\* The list s without the node c.
Unlink(s, c) ==
  IF Contains(s, c)
    THEN RemoveAt(s, CHOOSE i \in DOMAIN s : s[i] = c)
    ELSE s

\* A default-constructed mutex.
Unlocked == [locked |-> FALSE, waiters |-> <<>>]

\* await_ready: the mutex can be taken without suspending.
CanTake(mx) == ~mx.locked

\* Mutant: the waiter stays linked after it got the lock.
TakeStaysLinked(mx, c) == [mx EXCEPT !.locked = TRUE]

\* await_resume constructs the lock, which points the_lock at itself; then the
\* waiter object leaves the list (it is not in it when co_await did not suspend).
Take(mx, c) == [locked |-> TRUE, waiters |-> Unlink(mx.waiters, c)]

\* Mutant: a waiter is linked in front of the others.
EnqueueFirst(mx, c) == [mx EXCEPT !.waiters = <<c>> \o @]

\* The waiter's constructor links it at the end of the list, and co_await suspends.
Enqueue(mx, c) == [mx EXCEPT !.waiters = Append(@, c)]

\* Mutants: the_lock is cleared although a waiter takes over; it is never cleared.
UnlockBarging(mx) == [mx EXCEPT !.locked = FALSE]
UnlockForgotten(mx) == mx

\* unlock(): with a waiter the lock is handed over, so the_lock stays non-null
\* and nobody can take the mutex before the waiter runs.
Unlock(mx) == [mx EXCEPT !.locked = mx.waiters # <<>>]

\* Mutants: every waiter is scheduled; none is.
WokenAll(mx) == mx.waiters
WokenNone(mx) == <<>>

\* The handles unlock() gives to runloop2::schedule().
Woken(mx) == IF mx.waiters # <<>> THEN <<Head(mx.waiters)>> ELSE <<>>

\* The destructor of a waiter whose coroutine is cancelled unlinks it.
Forget(mx, c) == [mx EXCEPT !.waiters = Unlink(@, c)]
=============================================================================
