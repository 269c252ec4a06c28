---------------------------- MODULE HttpService ----------------------------
(***************************************************************************)
(* What an http_t promises its callers: requests are answered one at a     *)
(* time, in the order they were made, each with its own response or with   *)
(* an error; a caller may cancel a request it no longer wants.             *)
(*                                                                         *)
(* Two things weaken it.  After a cancellation a response may be that of   *)
(* another request: the cancelled one's is still on its way, and nothing   *)
(* but its place tells it apart.  And where connections may break, a       *)
(* request may come before the newest of those made before it: callers run *)
(* inside a send that fails.                                               *)
(***************************************************************************)
EXTENDS Naturals, Sequences

CONSTANTS
  Reqs,     \* requests
  Errors,   \* the error statuses
  MayBreak  \* whether connections may break

VARIABLES
  pending,    \* the requests made and not yet answered, in the order of the answers
  cancelled,  \* the requests that were cancelled
  result      \* what each request was answered with

vars == <<pending, cancelled, result>>

None == "none"

Init ==
  /\ pending = <<>>
  /\ cancelled = {}
  /\ result = [r \in Reqs |-> None]

Waiting(r) == \E i \in DOMAIN pending : pending[i] = r

\* r comes before the newest request of the list s.
BeforeLast(s, r) == SubSeq(s, 1, Len(s) - 1) \o <<r, s[Len(s)]>>

Request(r) ==
  /\ result[r] = None
  /\ r \notin cancelled
  /\ ~Waiting(r)
  /\ \/ pending' = Append(pending, r)
     \/ MayBreak /\ pending # <<>> /\ pending' = BeforeLast(pending, r)
  /\ UNCHANGED <<cancelled, result>>

Responses(r) == IF cancelled = {} THEN {r} ELSE Reqs

\* The first request is answered: with a response, or with an error.
Answer ==
  /\ pending # <<>>
  /\ \E a \in Responses(Head(pending)) \cup Errors :
       result' = [result EXCEPT ![Head(pending)] = a]
  /\ pending' = Tail(pending)
  /\ UNCHANGED cancelled

Cancel(r) ==
  /\ \E i \in DOMAIN pending :
       /\ pending[i] = r
       /\ pending' = SubSeq(pending, 1, i - 1) \o SubSeq(pending, i + 1, Len(pending))
  /\ cancelled' = cancelled \cup {r}
  /\ UNCHANGED result

Next == Answer \/ \E r \in Reqs : Request(r) \/ Cancel(r)

Safe == Init /\ [][Next]_vars

Spec == Safe /\ WF_vars(Answer)
=============================================================================
