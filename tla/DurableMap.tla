----------------------------- MODULE DurableMap -----------------------------
(***************************************************************************)
(* What a staticmap promises: an operation takes effect at once or not at  *)
(* all, whenever the program ends; afterwards the map is what it was then. *)
(***************************************************************************)
CONSTANTS Keys, Values, Absent

VARIABLES
  content,   \* what the map holds
  goal       \* what it will hold when the operation in progress is done

vars == <<content, goal>>

Empty == [k \in Keys |-> Absent]

Init == content = Empty /\ goal = Empty

Begin ==
  /\ content = goal
  /\ \/ \E k \in Keys, v \in Values \cup {Absent} : goal' = [content EXCEPT ![k] = v]
     \/ goal' = Empty
  /\ UNCHANGED content

Commit == content' = goal /\ UNCHANGED goal

Crash == goal' = content /\ UNCHANGED content

Next == Begin \/ Commit \/ Crash

Spec == Init /\ [][Next]_vars
=============================================================================
