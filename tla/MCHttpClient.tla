---------------------------- MODULE MCHttpClient ----------------------------
(* Model-checking instances of the HTTP client. *)
EXTENDS HttpClient

CONSTANTS r1, r2, r3

\* The second request is a POST, the others are GETs.
WithPost == [r \in Reqs |-> IF r = r2 THEN "POST" ELSE "GET"]

OneOrigin == [r \in Reqs |-> "a"]

\* One request goes elsewhere, or has a scheme that does not exist.
Elsewhere(q, o) == [OneOrigin EXCEPT ![q] = o]

AnyOrigins == {OneOrigin, Elsewhere(r3, "b"), Elsewhere(r3, "bad"), Elsewhere(r1, "bad")}
JustOne == {OneOrigin}
=============================================================================
