---------------------------- MODULE MCStaticMap -----------------------------
(***************************************************************************)
(* Instances of StaticMap: a root and a first table of one unit each, so   *)
(* that two keys make the table grow, and hashes that collide in it.       *)
(***************************************************************************)
EXTENDS StaticMap, TLC

KeyHash == ("k1" :> 0 @@ "k2" :> 1 @@ "k3" :> 4)
ValueBits == ("a" :> 0 @@ "b" :> 0 @@ "large" :> 1 @@ "big" :> 2 @@ "huge" :> 4)
HashOf == [k \in Keys |-> KeyHash[k]]
BitsFor == [v \in Values |-> ValueBits[v]]
Grow == (4 :> 1 @@ 8 :> 4 @@ 16 :> 8)
Clean == (4 :> 1 @@ 8 :> 3 @@ 16 :> 12)
=============================================================================
