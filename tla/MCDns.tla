------------------------------- MODULE MCDns -------------------------------
(* Dns for TLC: names and ids are interchangeable.                         *)
EXTENDS Dns, TLC

Symmetric == Permutations(Lookups) \union Permutations(Trids)
=============================================================================
