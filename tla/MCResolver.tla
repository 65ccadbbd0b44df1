----------------------------- MODULE MCResolver -----------------------------
(* The resolver on small instances: requests, queries and the ids other    *)
(* than 0 are interchangeable.                                             *)
EXTENDS Resolver

Symmetry == Permutations(Request) \cup Permutations(Query) \cup Permutations(Id \ {Zero})
=============================================================================
