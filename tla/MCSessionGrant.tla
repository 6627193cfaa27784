--------------------------- MODULE MCSessionGrant ---------------------------
(* Model checking of SessionGrant for a few requests.  Requests of one kind  *)
(* are interchangeable: no definition names one of them.  The properties are *)
(* invariants and step properties, for which symmetry is sound.              *)
EXTENDS SessionGrant, TLC

RequestSymmetry == Permutations(Caller) \cup Permutations(Ender)
=============================================================================
