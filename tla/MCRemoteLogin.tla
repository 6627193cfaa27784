---- MODULE MCRemoteLogin ----
EXTENDS RemoteLogin, TLC

(* Tabs are interchangeable: every action treats all slots alike, and the   *)
(* properties are invariants.                                               *)
Tabs == Permutations(Slots)
====
