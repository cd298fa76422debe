----------------------------- MODULE MCPublishing ----------------------------
(***************************************************************************)
(* Values of the constants of Publishing for TLC.                          *)
(***************************************************************************)
EXTENDS Publishing, TLC

CONSTANTS u1, o1, o2, web

MCNoClients == [t \in {} |-> web]
MCSymmetry == Permutations(DatasetIds) \cup Permutations(DatasetNames) \cup Permutations(Slots)
=============================================================================
