----------------------- MODULE MCSuiteCrmClientFactory -----------------------
(***************************************************************************)
(* Symmetry of SuiteCrmClientFactory for TLC.                              *)
(***************************************************************************)
EXTENDS SuiteCrmClientFactory, TLC

MCThreadSymmetry == Permutations(Threads)
=============================================================================
