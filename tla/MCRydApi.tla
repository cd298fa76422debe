------------------------------- MODULE MCRydApi ------------------------------
(***************************************************************************)
(* Values of the constants of RydApi for TLC.                              *)
(***************************************************************************)
EXTENDS RydApi, TLC

CONSTANTS u1, u2, u3, root, helper, o1, o2, t1, app, web

MCNoSeed == {}
MCSeedAdmin == {<<u1, o1, "ADMIN">>}
MCSeedTwoAdmins == {<<u1, o1, "ADMIN">>, <<u2, o1, "ADMIN">>}
MCNoClients == [t \in {} |-> web]
MCClientOfTool == [t \in {t1} |-> app]
MCHelper == {<<t1, helper>>}
MCSymmetry == Permutations(RowIds) \cup Permutations(Slots)
MCFullSymmetry ==
    Permutations(RowIds) \cup Permutations(Slots) \cup Permutations(Users)
        \cup Permutations(Orgs) \cup Permutations(Names)
=============================================================================
