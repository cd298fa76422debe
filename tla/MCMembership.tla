----------------------------- MODULE MCMembership ----------------------------
(***************************************************************************)
(* Values of the constants of Membership for TLC.                          *)
(***************************************************************************)
EXTENDS Membership

CONSTANTS u1, u2, u3, root, o1, o2, web

MCSeedTwoAdmins == {<<u1, o1, "ADMIN">>, <<u2, o1, "ADMIN">>}
MCNoClients == [t \in {} |-> web]
=============================================================================
