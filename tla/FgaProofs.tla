------------------------------- MODULE FgaProofs -----------------------------
(***************************************************************************)
(* Lemmas about the authorisation database and the validator, for the      *)
(* proofs about the compositions that use them.                            *)
(***************************************************************************)
EXTENDS FgaValidator, TLAPS

\* The snapshot of get_user_authnz holds one of the authorities.
LEMMA RoleForOrgType ==
    ASSUME FgaTypeOK, NEW u, NEW c, NEW o
    PROVE  RoleForOrg(u, c, o) \in Authorities
<1>1. CASE IsSuperAdmin(u)
    BY <1>1 DEF RoleForOrg, Authorities
<1>2. CASE ~IsSuperAdmin(u) /\ RowsFor(u, o) # {}
    <2>1. (CHOOSE r \in RowsFor(u, o) : TRUE) \in fga
        BY <1>2 DEF RowsFor
    <2>2. (CHOOSE r \in RowsFor(u, o) : TRUE).role \in DirectRoles
        BY <2>1 DEF FgaTypeOK, Rows
    <2> QED  BY <1>2, <2>2 DEF RoleForOrg, Authorities
<1>3. CASE ~IsSuperAdmin(u) /\ RowsFor(u, o) = {}
    BY <1>3 DEF RoleForOrg, Authorities
<1> QED  BY <1>1, <1>2, <1>3

\* Rows are written for users, organisations and roles there are.
LEMMA CreateRowType ==
    ASSUME FgaTypeOK, NEW i \in RowIds, NEW u \in Users, NEW o \in Orgs,
           NEW role \in DirectRoles, CreateRow(i, u, o, role)
    PROVE  FgaTypeOK'
<1>1. [id |-> i, user |-> u, org |-> o, role |-> role] \in Rows  BY DEF Rows
<1> QED  BY <1>1 DEF FgaTypeOK, CreateRow

LEMMA MergeRowType ==
    ASSUME FgaTypeOK, NEW row \in Rows, MergeRow(row)
    PROVE  FgaTypeOK'
BY DEF FgaTypeOK, MergeRow

LEMMA DeleteRoleType ==
    ASSUME FgaTypeOK, NEW u, NEW o, DeleteRole(u, o) \/ DeleteRolesOf(o)
    PROVE  FgaTypeOK'
<1>1. fga' \subseteq fga /\ toolAuth' = toolAuth
    BY DEF DeleteRole, DeleteRolesOf, RowsFor
<1> QED  BY <1>1 DEF FgaTypeOK
=============================================================================
