------------------------------ MODULE UserRoutes -----------------------------
(***************************************************************************)
(* routers/users.py, the three handlers that write: joining an             *)
(* organisation, changing a user's role in it, removing a user from it.    *)
(* Checks that follow one another and read only the request's snapshot and *)
(* what never changes are taken with the read they lead to.                *)
(***************************************************************************)
EXTENDS Requests

-----------------------------------------------------------------------------
(* POST /users/{user_id}/reporting-org: add_user_to_reporting_org.         *)

ReceiveJoin(s) ==
    /\ req[s] = Idle
    /\ \E u \in Users, c \in Clients, o \in Orgs :
        Accept(s, u, [Arrival("join", u, RoleForOrg(u, c, o), o)
                    EXCEPT !.role = "CONTRIBUTOR_PENDING"])
    /\ UNCHANGED <<fga, toolAuth, accounts, links>>

\* Mutant: without the test that the user has no role yet.
MayJoinAgain(r) ==
    /\ ~IsSuperAdmin(r.target)
    /\ ~IsToolAdmin(r.target)
    /\ AccountExists(r.org)
    /\ r.target \in Contacts

\* Mutant: without the test that the user is no tool's admin.
MayJoinAsToolAdmin(r) ==
    /\ ~IsSuperAdmin(r.target)
    /\ AccountExists(r.org)
    /\ r.authz = "NONE"
    /\ r.target \in Contacts

\* The last conjunct is data[0] of the user's own Contacts record.
MayJoin(r) ==
    /\ ~IsSuperAdmin(r.target)
    /\ ~IsToolAdmin(r.target)
    /\ AccountExists(r.org)
    /\ r.authz = "NONE"
    /\ r.target \in Contacts

JoinCheck(s) ==
    /\ At(s, "join", "check")
    /\ \/ MayJoin(req[s]) /\ Goto(s, "link")
       \/ ~MayJoin(req[s]) /\ Answer(s)
    /\ UNCHANGED <<fga, toolAuth, accounts, links>>

\* The undo action is registered once create_relationship has returned.
JoinLink(s) ==
    /\ At(s, "join", "link")
    /\ \/ /\ CreateLink(req[s].target, req[s].org)
          /\ \/ req' = [req EXCEPT ![s].pc = "create_role",
                                   ![s].undo = Append(@, "delete_relationship")]
             \/ "crm_reply" \in Faults /\ Fail(s)
       \/ /\ "crm_call" \in Faults \/ ~AccountExists(req[s].org)
          /\ Fail(s)
          /\ UNCHANGED crmVars
    /\ UNCHANGED fgaVars

\* No undo action is registered for the row.
JoinCreateRole(s) ==
    /\ At(s, "join", "create_role")
    /\ \/ /\ \E i \in FreshIds : CreateRow(i, req[s].target, req[s].org, req[s].role)
          /\ Goto(s, "notify")
       \/ /\ "db_call" \in Faults
          /\ Fail(s)
          /\ UNCHANGED fgaVars
    /\ UNCHANGED crmVars

\* One Contacts lookup for each admin of the organisation; data[0] raises for
\* an admin without a record.  The emails are sent once the answer is.
AdminsHaveContacts(o) == \A r \in AdminRows(o) : r.user \in Contacts

JoinNotify(s) ==
    /\ At(s, "join", "notify")
    /\ \/ AdminsHaveContacts(req[s].org) /\ Answer(s)
       \/ /\ \/ ~AdminsHaveContacts(req[s].org)
             \/ "db_call" \in Faults
             \/ "crm_call" \in Faults /\ AdminRows(req[s].org) # {}
          /\ Fail(s)
    /\ UNCHANGED <<fga, toolAuth, accounts, links>>

-----------------------------------------------------------------------------
(* PUT /users/{user_id}/reporting-org/{org_id}:                            *)
(* update_user_role_in_reporting_org.  No call of it has an undo action.   *)

\* Mutant: the request model takes the derived role as well.
EveryNamedRole == {"ADMIN", "EDITOR", "CONTRIBUTOR", "PROVIDER_ADMIN"}

\* UserRoleUpdateModel.
AssignableRoles == {"ADMIN", "EDITOR", "CONTRIBUTOR"}

ReceiveUpdate(s) ==
    /\ req[s] = Idle
    /\ \E u, target \in Users, c \in Clients, o \in Orgs, role \in AssignableRoles :
        Accept(s, u, [Arrival("update", u, RoleForOrg(u, c, o), o)
                    EXCEPT !.target = target, !.role = role])
    /\ UNCHANGED <<fga, toolAuth, accounts, links>>

\* Mutant: without check 5, that the target is no superadmin.
MayUpdateAnyRole(r) ==
    /\ CanModifyUserRoles(r.authz)
    /\ r.target \in Contacts
    /\ AccountExists(r.org)
    /\ ~IsToolAdmin(r.target)

MayUpdateRole(r) ==
    /\ CanModifyUserRoles(r.authz)
    /\ r.target \in Contacts
    /\ AccountExists(r.org)
    /\ ~IsSuperAdmin(r.target)
    /\ ~IsToolAdmin(r.target)

UpdateCheck(s) ==
    /\ At(s, "update", "check")
    /\ \/ MayUpdateRole(req[s]) /\ Goto(s, "read_link")
       \/ ~MayUpdateRole(req[s]) /\ Answer(s)
    /\ UNCHANGED <<fga, toolAuth, accounts, links>>

\* Mutant: a missing relationship is left missing.
AfterReadLinkNoRepair(r) == "read_role"

\* Step 7: a missing relationship is created first.
AfterReadLink(r) == IF Linked(r.target, r.org) THEN "read_role" ELSE "repair_link"

UpdateReadLink(s) ==
    /\ At(s, "update", "read_link")
    /\ Goto(s, AfterReadLink(req[s]))
    /\ UNCHANGED <<fga, toolAuth, accounts, links>>

UpdateRepairLink(s) ==
    /\ At(s, "update", "repair_link")
    /\ \/ /\ CreateLink(req[s].target, req[s].org)
          /\ \/ Goto(s, "read_role")
             \/ "crm_reply" \in Faults /\ Answer(s)
       \/ /\ ~AccountExists(req[s].org)
          /\ Answer(s)
          /\ UNCHANGED crmVars
    /\ UNCHANGED fgaVars

\* The association read here is the one that update_user_role_for_org merges
\* back later, with its new role.
UpdateReadRole(s) ==
    /\ At(s, "update", "read_role")
    /\ LET r == req[s]
           rows == RowsFor(r.target, r.org)
       IN  \/ RolesForOrgConflict(r.target, r.org) /\ Answer(s)
           \/ /\ ~RolesForOrgConflict(r.target, r.org)
              /\ \/ rows = {} /\ Goto(s, "create_role")
                 \/ \E row \in rows :
                     \/ row.role = r.role /\ Answer(s)
                     \/ /\ row.role # r.role
                        /\ req' = [req EXCEPT ![s].pc = "merge",
                                              ![s].held = {[row EXCEPT !.role = r.role]}]
    /\ UNCHANGED <<fga, toolAuth, accounts, links>>

UpdateCreateRole(s) ==
    /\ At(s, "update", "create_role")
    /\ \E i \in FreshIds : CreateRow(i, req[s].target, req[s].org, req[s].role)
    /\ Answer(s)
    /\ UNCHANGED crmVars

UpdateMerge(s) ==
    /\ At(s, "update", "merge")
    /\ \E row \in req[s].held : MergeRow(row)
    /\ Answer(s)
    /\ UNCHANGED crmVars

-----------------------------------------------------------------------------
(* DELETE /users/{user_id}/reporting-org/{org_id}:                         *)
(* remove_user_from_reporting_org.  The CRM relationship stays.            *)

ReceiveRemove(s) ==
    /\ req[s] = Idle
    /\ \E u, target \in Users, c \in Clients, o \in Orgs :
        Accept(s, u, [Arrival("remove", u, RoleForOrg(u, c, o), o) EXCEPT !.target = target])
    /\ UNCHANGED <<fga, toolAuth, accounts, links>>

\* Mutant: without check 1, that the caller may manage the users.
MayRemoveAnyone(r) ==
    /\ r.target \in Contacts
    /\ AccountExists(r.org)
    /\ ~IsToolAdmin(r.target)

MayRemove(r) ==
    /\ CanModifyUserRoles(r.authz)
    /\ r.target \in Contacts
    /\ AccountExists(r.org)
    /\ ~IsToolAdmin(r.target)

RemoveCheck(s) ==
    /\ At(s, "remove", "check")
    /\ \/ MayRemove(req[s]) /\ Goto(s, "read_role")
       \/ ~MayRemove(req[s]) /\ Answer(s)
    /\ UNCHANGED <<fga, toolAuth, accounts, links>>

RemoveReadRole(s) ==
    /\ At(s, "remove", "read_role")
    /\ LET rows == RowsFor(req[s].target, req[s].org)
           usable == rows # {} /\ ~RolesForOrgConflict(req[s].target, req[s].org)
       IN  \/ ~usable /\ Answer(s)
           \/ usable /\ req' = [req EXCEPT ![s].pc = "read_org", ![s].held = rows]
    /\ UNCHANGED <<fga, toolAuth, accounts, links>>

\* Mutant: the admins are counted as if the one to remove were gone already.
LeavesAdminOffByOne(row) == ~(row.role = "ADMIN" /\ Cardinality(AdminRows(row.org)) = 0)

\* Checks 5a and 5b: the organisation keeps a direct member, and an admin if
\* the role read before was one.
LeavesMember(row) == Cardinality(RowsOfOrg(row.org)) > 1

LeavesAdmin(row) == ~(row.role = "ADMIN" /\ Cardinality(AdminRows(row.org)) = 1)

RemoveReadOrg(s) ==
    /\ At(s, "remove", "read_org")
    /\ LET removable == /\ ~AssociationsConflict(req[s].org)
                        /\ \A row \in req[s].held : LeavesMember(row) /\ LeavesAdmin(row)
       IN  \/ removable /\ Goto(s, "delete")
           \/ ~removable /\ Answer(s)
    /\ UNCHANGED <<fga, toolAuth, accounts, links>>

RemoveDelete(s) ==
    /\ At(s, "remove", "delete")
    /\ DeleteRole(req[s].target, req[s].org)
    /\ Answer(s)
    /\ UNCHANGED crmVars

-----------------------------------------------------------------------------

\* A read or write outside any try block raises: the request ends with a 500
\* and what it has done so far stays.
UserCallRaises(s) ==
    /\ \/ /\ {"crm_call", "db_call"} \cap Faults # {}
          /\ \E op \in {"join", "update", "remove"} : At(s, op, "check")
       \/ /\ "crm_call" \in Faults
          /\ At(s, "update", "read_link") \/ At(s, "update", "repair_link")
       \/ /\ "db_call" \in Faults
          /\ \/ \E label \in {"read_role", "create_role", "merge"} : At(s, "update", label)
             \/ \E label \in {"read_role", "read_org", "delete"} : At(s, "remove", label)
    /\ Answer(s)
    /\ UNCHANGED <<fga, toolAuth, accounts, links>>

JoinStep(s) == JoinCheck(s) \/ JoinLink(s) \/ JoinCreateRole(s) \/ JoinNotify(s)

UpdateStep(s) ==
    \/ UpdateCheck(s) \/ UpdateReadLink(s) \/ UpdateRepairLink(s)
    \/ UpdateReadRole(s) \/ UpdateCreateRole(s) \/ UpdateMerge(s)

RemoveStep(s) ==
    RemoveCheck(s) \/ RemoveReadRole(s) \/ RemoveReadOrg(s) \/ RemoveDelete(s)

ReceiveUserRequest(s) == ReceiveJoin(s) \/ ReceiveUpdate(s) \/ ReceiveRemove(s)

UserStep(s) == JoinStep(s) \/ UpdateStep(s) \/ RemoveStep(s) \/ UserCallRaises(s)
=============================================================================
