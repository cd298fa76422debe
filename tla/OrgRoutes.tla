------------------------------- MODULE OrgRoutes -----------------------------
(***************************************************************************)
(* routers/reporting_orgs.py: registering a reporting organisation, and    *)
(* authorising and revoking tools for one.                                 *)
(***************************************************************************)
EXTENDS Requests

-----------------------------------------------------------------------------
(* POST /reporting-orgs: create_reporting_org.  Everyone may create one,   *)
(* the users that must not hold a direct role included.                    *)

\* Bound of the model: as many ids are left as there are creations under way.
OrgIdsLeft ==
    Cardinality({t \in Slots : req[t] # Idle /\ req[t].op = "create_org" /\ req[t].org = NoOrg})
        < Cardinality({o \in Orgs : accounts[o].state = "unused"})

ReceiveCreateOrg(s) ==
    /\ req[s] = Idle
    /\ OrgIdsLeft
    /\ \E u \in Users, n \in Names :
        Accept(s, u, [Arrival("create_org", u, IF IsSuperAdmin(u) THEN "SUPER_ADMIN" ELSE "NONE", NoOrg)
                    EXCEPT !.role = "ADMIN", !.name = n])
    /\ UNCHANGED <<fga, toolAuth, accounts, links>>

CreateOrgCheck(s) ==
    /\ At(s, "create_org", "check")
    /\ \/ ~NameInUse(req[s].name) /\ Goto(s, "create_account")
       \/ NameInUse(req[s].name) /\ Answer(s)
    /\ UNCHANGED <<fga, toolAuth, accounts, links>>

\* Mutant: a superadmin becomes the admin of what they create.
AfterAccountForAnyone(r) == "link"

\* A superadmin gets neither a relationship nor a role.
AfterAccount(r) == IF r.authz = "SUPER_ADMIN" THEN "contact" ELSE "link"

\* A reply that is lost, or that the converter rejects, leaves the record without an undo action.
CreateOrgAccount(s) ==
    /\ At(s, "create_org", "create_account")
    /\ \/ \E o \in Orgs :
            /\ CreateAccount(o, req[s].name)
            /\ \/ req' = [req EXCEPT
                            ![s].pc = AfterAccount(req[s]),
                            ![s].org = o,
                            ![s].undo = Append(@, "delete_account")]
               \/ "crm_reply" \in Faults /\ Fail(s)
       \/ /\ "crm_call" \in Faults
          /\ Fail(s)
          /\ UNCHANGED crmVars
    /\ UNCHANGED fgaVars

CreateOrgLink(s) ==
    /\ At(s, "create_org", "link")
    /\ \/ /\ CreateLink(req[s].target, req[s].org)
          /\ \/ req' = [req EXCEPT ![s].pc = "create_role",
                                   ![s].undo = Append(@, "delete_relationship")]
             \/ "crm_reply" \in Faults /\ Fail(s)
       \/ /\ "crm_call" \in Faults
          /\ Fail(s)
          /\ UNCHANGED crmVars
    /\ UNCHANGED fgaVars

\* No undo action is registered for the row.
CreateOrgRole(s) ==
    /\ At(s, "create_org", "create_role")
    /\ \/ /\ \E i \in FreshIds : CreateRow(i, req[s].target, req[s].org, req[s].role)
          /\ Goto(s, "contact")
       \/ /\ "db_call" \in Faults
          /\ Fail(s)
          /\ UNCHANGED fgaVars
    /\ UNCHANGED crmVars

\* The user's own Contacts record is looked up last.
CreateOrgContact(s) ==
    /\ At(s, "create_org", "contact")
    /\ \/ req[s].target \in Contacts /\ Answer(s)
       \/ (req[s].target \notin Contacts \/ "crm_call" \in Faults) /\ Fail(s)
    /\ UNCHANGED <<fga, toolAuth, accounts, links>>

-----------------------------------------------------------------------------
(* POST /reporting-orgs/{org_id}/tools and                                 *)
(* DELETE /reporting-orgs/{org_id}/tools/{tool_id}.  Neither looks for the *)
(* organisation in the CRM.  A tool that does not exist gets a 404.        *)

ReceiveToolRequest(s) ==
    /\ req[s] = Idle
    /\ \E op \in {"authorise", "revoke"}, u \in Users, c \in Clients, o \in Orgs, t \in Tools :
        Accept(s, u, [Arrival(op, u, RoleForOrg(u, c, o), o) EXCEPT !.tool = t])
    /\ UNCHANGED <<fga, toolAuth, accounts, links>>

\* Mutant: without the test that the tool is not authorised yet.
MayAuthoriseAgain(r) == CanUpdateToolAuthorisations(r.authz)

MayAuthorise(r) ==
    /\ CanUpdateToolAuthorisations(r.authz)
    /\ r.tool \notin ToolsOf(r.org)

MayRevoke(r) ==
    /\ CanUpdateToolAuthorisations(r.authz)
    /\ r.tool \in ToolsOf(r.org)

AuthoriseCheck(s) ==
    /\ At(s, "authorise", "check")
    /\ \/ MayAuthorise(req[s]) /\ Goto(s, "write_tool")
       \/ ~MayAuthorise(req[s]) /\ Answer(s)
    /\ UNCHANGED <<fga, toolAuth, accounts, links>>

AuthoriseWrite(s) ==
    /\ At(s, "authorise", "write_tool")
    /\ AuthoriseTool(req[s].tool, req[s].org)
    /\ Answer(s)
    /\ UNCHANGED crmVars

RevokeCheck(s) ==
    /\ At(s, "revoke", "check")
    /\ \/ MayRevoke(req[s]) /\ Goto(s, "write_tool")
       \/ ~MayRevoke(req[s]) /\ Answer(s)
    /\ UNCHANGED <<fga, toolAuth, accounts, links>>

RevokeWrite(s) ==
    /\ At(s, "revoke", "write_tool")
    /\ RevokeTool(req[s].tool, req[s].org)
    /\ Answer(s)
    /\ UNCHANGED crmVars

-----------------------------------------------------------------------------

\* A call outside any try block raises: a 500, and nothing was written yet.
OrgCallRaises(s) ==
    /\ \/ "crm_call" \in Faults /\ At(s, "create_org", "check")
       \/ "db_call" \in Faults /\ \E op \in {"authorise", "revoke"}, label \in {"check", "write_tool"} :
                                    At(s, op, label)
    /\ Answer(s)
    /\ UNCHANGED <<fga, toolAuth, accounts, links>>

CreateOrgStep(s) ==
    \/ CreateOrgCheck(s) \/ CreateOrgAccount(s) \/ CreateOrgLink(s)
    \/ CreateOrgRole(s) \/ CreateOrgContact(s)

ToolStep(s) ==
    AuthoriseCheck(s) \/ AuthoriseWrite(s) \/ RevokeCheck(s) \/ RevokeWrite(s)

ReceiveOrgRequest(s) == ReceiveCreateOrg(s) \/ ReceiveToolRequest(s)

OrgStep(s) == CreateOrgStep(s) \/ ToolStep(s) \/ OrgCallRaises(s)
=============================================================================
