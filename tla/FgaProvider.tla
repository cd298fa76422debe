----------------------------- MODULE FgaProvider -----------------------------
(***************************************************************************)
(* The database of fine-grained authorisations, as auth/fga/               *)
(* fga_provider_db.py reads and writes it.  Every method of the provider   *)
(* opens one session of its own, so every operator here is one atomic read *)
(* or one atomic write: nothing is locked between two of them.  The two    *)
(* SELECTs of one read method are taken as one read.                       *)
(*                                                                         *)
(* Two tables change while the API serves requests: the direct roles       *)
(* (finegrainedauthorisationdbmodel) and the tools that organisations have *)
(* authorised (toolauthorisationdbmodel).  The tools, their admin users    *)
(* and the superadmins have no endpoint that writes them: constants.       *)
(* No table has a uniqueness constraint besides its primary key.           *)
(***************************************************************************)
EXTENDS RegistryIds, Naturals, FiniteSets

CONSTANTS
    Tools,          \* third-party publishing tools
    RowIds,         \* primary keys of the direct roles, each drawn by uuid4()
    SuperAdmins,    \* superadminuserdbmodel with is_superadmin set
    ToolAdmins      \* tooladminuserdbmodel: pairs <<tool, user>>

ASSUME FgaAssumption ==
    /\ SuperAdmins \subseteq Users
    /\ ToolAdmins \subseteq Tools \X Users

VARIABLES
    fga,            \* the rows of the table of direct roles
    toolAuth        \* toolAuth[t][o]: number of rows that authorise t for o

fgaVars == <<fga, toolAuth>>

-----------------------------------------------------------------------------
(* What the tables hold.                                                   *)

\* The roles the code ever writes; PROVIDER_ADMIN and SUPER_ADMIN are derived.
DirectRoles == {"CONTRIBUTOR_PENDING", "CONTRIBUTOR", "EDITOR", "ADMIN"}

Rows == [id: RowIds, user: Users, org: Orgs, role: DirectRoles]

FgaTypeOK ==
    /\ fga \subseteq Rows
    /\ toolAuth \in [Tools -> [Orgs -> Nat]]

-----------------------------------------------------------------------------
(* Reads.                                                                  *)

IsSuperAdmin(u) == u \in SuperAdmins

IsToolAdmin(u) == \E t \in Tools : <<t, u>> \in ToolAdmins

RowsOfUser(u) == {r \in fga : r.user = u}

RowsOfOrg(o) == {r \in fga : r.org = o}

RowsFor(u, o) == {r \in fga : r.user = u /\ r.org = o}

AdminRows(o) == {r \in fga : r.org = o /\ r.role = "ADMIN"}

ToolsOf(o) == {t \in Tools : toolAuth[t][o] > 0}

\* The tools through which u is a provider admin of o.
ProviderTools(u, o) == {t \in ToolsOf(o) : <<t, u>> \in ToolAdmins}

\* get_user_fine_grained_permissions raises: direct roles and tool-derived ones.
PermissionsConflict(u) ==
    RowsOfUser(u) # {} /\ \E o \in Orgs : ProviderTools(u, o) # {}

\* get_user_roles_for_org raises.
RolesForOrgConflict(u, o) ==
    \/ RowsFor(u, o) # {} /\ ProviderTools(u, o) # {}
    \/ \E r1, r2 \in RowsFor(u, o) : r1 # r2

\* get_user_associations_for_org raises: a user with two direct roles, a tool
\* authorised twice (its admins are counted twice), a user with both kinds.
AssociationsConflict(o) ==
    \/ \E r1, r2 \in RowsOfOrg(o) : r1 # r2 /\ r1.user = r2.user
    \/ \E t \in Tools, u \in Users : <<t, u>> \in ToolAdmins /\ toolAuth[t][o] > 1
    \/ \E r \in RowsOfOrg(o) : ProviderTools(r.user, o) # {}

-----------------------------------------------------------------------------
(* Writes, each one committed transaction on its own.                      *)

\* session.add of a row whose primary key i is fresh; the role is not checked
\* against the rows the user already has.
CreateRow(i, u, o, role) ==
    /\ fga' = fga \cup {[id |-> i, user |-> u, org |-> o, role |-> role]}
    /\ UNCHANGED toolAuth

\* session.merge: overwrite the row with that primary key, insert it if there
\* is none (any more).
MergeRow(row) ==
    /\ fga' = {r \in fga : r.id # row.id} \cup {row}
    /\ UNCHANGED toolAuth

\* Deletes the first row found for the pair, if there is one.
DeleteRole(u, o) ==
    /\ \/ \E row \in RowsFor(u, o) : fga' = fga \ {row}
       \/ RowsFor(u, o) = {} /\ UNCHANGED fga
    /\ UNCHANGED toolAuth

\* delete_all_fine_grained_authorisations_for_org.
DeleteRolesOf(o) ==
    /\ fga' = {r \in fga : r.org # o}
    /\ UNCHANGED toolAuth

AuthoriseTool(t, o) ==
    /\ toolAuth' = [toolAuth EXCEPT ![t][o] = @ + 1]
    /\ UNCHANGED fga

RevokeTool(t, o) ==
    /\ toolAuth' = [toolAuth EXCEPT ![t][o] = 0]
    /\ UNCHANGED fga
=============================================================================
