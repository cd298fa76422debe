-------------------------------- MODULE RydApi -------------------------------
(***************************************************************************)
(* The API as a whole: the handlers of UserRoutes and OrgRoutes running    *)
(* in the slots, over the authorisation database and the CRM.              *)
(***************************************************************************)
EXTENDS UserRoutes, OrgRoutes

CONSTANT Seed       \* the direct roles of the initial state: <<user, org, role>>

SeededOrgs == {x[2] : x \in Seed}

\* Exactly what a sequence of complete calls, one at a time, can have left.
ASSUME SeedAssumption ==
    /\ Seed \subseteq Users \X Orgs \X DirectRoles
    /\ \A x, y \in Seed : x[1] = y[1] /\ x[2] = y[2] => x = y
    /\ \A x \in Seed : ~IsSuperAdmin(x[1]) /\ ~IsToolAdmin(x[1])

\* Distinct discoverable accounts have distinct names.
Init ==
    /\ \E id \in [Seed -> RowIds] :
        /\ \A x, y \in Seed : id[x] = id[y] => x = y
        /\ fga = {[id |-> id[x], user |-> x[1], org |-> x[2], role |-> x[3]] : x \in Seed}
    /\ toolAuth = [t \in Tools |-> [o \in Orgs |-> 0]]
    /\ \E name \in [SeededOrgs -> Names] :
        /\ \A o, p \in SeededOrgs : name[o] = name[p] => o = p
        /\ accounts = [o \in Orgs |->
                        IF o \in SeededOrgs
                        THEN [state |-> "present", name |-> name[o], discoverable |-> TRUE]
                        ELSE Unused]
    /\ links = {<<x[1], x[2]>> : x \in Seed}
    /\ req = [s \in Slots |-> Idle]

Receive(s) == ReceiveUserRequest(s) \/ ReceiveOrgRequest(s)

Step(s) == UserStep(s) \/ OrgStep(s) \/ Undo(s)

Next == Crash \/ \E s \in Slots : Receive(s) \/ Step(s)

Spec == Init /\ [][Next]_vars

\* Two requests are in each other's way when they are about one organisation,
\* or are both about to make an account with one short name.
InTheWay(r, q) ==
    \/ r.org \in Orgs /\ r.org = q.org
    \/ /\ r.op = "create_org" /\ r.pc = "create_account"
       /\ q.op = "create_org" /\ q.pc = "create_account"
       /\ r.name = q.name

\* No two requests in progress are in each other's way.  Nothing in the code
\* sees to this: it is what some of the properties need of the callers.
Apart ==
    \A s, t \in Slots :
        s # t /\ req[s] # Idle /\ req[t] # Idle => ~InTheWay(req[s], req[t])

ApartSpec == Init /\ [][Next /\ Apart']_vars

\* Nobody creates an organisation who acts for others through a tool.
\* Superadmins may: they get no role in what they create.
ToolAdminsCreateNothing ==
    \A s \in Slots :
        req[s] # Idle /\ req[s].op = "create_org" =>
            IsSuperAdmin(req[s].target) \/ ~IsToolAdmin(req[s].target)

\* A thread of the pool that has a request keeps running it: no call waits
\* for another slot.  That every call returns or raises in the end is up to
\* the CRM's and the database's clients; the code gives them no time limit.
FairSpec == Spec /\ \A s \in Slots : WF_vars(Step(s))

-----------------------------------------------------------------------------

\* TYPE INVARIANT.  The tables, the CRM records and the requests in progress
\* stay within their types, whatever is interleaved or fails.
TypeOK == FgaTypeOK /\ CrmTypeOK /\ RequestsTypeOK

\* SAFETY.  A superadmin never holds a direct role in an organisation: the
\* checks of the join and update handlers and the branch of the create handler
\* are each made long before the write they protect, and the write itself
\* checks nothing (users.py:76, users.py:358, reporting_orgs.py:194).
SuperAdminsHoldNoRole == \A r \in fga : ~IsSuperAdmin(r.user)

\* SAFETY.  Nobody with a direct role lacks the CRM relationship with that
\* organisation: get_reporting_org_users answers 500 for the whole
\* organisation otherwise (reporting_orgs.py:515-542).
RoleHasRelationship == \A r \in fga : Linked(r.user, r.org)

\* SAFETY.  A user has at most one direct role in an organisation; a second
\* one makes every later request about that role an integrity error.
OneRolePerOrg ==
    \A r1, r2 \in fga : r1.user = r2.user /\ r1.org = r2.org => r1 = r2

\* SAFETY.  A tool is authorised at most once for an organisation.
ToolAuthorisedOnce == \A t \in Tools, o \in Orgs : toolAuth[t][o] <= 1

\* SAFETY.  No user can be locked out by get_user_authnz because they hold
\* both direct roles and tool-derived ones.
NobodyLockedOut == \A u \in Users : ~PermissionsConflict(u)

\* SAFETY.  No two organisations that can be found have the same short name
\* (reporting_orgs.py:159), though creation looks for the name in one call and
\* makes the account in another, and may lose the reply.
ShortNamesUnique ==
    \A o, p \in Orgs :
        /\ AccountExists(o) /\ accounts[o].discoverable
        /\ AccountExists(p) /\ accounts[p].discoverable
        /\ accounts[o].name = accounts[p].name
        => o = p

-----------------------------------------------------------------------------
(* What the checks of a handler have established about its request stays   *)
(* true until the request is answered.                                     *)

\* The role that each endpoint can give, and when its organisation is known.
SoundArrival(r) ==
    /\ r.op = "join" => r.role = "CONTRIBUTOR_PENDING"
    /\ r.op = "update" => r.role \in AssignableRoles
    /\ r.op = "create_org" => r.role = "ADMIN"
    /\ \/ r.org \in Orgs
       \/ r.op = "create_org" /\ r.pc \in {"check", "create_account", "undo"}

GivesRole(r) ==
    /\ r.op # "remove"
    /\ r.pc \in {"link", "create_role", "read_link", "repair_link", "read_role", "merge"}

SoundTarget(r) ==
    /\ GivesRole(r) => ~IsSuperAdmin(r.target)
    /\ r.op = "create_org" /\ IsSuperAdmin(r.target) => r.authz = "SUPER_ADMIN"

SoundCaller(r) ==
    /\ r.op \in {"update", "remove"} /\ r.pc # "check" => CanModifyUserRoles(r.authz)
    /\ r.pc = "write_tool" => CanUpdateToolAuthorisations(r.authz)

SoundHeld(r) ==
    /\ \A row \in r.held : row.user = r.target /\ row.org = r.org
    /\ r.op = "create_org" => r.held = {}

SoundRequest(r) == SoundArrival(r) /\ SoundTarget(r) /\ SoundCaller(r) /\ SoundHeld(r)

\* SAFETY.  Every request in progress is one its handler's checks let through:
\* nothing a handler does after them makes it act for a caller without the
\* authority, on a superadmin, or on a row of someone else.
RequestsSound == \A s \in Slots : req[s] # Idle => SoundRequest(req[s])

-----------------------------------------------------------------------------

\* The rows of the table give u the role in o.
Holds(u, o, role) == \E r \in fga : r.user = u /\ r.org = o /\ r.role = role

\* ACTION PROPERTY.  A user gets a role above CONTRIBUTOR_PENDING only by the
\* write of a request to change the role of that very user whose caller
\* authenticated as admin of that very organisation or as superadmin, or of
\* their own creation of the organisation.
PromotionByAuthority ==
    [][\A u \in Users, o \in Orgs, role \in AssignableRoles :
        ~Holds(u, o, role) /\ Holds(u, o, role)' =>
            \E s \in Slots :
                /\ req[s].pc \in {"create_role", "merge"}
                /\ req[s].org = o
                /\ req[s].target = u
                /\ \/ req[s].op = "update" /\ req[s].authz \in {"ADMIN", "SUPER_ADMIN"}
                   \/ req[s].op = "create_org"]_vars

\* ACTION PROPERTY.  A user who has roles in an organisation is left without
\* one only by the delete of a request to remove that very user, whose own
\* user authenticated as admin of that organisation or as superadmin: no row
\* that a handler merges back late takes the place of someone else's.
RemovalByAuthority ==
    [][\A u \in Users, o \in Orgs :
        RowsFor(u, o) # {} /\ RowsFor(u, o)' = {} =>
            \E s \in Slots :
                /\ At(s, "remove", "delete")
                /\ req[s].org = o
                /\ req[s].target = u
                /\ req[s].authz \in {"ADMIN", "SUPER_ADMIN"}]_vars

\* ACTION PROPERTY.  Removing users never leaves an organisation without a
\* direct member, nor takes away its last admin (users.py:547, users.py:565).
RemovalLeavesAdmin ==
    [][\A o \in Orgs :
        RowsOfOrg(o)' # RowsOfOrg(o) /\ RowsOfOrg(o)' \subseteq RowsOfOrg(o) =>
            /\ RowsOfOrg(o)' # {}
            /\ AdminRows(o) # {} => AdminRows(o)' # {}]_vars

\* ACTION PROPERTY.  A tool starts or stops acting for an organisation only by
\* the write of a request whose user authenticated as admin or editor of that
\* organisation or as superadmin; never of a provider admin, who holds the
\* update-org permission too (fga_validator.py:140-158).
ToolsByAuthority ==
    [][\A t \in Tools, o \in Orgs :
        (t \in ToolsOf(o)) # (t \in ToolsOf(o))' =>
            \E s \in Slots :
                /\ req[s].pc = "write_tool"
                /\ req[s].org = o
                /\ req[s].tool = t
                /\ req[s].authz \in {"ADMIN", "EDITOR", "SUPER_ADMIN"}]_vars

\* ACTION PROPERTY.  When the creation of an organisation has failed, at any
\* step after its account was made, and its undo actions have all run, that
\* account is gone.
FailedCreationLeavesNoAccount ==
    [][\A s \in Slots :
        /\ At(s, "create_org", "undo")
        /\ req[s].undo = <<>>
        /\ req[s].org # NoOrg
        /\ req'[s] = Idle
        => accounts'[req[s].org] = Dropped]_vars

\* LIVENESS.  Every request that a handler takes up is answered.
EveryRequestAnswered == \A s \in Slots : req[s] # Idle ~> req[s] = Idle

-----------------------------------------------------------------------------
(* The abstract registry.  An organisation whose creation has not reached  *)
(* the creator's role yet is not open.                                     *)

BeingCreated(o) ==
    \E s \in Slots : /\ req[s] # Idle
                     /\ req[s].op = "create_org"
                     /\ req[s].org = o
                     /\ req[s].pc \in {"link", "create_role"}

RoleOf(u, o) ==
    IF RowsFor(u, o) = {} THEN "NONE" ELSE (CHOOSE r \in RowsFor(u, o) : TRUE).role

Registry == INSTANCE RoleRegistry WITH
    open <- {o \in Orgs : AccountExists(o) /\ ~BeingCreated(o)},
    role <- [u \in Users |-> [o \in Orgs |-> RoleOf(u, o)]],
    allowed <- {x \in Tools \X Orgs : toolAuth[x[1]][x[2]] > 0}

\* REFINEMENT.  While the requests in progress are apart, and with no call
\* failing, the handlers implement the registry: the checks they spread over
\* several reads are as good as one check at the moment of the write.
ImplementsRegistry == Registry!RegistrySpec
=============================================================================
