----------------------------- MODULE SerialProofs ----------------------------
(***************************************************************************)
(* What the API keeps while no two requests in progress are in each        *)
(* other's way (Apart), for any number of slots and whatever fails or      *)
(* stops: one role per user and organisation, one authorisation per tool,  *)
(* distinct short names, and an admin in every organisation that has one.  *)
(* Each rests on a check made some calls before the write.  What the check *)
(* found is still so at the write, and that is what SerialInv says: the    *)
(* other requests write about other organisations.  Two requests about one *)
(* organisation break every one of them.                                   *)
(*                                                                         *)
(* When moreover nothing fails, the handlers implement RoleRegistry, where *)
(* every operation happens at once.                                        *)
(***************************************************************************)
EXTENDS RydApiProofs, FiniteSetTheorems

\* Whoever has a role in an organisation, it was registered once.
RowsHaveAccounts == \A r \in fga : accounts[r.org].state # "unused"

Tidy == OneRolePerOrg /\ ToolAuthorisedOnce /\ ShortNamesUnique /\ RowsHaveAccounts

\* There is no role yet where one is to be written.
NoRoleYet(r) ==
    /\ r.op = "join" /\ r.pc = "check" /\ r.authz = "NONE" /\ ~IsSuperAdmin(r.target) =>
            RowsFor(r.target, r.org) = {}
    /\ r.op = "join" /\ r.pc = "link" => RowsFor(r.target, r.org) = {}
    /\ r.op = "create_org" /\ r.pc = "link" => RowsOfOrg(r.org) = {}
    /\ r.pc = "create_role" => RowsFor(r.target, r.org) = {}

\* The row to merge back is the one in the table, with another role.
MergesCurrent(r) ==
    r.op = "update" /\ r.pc = "merge" =>
        /\ RowsFor(r.target, r.org) # {}
        /\ \A x \in RowsFor(r.target, r.org), h \in r.held : x.id = h.id /\ x.role # h.role

\* The row to delete is not the last one, nor that of the last admin.
Removable(r) ==
    /\ r.pc = "read_org" => r.held = RowsFor(r.target, r.org)
    /\ r.pc = "delete" =>
        \A x \in RowsFor(r.target, r.org) :
            /\ RowsOfOrg(r.org) # {x}
            /\ x.role = "ADMIN" => AdminRows(r.org) # {x}

\* What the checks of a request found is still so.
StillTrue(r) ==
    /\ NoRoleYet(r)
    /\ MergesCurrent(r)
    /\ Removable(r)
    /\ GivesRole(r) => accounts[r.org].state # "unused"
    /\ r.op = "create_org" /\ r.pc = "create_account" => ~NameInUse(r.name)
    /\ r.op = "authorise" /\ r.pc = "write_tool" => r.tool \notin ToolsOf(r.org)

SerialInv == Tidy /\ \A s \in Slots : req[s] # Idle => StillTrue(req[s])

-----------------------------------------------------------------------------
(* Requests that are apart.                                                *)

LEMMA ApartInvariant == ApartSpec => Spec /\ []Apart
<1>1. Init => Apart
    BY DEF Init, Apart
<1>2. Apart /\ [Next /\ Apart']_vars => Apart'
    BY DEF Apart, InTheWay, vars
<1> QED  BY <1>1, <1>2, PTL DEF ApartSpec, Spec

LEMMA IdsInvariant == Spec => []IdsMatch
BY InitIds, NextIds, Invariant, PTL DEF Spec

\* What the checks of the requests in the other slots found is still so.
OthersStill(s) == \A t \in Slots : t # s /\ req'[t] # Idle => StillTrue(req[t])'

\* An id that an organisation had is never free again.
LEMMA AccountStaysKnown ==
    ASSUME IndInv, NEW s \in Slots, Step(s), NEW o \in Orgs, accounts[o].state # "unused"
    PROVE  accounts'[o].state # "unused"
<1>1. accounts \in [Orgs -> Account]
    BY DEF IndInv, TypeOK, CrmTypeOK
<1>2. accounts'[o] = accounts[o] \/ accounts'[o] = Dropped
    BY <1>1, AccountsChange DEF CreateAccount, DropAccount
<1> QED  BY <1>2 DEF Dropped

\* A short name that is free for a request that is about to take it stays so.
LEMMA NameStaysFree ==
    ASSUME IndInv, Apart, NEW s \in Slots, Step(s), NEW t \in Slots, t # s,
           At(t, "create_org", "create_account"), ~NameInUse(req[t].name)
    PROVE  ~NameInUse(req[t].name)' \/ req'[t] # req[t]
<1> DEFINE n == req[t].name
<1>1. accounts \in [Orgs -> Account] /\ req[s] # Idle /\ req[t] # Idle
    BY StepIsBusy DEF IndInv, TypeOK, CrmTypeOK, At, Idle
<1>2. CASE UNCHANGED accounts
    BY <1>2 DEF NameInUse, AccountExists
<1>3. ASSUME At(s, "create_org", "create_account"), NEW o \in Orgs, CreateAccount(o, req[s].name)
      PROVE  req'[t] = req[t] => ~NameInUse(req[t].name)'
    <2>1. req[s].name # n
        BY <1>1, <1>3 DEF Apart, InTheWay, At
    <2>2. \A p \in Orgs : /\ p # o => accounts'[p] = accounts[p]
                          /\ p = o => accounts'[p].name = req[s].name
        BY <1>1, <1>3 DEF CreateAccount
    <2> QED  BY <2>1, <2>2 DEF NameInUse, AccountExists
<1>4. CASE DropAccount(req[s].org)
    <2>1. \A p \in Orgs : accounts'[p] = accounts[p] \/ accounts'[p].state = "dropped"
        BY <1>1, <1>4 DEF DropAccount, Dropped
    <2> QED  BY <2>1 DEF NameInUse, AccountExists
<1> QED  BY <1>2, <1>3, <1>4, AccountsChange

\* A request that another one does not get in the way of.
LEMMA OneStaysTrue ==
    ASSUME IndInv, IdsMatch, Apart, NEW s \in Slots, Step(s),
           NEW t \in Slots, t # s, req[t] # Idle, req'[t] = req[t], StillTrue(req[t])
    PROVE  StillTrue(req[t])'
<1>1. GoodRequest(req[t])
    BY DEF IndInv, TypeOK, RequestsTypeOK, RequestsSound, GoodRequest
<1>2. /\ req[t].op = "create_org" /\ req[t].pc = "create_account" => ~NameInUse(req[t].name)'
      /\ req'[t].op = req[t].op /\ req'[t].pc = req[t].pc /\ req'[t].name = req[t].name
    BY NameStaysFree DEF StillTrue, At
<1>3. CASE req[t].org \in Orgs
    <2> DEFINE o == req[t].org
    <2>1. /\ \A u : RowsFor(u, o)' = RowsFor(u, o)
          /\ RowsOfOrg(o)' = RowsOfOrg(o)
          /\ AdminRows(o)' = AdminRows(o)
          /\ ToolsOf(o)' = ToolsOf(o)
        BY <1>3, Bystander
    <2>2. accounts[o].state # "unused" => accounts'[o].state # "unused"
        BY <1>3, AccountStaysKnown
    <2>3. NoRoleYet(req[t])'
        BY <2>1 DEF StillTrue, NoRoleYet, RowsFor, RowsOfOrg, IsSuperAdmin
    <2>4. MergesCurrent(req[t])'
        BY <2>1 DEF StillTrue, MergesCurrent, RowsFor
    <2>5. Removable(req[t])'
        BY <2>1 DEF StillTrue, Removable, RowsFor, RowsOfOrg, AdminRows
    <2> QED
        BY <1>2, <2>1, <2>2, <2>3, <2>4, <2>5 DEF StillTrue, GivesRole, ToolsOf, NameInUse, AccountExists
<1>4. CASE req[t].org \notin Orgs
    <2>1. req[t].op = "create_org" /\ req[t].pc \in {"check", "create_account", "undo"}
        BY <1>1, <1>4 DEF GoodRequest, SoundRequest, SoundArrival
    <2> QED
        BY <1>2, <2>1 DEF StillTrue, NoRoleYet, MergesCurrent, Removable, GivesRole, NameInUse, AccountExists
<1> QED  BY <1>3, <1>4

LEMMA OthersStillHold ==
    ASSUME IndInv, IdsMatch, Apart, SerialInv, NEW s \in Slots, Receive(s) \/ Step(s)
    PROVE  OthersStill(s)
<1> SUFFICES ASSUME NEW t \in Slots, t # s, req'[t] # Idle PROVE StillTrue(req[t])'
    BY DEF OthersStill
<1>1. req'[t] = req[t]
    BY ReceiveOneSlot, StepOneSlot
<1>2. StillTrue(req[t])
    BY <1>1 DEF SerialInv
<1>3. CASE Step(s)
    BY <1>1, <1>2, <1>3, OneStaysTrue
<1>4. CASE Receive(s)
    <2>1. UNCHANGED <<fga, toolAuth, accounts>>
        BY <1>4, ReceivedRequest
    <2> QED
        BY <1>1, <1>2, <2>1
        DEF StillTrue, NoRoleYet, MergesCurrent, Removable, GivesRole, RowsFor, RowsOfOrg, AdminRows,
            NameInUse, AccountExists, ToolsOf, IsSuperAdmin
<1> QED  BY <1>3, <1>4

-----------------------------------------------------------------------------
(* The slot that takes the step.                                           *)

\* With the others as they were, it is enough to look at that slot.
LEMMA TheSlot ==
    ASSUME Tidy', NEW s \in Slots, OthersStill(s), req'[s] = Idle \/ StillTrue(req[s])'
    PROVE  SerialInv'
BY DEF SerialInv, OthersStill

LEMMA TablesTidy ==
    ASSUME Tidy, UNCHANGED <<fga, toolAuth, accounts>>
    PROVE  Tidy'
BY DEF Tidy, OneRolePerOrg, ToolAuthorisedOnce, ShortNamesUnique, RowsHaveAccounts, AccountExists

\* The handler answers and has written nothing.
LEMMA Answered ==
    ASSUME IndInv, Tidy', NEW s \in Slots, OthersStill(s), Answer(s)
    PROVE  SerialInv'
<1>1. req'[s] = Idle
    BY DEF Answer, IndInv, TypeOK, RequestsTypeOK
<1> QED  BY <1>1, TheSlot

\* What a request is after it has moved on.
LEMMA Moved ==
    ASSUME IndInv, NEW s \in Slots, req[s].pc # "idle", NEW label, Goto(s, label)
    PROVE  /\ req'[s].pc = label /\ req'[s].op = req[s].op /\ req'[s].authz = req[s].authz
           /\ req'[s].org = req[s].org /\ req'[s].target = req[s].target
           /\ req'[s].role = req[s].role /\ req'[s].tool = req[s].tool
           /\ req'[s].name = req[s].name /\ req'[s].held = req[s].held
<1>1. req[s] \in Request
    BY BusySlot DEF GoodRequest
<1>2. req'[s] = [req[s] EXCEPT !.pc = label]
    BY DEF Goto, IndInv, TypeOK, RequestsTypeOK
<1> QED  BY <1>1, <1>2 DEF Request

\* The labels at which nothing found before matters any more.
Settled == {"notify", "contact", "undo"}

LEMMA IsSettled ==
    ASSUME NEW s \in Slots, req'[s].pc \in Settled
    PROVE  StillTrue(req[s])'
BY DEF Settled, StillTrue, NoRoleYet, MergesCurrent, Removable, GivesRole

LEMMA GotoSettled ==
    ASSUME IndInv, Tidy', NEW s \in Slots, OthersStill(s), req[s].pc # "idle",
           NEW label \in Settled, Goto(s, label)
    PROVE  SerialInv'
BY Moved, IsSettled, TheSlot

-----------------------------------------------------------------------------
(* The writes.                                                             *)

LEMMA RowWritten ==
    ASSUME IndInv, Tidy, NEW i \in FreshIds, NEW u \in Users, NEW o \in Orgs, NEW role,
           CreateRow(i, u, o, role), RowsFor(u, o) = {}, accounts[o].state # "unused",
           UNCHANGED crmVars
    PROVE  Tidy'
<1>1. OneRolePerOrg'
    BY DEF Tidy, OneRolePerOrg, CreateRow, RowsFor
<1>2. RowsHaveAccounts'
    BY DEF Tidy, RowsHaveAccounts, CreateRow, crmVars
<1>3. ToolAuthorisedOnce' /\ ShortNamesUnique'
    BY DEF Tidy, ToolAuthorisedOnce, ShortNamesUnique, CreateRow, crmVars, AccountExists
<1> QED  BY <1>1, <1>2, <1>3 DEF Tidy

LEMMA AccountTidy ==
    ASSUME IndInv, Tidy, NEW o \in Orgs, NEW n, CreateAccount(o, n), ~NameInUse(n),
           UNCHANGED fgaVars
    PROVE  Tidy' /\ RowsOfOrg(o)' = {} /\ accounts'[o].state # "unused"
<1>1. accounts \in [Orgs -> Account]
    BY DEF IndInv, TypeOK, CrmTypeOK
<1>2. \A p \in Orgs : accounts'[p] = IF p = o
                        THEN [state |-> "present", name |-> n, discoverable |-> TRUE]
                        ELSE accounts[p]
    BY <1>1 DEF CreateAccount
<1>3. ShortNamesUnique'
    BY <1>2 DEF Tidy, ShortNamesUnique, AccountExists, NameInUse
<1>4. fga \subseteq Rows /\ \A r \in fga : r.org \in Orgs
    BY DEF IndInv, TypeOK, FgaTypeOK, Rows
<1>5. RowsHaveAccounts'
    BY <1>2, <1>4 DEF Tidy, RowsHaveAccounts, fgaVars
<1>6. RowsOfOrg(o)' = {}
    BY DEF Tidy, RowsHaveAccounts, RowsOfOrg, fgaVars, CreateAccount
<1>7. OneRolePerOrg' /\ ToolAuthorisedOnce'
    BY DEF Tidy, OneRolePerOrg, ToolAuthorisedOnce, fgaVars
<1> QED  BY <1>2, <1>3, <1>5, <1>6, <1>7 DEF Tidy

LEMMA DropTidy ==
    ASSUME IndInv, Tidy, NEW o, DropAccount(o), UNCHANGED fgaVars
    PROVE  Tidy'
<1>1. accounts \in [Orgs -> Account]
    BY DEF IndInv, TypeOK, CrmTypeOK
<1>2. \A p \in Orgs : accounts'[p] = accounts[p] \/ accounts'[p] = Dropped
    BY <1>1 DEF DropAccount
<1>3. \A p \in Orgs : accounts'[p] = accounts[p] \/ ~AccountExists(p)'
    BY <1>2 DEF AccountExists, Dropped
<1>4. ShortNamesUnique'
    BY <1>3 DEF Tidy, ShortNamesUnique, AccountExists
<1>5. \A r \in fga : r.org \in Orgs
    BY DEF IndInv, TypeOK, FgaTypeOK, Rows
<1>6. RowsHaveAccounts'
    BY <1>2, <1>5 DEF Tidy, RowsHaveAccounts, fgaVars, Dropped
<1>7. OneRolePerOrg' /\ ToolAuthorisedOnce'
    BY DEF Tidy, OneRolePerOrg, ToolAuthorisedOnce, fgaVars
<1> QED  BY <1>4, <1>6, <1>7 DEF Tidy

LEMMA ToolTidy ==
    ASSUME IndInv, Tidy, NEW t \in Tools, NEW o \in Orgs,
           \/ AuthoriseTool(t, o) /\ t \notin ToolsOf(o)
           \/ RevokeTool(t, o),
           UNCHANGED crmVars
    PROVE  Tidy'
<1>1. toolAuth \in [Tools -> [Orgs -> Nat]]
    BY DEF IndInv, TypeOK, FgaTypeOK
<1>2. \A x \in Tools, p \in Orgs : toolAuth[x][p] \in Nat /\ toolAuth[x][p] <= 1
    BY <1>1 DEF Tidy, ToolAuthorisedOnce
<1>3. CASE AuthoriseTool(t, o) /\ t \notin ToolsOf(o)
    <2>1. toolAuth[t][o] = 0
        BY <1>2, <1>3 DEF ToolsOf
    <2>2. \A x \in Tools, p \in Orgs :
            toolAuth'[x][p] = IF x = t /\ p = o THEN 1 ELSE toolAuth[x][p]
        BY <1>1, <1>3, <2>1 DEF AuthoriseTool
    <2>3. ToolAuthorisedOnce'
        BY <1>2, <2>2 DEF ToolAuthorisedOnce
    <2> QED
        BY <1>3, <2>3 DEF AuthoriseTool, Tidy, OneRolePerOrg, ShortNamesUnique, RowsHaveAccounts, AccountExists, crmVars
<1>4. CASE RevokeTool(t, o)
    <2>1. \A x \in Tools, p \in Orgs :
            toolAuth'[x][p] = IF x = t /\ p = o THEN 0 ELSE toolAuth[x][p]
        BY <1>1, <1>4 DEF RevokeTool
    <2>2. ToolAuthorisedOnce'
        BY <1>2, <2>1 DEF ToolAuthorisedOnce
    <2> QED
        BY <1>4, <2>2 DEF RevokeTool, Tidy, OneRolePerOrg, ShortNamesUnique, RowsHaveAccounts, AccountExists, crmVars
<1> QED  BY <1>3, <1>4

LEMMA DeleteTidy ==
    ASSUME Tidy, NEW u, NEW o, DeleteRole(u, o), UNCHANGED crmVars
    PROVE  Tidy'
<1>1. fga' \subseteq fga /\ toolAuth' = toolAuth
    BY DEF DeleteRole
<1> QED
    BY <1>1 DEF Tidy, OneRolePerOrg, ToolAuthorisedOnce, ShortNamesUnique, RowsHaveAccounts, AccountExists, crmVars

\* The row merged takes the place of the one in the table.
LEMMA MergeTidy ==
    ASSUME IndInv, Tidy, NEW row \in Rows, MergeRow(row), UNCHANGED crmVars,
           accounts[row.org].state # "unused",
           \A x \in RowsFor(row.user, row.org) : x.id = row.id
    PROVE  Tidy'
<1>1. OneRolePerOrg'
    <2> SUFFICES ASSUME NEW x \in fga', NEW y \in fga', x.user = y.user, x.org = y.org
                 PROVE  x = y
        BY DEF OneRolePerOrg
    <2>1. \A z \in fga' : z = row \/ (z \in fga /\ z.id # row.id)
        BY DEF MergeRow
    <2>2. \A z \in fga' : z.user = row.user /\ z.org = row.org => z = row
        BY <2>1 DEF RowsFor
    <2>3. CASE x = row \/ y = row
        BY <2>2, <2>3
    <2>4. CASE x \in fga /\ y \in fga
        BY <2>4 DEF Tidy, OneRolePerOrg
    <2> QED  BY <2>1, <2>3, <2>4
<1>2. RowsHaveAccounts'
    BY DEF Tidy, RowsHaveAccounts, MergeRow, crmVars
<1>3. ToolAuthorisedOnce' /\ ShortNamesUnique'
    BY DEF Tidy, ToolAuthorisedOnce, ShortNamesUnique, MergeRow, crmVars, AccountExists
<1> QED  BY <1>1, <1>2, <1>3 DEF Tidy

-----------------------------------------------------------------------------
(* The handlers.                                                           *)

\* A user of whom authentication found no role has none.
LEMMA NoRoleFound ==
    ASSUME FgaTypeOK, NEW u, NEW c, NEW o, ~IsSuperAdmin(u), RoleForOrg(u, c, o) = "NONE"
    PROVE  RowsFor(u, o) = {}
<1> SUFFICES ASSUME RowsFor(u, o) # {} PROVE FALSE  OBVIOUS
<1>1. (CHOOSE r \in RowsFor(u, o) : TRUE) \in RowsFor(u, o)
    OBVIOUS
<1>2. (CHOOSE r \in RowsFor(u, o) : TRUE).role \in DirectRoles
    BY <1>1 DEF RowsFor, FgaTypeOK, Rows
<1> QED  BY <1>2 DEF RoleForOrg, DirectRoles

LEMMA ReceiveSerial ==
    ASSUME IndInv, SerialInv, NEW s \in Slots, OthersStill(s), Receive(s)
    PROVE  SerialInv'
<1>1. PICK u, r : /\ Accept(s, u, r)
                  /\ GoodRequest(r)
                  /\ r.pc = "check" /\ r.undo = <<>> /\ r.held = {}
                  /\ UNCHANGED <<fga, toolAuth, accounts, links>>
    BY ReceivedRequest
<1>2. Tidy'
    BY <1>1, TablesTidy DEF SerialInv
<1>3. req'[s] = r
    BY <1>1 DEF Accept, IndInv, TypeOK, RequestsTypeOK
<1>4. ASSUME r.op = "join", r.authz = "NONE", ~IsSuperAdmin(r.target)
      PROVE  RowsFor(r.target, r.org) = {}
    <2>1. \A v, n : Accept(s, v, n) => req'[s] = n
        BY DEF Accept, IndInv, TypeOK, RequestsTypeOK
    <2>2. ~(ReceiveUpdate(s) \/ ReceiveRemove(s) \/ ReceiveCreateOrg(s) \/ ReceiveToolRequest(s))
        <3>1. CASE ReceiveUpdate(s)
            <4>1. PICK v, target \in Users, c \in Clients, o \in Orgs, role \in AssignableRoles :
                    Accept(s, v, [Arrival("update", v, RoleForOrg(v, c, o), o) EXCEPT !.target = target, !.role = role])
                BY <3>1 DEF ReceiveUpdate
            <4>2. r = [Arrival("update", v, RoleForOrg(v, c, o), o) EXCEPT !.target = target, !.role = role]
                BY <1>3, <2>1, <4>1
            <4> QED  BY <1>4, <4>2 DEF Arrival
        <3>2. CASE ReceiveRemove(s)
            <4>1. PICK v, target \in Users, c \in Clients, o \in Orgs :
                    Accept(s, v, [Arrival("remove", v, RoleForOrg(v, c, o), o) EXCEPT !.target = target])
                BY <3>2 DEF ReceiveRemove
            <4>2. r = [Arrival("remove", v, RoleForOrg(v, c, o), o) EXCEPT !.target = target]
                BY <1>3, <2>1, <4>1
            <4> QED  BY <1>4, <4>2 DEF Arrival
        <3>3. CASE ReceiveCreateOrg(s)
            <4>1. PICK v \in Users, n \in Names :
                    Accept(s, v, [Arrival("create_org", v, IF IsSuperAdmin(v) THEN "SUPER_ADMIN" ELSE "NONE", NoOrg)
                                    EXCEPT !.role = "ADMIN", !.name = n])
                BY <3>3 DEF ReceiveCreateOrg
            <4>2. r = [Arrival("create_org", v, IF IsSuperAdmin(v) THEN "SUPER_ADMIN" ELSE "NONE", NoOrg)
                            EXCEPT !.role = "ADMIN", !.name = n]
                BY <1>3, <2>1, <4>1
            <4> QED  BY <1>4, <4>2 DEF Arrival
        <3>4. CASE ReceiveToolRequest(s)
            <4>1. PICK op \in {"authorise", "revoke"}, v \in Users, c \in Clients, o \in Orgs, t \in Tools :
                    Accept(s, v, [Arrival(op, v, RoleForOrg(v, c, o), o) EXCEPT !.tool = t])
                BY <3>4 DEF ReceiveToolRequest
            <4>2. r = [Arrival(op, v, RoleForOrg(v, c, o), o) EXCEPT !.tool = t]
                BY <1>3, <2>1, <4>1
            <4> QED  BY <1>4, <4>2 DEF Arrival
        <3> QED  BY <3>1, <3>2, <3>3, <3>4
    <2>3. ReceiveJoin(s)
        BY <2>2 DEF Receive, ReceiveUserRequest, ReceiveOrgRequest
    <2>4. PICK v \in Users, c \in Clients, o \in Orgs :
            Accept(s, v, [Arrival("join", v, RoleForOrg(v, c, o), o) EXCEPT !.role = "CONTRIBUTOR_PENDING"])
        BY <2>3 DEF ReceiveJoin
    <2>5. r = [Arrival("join", v, RoleForOrg(v, c, o), o) EXCEPT !.role = "CONTRIBUTOR_PENDING"]
        BY <1>3, <2>1, <2>4
    <2>6. r.target = v /\ r.org = o /\ r.authz = RoleForOrg(v, c, o)
        BY <2>5 DEF Arrival
    <2> QED  BY <1>4, <2>6, NoRoleFound DEF IndInv, TypeOK
<1>5. RowsFor(r.target, r.org)' = RowsFor(r.target, r.org)
    BY <1>1 DEF RowsFor
<1>6. StillTrue(req[s])'
    BY <1>1, <1>3, <1>4, <1>5
    DEF StillTrue, NoRoleYet, MergesCurrent, Removable, GivesRole, RowsFor, IsSuperAdmin
<1> QED  BY <1>2, <1>6, TheSlot

LEMMA JoinSerial ==
    ASSUME IndInv, SerialInv, NEW s \in Slots, OthersStill(s), JoinStep(s)
    PROVE  SerialInv'
<1>1. CASE JoinCheck(s)
    <2>1. req[s].pc = "check" /\ req[s].op = "join" /\ GoodRequest(req[s]) /\ StillTrue(req[s])
        BY <1>1, BusySlot DEF JoinCheck, At, SerialInv, Idle
    <2>2. Tidy'
        BY <1>1, TablesTidy DEF JoinCheck, SerialInv
    <2>3. CASE MayJoin(req[s]) /\ Goto(s, "link")
        <3>1. RowsFor(req[s].target, req[s].org) = {} /\ accounts[req[s].org].state # "unused"
            BY <2>1, <2>3 DEF StillTrue, NoRoleYet, MayJoin, AccountExists
        <3>2. /\ req'[s].pc = "link" /\ req'[s].op = "join"
              /\ req'[s].org = req[s].org /\ req'[s].target = req[s].target
            BY <2>1, <2>3, Moved
        <3>3. StillTrue(req[s])'
            BY <1>1, <3>1, <3>2
            DEF JoinCheck, StillTrue, NoRoleYet, MergesCurrent, Removable, RowsFor
        <3> QED  BY <2>2, <3>3, TheSlot
    <2> QED  BY <1>1, <2>2, <2>3, Answered DEF JoinCheck
<1>2. CASE JoinLink(s)
    <2>1. req[s].pc = "link" /\ req[s].op = "join" /\ GoodRequest(req[s]) /\ StillTrue(req[s])
        BY <1>2, BusySlot DEF JoinLink, At, SerialInv, Idle
    <2>2. UNCHANGED <<fga, toolAuth, accounts>>
        BY <1>2 DEF JoinLink, CreateLink, fgaVars, crmVars
    <2>3. Tidy'
        BY <2>2, TablesTidy DEF SerialInv
    <2>4. CASE Fail(s)
        BY <2>1, <2>3, <2>4, GotoSettled DEF Fail, Settled
    <2>5. CASE req' = [req EXCEPT ![s].pc = "create_role",
                                  ![s].undo = Append(@, "delete_relationship")]
        <3>1. req'[s] = [req[s] EXCEPT !.pc = "create_role", !.undo = Append(@, "delete_relationship")]
            BY <2>5 DEF IndInv, TypeOK, RequestsTypeOK
        <3>2. /\ req'[s].pc = "create_role" /\ req'[s].op = "join"
              /\ req'[s].org = req[s].org /\ req'[s].target = req[s].target
            BY <2>1, <3>1 DEF GoodRequest, Request
        <3>3. RowsFor(req[s].target, req[s].org) = {} /\ accounts[req[s].org].state # "unused"
            BY <2>1 DEF StillTrue, NoRoleYet, GivesRole
        <3>4. StillTrue(req[s])'
            BY <2>2, <3>2, <3>3
            DEF StillTrue, NoRoleYet, MergesCurrent, Removable, RowsFor
        <3> QED  BY <2>3, <3>4, TheSlot
    <2> QED  BY <1>2, <2>4, <2>5 DEF JoinLink
<1>3. CASE JoinCreateRole(s)
    <2>1. /\ req[s].pc = "create_role" /\ req[s].op = "join" /\ GoodRequest(req[s])
          /\ StillTrue(req[s])
        BY <1>3, BusySlot DEF JoinCreateRole, At, SerialInv, Idle
    <2>2. /\ RowsFor(req[s].target, req[s].org) = {} /\ accounts[req[s].org].state # "unused"
          /\ req[s].target \in Users /\ req[s].org \in Orgs
        BY <2>1 DEF StillTrue, NoRoleYet, GivesRole, GoodRequest, Request, SoundRequest, SoundArrival
    <2>3. CASE \E i \in FreshIds : CreateRow(i, req[s].target, req[s].org, req[s].role)
        <3>1. Tidy'
            BY <1>3, <2>2, <2>3, RowWritten DEF SerialInv, JoinCreateRole
        <3> QED  BY <1>3, <2>1, <3>1, GotoSettled DEF JoinCreateRole, Settled, Fail
    <2>4. CASE Fail(s) /\ UNCHANGED fgaVars
        <3>1. Tidy'
            BY <1>3, <2>4, TablesTidy DEF SerialInv, JoinCreateRole, fgaVars, crmVars
        <3> QED  BY <2>1, <2>4, <3>1, GotoSettled DEF Settled, Fail
    <2> QED  BY <1>3, <2>3, <2>4 DEF JoinCreateRole
<1>4. CASE JoinNotify(s)
    <2>1. req[s].pc # "idle"
        BY <1>4 DEF JoinNotify, At
    <2>2. Tidy'
        BY <1>4, TablesTidy DEF JoinNotify, SerialInv
    <2> QED  BY <1>4, <2>1, <2>2, Answered, GotoSettled DEF JoinNotify, Settled, Fail
<1> QED  BY <1>1, <1>2, <1>3, <1>4 DEF JoinStep

LEMMA UpdateSerial ==
    ASSUME IndInv, SerialInv, NEW s \in Slots, OthersStill(s), UpdateStep(s)
    PROVE  SerialInv'
<1> DEFINE Open == accounts[req[s].org].state # "unused"
<1>1. req[s].op = "update" /\ GoodRequest(req[s]) /\ StillTrue(req[s])
    <2>1. req[s].op = "update" /\ req[s].pc # "idle"
        BY DEF UpdateStep, UpdateCheck, UpdateReadLink, UpdateRepairLink, UpdateReadRole,
           UpdateCreateRole, UpdateMerge, At
    <2> QED  BY <2>1, BusySlot DEF SerialInv, Idle
<1>2. req[s].target \in Users /\ req[s].org \in Orgs
    BY <1>1 DEF GoodRequest, Request, SoundRequest, SoundArrival
<1>3. ASSUME UNCHANGED <<fga, toolAuth, accounts>>, Open, req[s].pc # "idle",
             NEW label \in {"read_link", "repair_link", "read_role"}, Goto(s, label)
      PROVE  SerialInv'
    <2>1. /\ req'[s].pc = label /\ req'[s].op = "update" /\ req'[s].org = req[s].org
        BY <1>1, <1>3, Moved
    <2>2. StillTrue(req[s])'
        BY <1>3, <2>1 DEF StillTrue, NoRoleYet, MergesCurrent, Removable
    <2> QED  BY <1>3, <2>2, TablesTidy, TheSlot DEF SerialInv
<1>4. CASE UpdateCheck(s)
    <2>1. MayUpdateRole(req[s]) => Open
        BY DEF MayUpdateRole, AccountExists
    <2> QED
        BY <1>3, <1>4, <2>1, Answered, TablesTidy DEF UpdateCheck, At, SerialInv
<1>5. CASE UpdateReadLink(s)
    <2>1. Open
        BY <1>1, <1>5 DEF UpdateReadLink, At, StillTrue, GivesRole
    <2> QED  BY <1>3, <1>5, <2>1 DEF UpdateReadLink, AfterReadLink, At
<1>6. CASE UpdateRepairLink(s)
    <2>1. Open
        BY <1>1, <1>6 DEF UpdateRepairLink, At, StillTrue, GivesRole
    <2>2. UNCHANGED <<fga, toolAuth, accounts>>
        BY <1>6 DEF UpdateRepairLink, CreateLink, fgaVars, crmVars
    <2> QED  BY <1>3, <1>6, <2>1, <2>2, Answered, TablesTidy DEF UpdateRepairLink, At, SerialInv
<1>7. CASE UpdateReadRole(s)
    <2> DEFINE rows == RowsFor(req[s].target, req[s].org)
    <2>1. Open /\ req[s].pc = "read_role"
        BY <1>1, <1>7 DEF UpdateReadRole, At, StillTrue, GivesRole
    <2>2. Tidy'
        BY <1>7, TablesTidy DEF UpdateReadRole, SerialInv
    <2>3. CASE Answer(s)
        BY <2>2, <2>3, Answered
    <2>4. CASE rows = {} /\ Goto(s, "create_role")
        <3>1. /\ req'[s].pc = "create_role" /\ req'[s].op = "update"
              /\ req'[s].org = req[s].org /\ req'[s].target = req[s].target
            BY <1>1, <2>1, <2>4, Moved
        <3>2. StillTrue(req[s])'
            BY <1>7, <2>1, <2>4, <3>1
            DEF UpdateReadRole, StillTrue, NoRoleYet, MergesCurrent, Removable, RowsFor
        <3> QED  BY <2>2, <3>2, TheSlot
    <2>5. ASSUME NEW row \in rows, row.role # req[s].role, ~RolesForOrgConflict(req[s].target, req[s].org),
                 req' = [req EXCEPT ![s].pc = "merge",
                                    ![s].held = {[row EXCEPT !.role = req[s].role]}]
          PROVE  SerialInv'
        <3>1. row \in Rows /\ \A x \in rows : x = row
            BY <2>5 DEF RolesForOrgConflict, RowsFor, IndInv, TypeOK, FgaTypeOK
        <3>2. req'[s] = [req[s] EXCEPT !.pc = "merge", !.held = {[row EXCEPT !.role = req[s].role]}]
            BY <2>5 DEF IndInv, TypeOK, RequestsTypeOK
        <3>3. /\ req'[s].pc = "merge" /\ req'[s].op = "update"
              /\ req'[s].org = req[s].org /\ req'[s].target = req[s].target
              /\ req'[s].held = {[row EXCEPT !.role = req[s].role]}
            BY <1>1, <3>2 DEF GoodRequest, Request
        <3>4. \A h \in req'[s].held : h.id = row.id /\ h.role = req[s].role
            BY <3>1, <3>3 DEF Rows
        <3>5. RowsFor(req[s].target, req[s].org)' = rows
            BY <1>7, <3>3 DEF UpdateReadRole, RowsFor
        <3>6. MergesCurrent(req[s])'
            <4> HIDE DEF rows
            <4> QED  BY <2>5, <3>1, <3>4, <3>5 DEF MergesCurrent
        <3>7. StillTrue(req[s])'
            BY <1>7, <2>1, <3>3, <3>6 DEF UpdateReadRole, StillTrue, NoRoleYet, Removable
        <3> QED  BY <2>2, <3>7, TheSlot
    <2> HIDE DEF rows
    <2> QED  BY <1>7, <2>3, <2>4, <2>5 DEF UpdateReadRole, rows
<1>8. CASE UpdateCreateRole(s)
    <2>1. RowsFor(req[s].target, req[s].org) = {} /\ Open
        BY <1>1, <1>8 DEF UpdateCreateRole, At, StillTrue, NoRoleYet, GivesRole
    <2>2. Tidy'
        BY <1>2, <1>8, <2>1, RowWritten DEF UpdateCreateRole, SerialInv
    <2> QED  BY <1>8, <2>2, Answered DEF UpdateCreateRole
<1>9. CASE UpdateMerge(s)
    <2>1. /\ \A x \in RowsFor(req[s].target, req[s].org), h \in req[s].held : x.id = h.id
          /\ Open
        BY <1>1, <1>9 DEF UpdateMerge, At, StillTrue, MergesCurrent, GivesRole
    <2>2. \A h \in req[s].held : h \in Rows /\ h.user = req[s].target /\ h.org = req[s].org
        BY <1>1 DEF GoodRequest, Request, SoundRequest, SoundHeld
    <2>3. Tidy'
        BY <1>9, <2>1, <2>2, MergeTidy DEF UpdateMerge, SerialInv
    <2> QED  BY <1>9, <2>3, Answered DEF UpdateMerge
<1> QED  BY <1>4, <1>5, <1>6, <1>7, <1>8, <1>9 DEF UpdateStep

\* Counting more than one row is finding another one.
LEMMA NotTheOnlyOne ==
    ASSUME NEW S, NEW x \in S, Cardinality(S) # 1
    PROVE  S # {x}
BY FS_Singleton

LEMMA RemoveSerial ==
    ASSUME IndInv, SerialInv, NEW s \in Slots, OthersStill(s), RemoveStep(s)
    PROVE  SerialInv'
<1>1. req[s].op = "remove" /\ req[s].pc # "idle" /\ GoodRequest(req[s]) /\ StillTrue(req[s])
    <2>1. req[s].op = "remove" /\ req[s].pc # "idle"
        BY DEF RemoveStep, RemoveCheck, RemoveReadRole, RemoveReadOrg, RemoveDelete, At
    <2> QED  BY <2>1, BusySlot DEF SerialInv, Idle
<1>2. CASE RemoveCheck(s)
    <2>1. Tidy'
        BY <1>2, TablesTidy DEF RemoveCheck, SerialInv
    <2>2. CASE Goto(s, "read_role")
        <3>1. req'[s].pc = "read_role" /\ req'[s].op = "remove"
            BY <1>1, <2>2, Moved
        <3>2. StillTrue(req[s])'
            BY <3>1 DEF StillTrue, NoRoleYet, MergesCurrent, Removable, GivesRole
        <3> QED  BY <2>1, <3>2, TheSlot
    <2> QED  BY <1>2, <2>1, <2>2, Answered DEF RemoveCheck
<1>3. CASE RemoveReadRole(s)
    <2> DEFINE rows == RowsFor(req[s].target, req[s].org)
    <2>1. Tidy'
        BY <1>3, TablesTidy DEF RemoveReadRole, SerialInv
    <2>2. CASE req' = [req EXCEPT ![s].pc = "read_org", ![s].held = rows]
        <3> HIDE DEF rows
        <3>1. req'[s] = [req[s] EXCEPT !.pc = "read_org", !.held = rows]
            BY <2>2 DEF IndInv, TypeOK, RequestsTypeOK
        <3>2. /\ req'[s].pc = "read_org" /\ req'[s].op = "remove" /\ req'[s].held = rows
              /\ req'[s].org = req[s].org /\ req'[s].target = req[s].target
            BY <1>1, <3>1 DEF GoodRequest, Request
        <3>3. RowsFor(req[s].target, req[s].org)' = rows
            BY <1>3, <3>2 DEF RemoveReadRole, RowsFor, rows
        <3>4. StillTrue(req[s])'
            BY <3>2, <3>3 DEF StillTrue, NoRoleYet, MergesCurrent, Removable, GivesRole
        <3> QED  BY <2>1, <3>4, TheSlot
    <2> QED  BY <1>3, <2>1, <2>2, Answered DEF RemoveReadRole
<1>4. CASE RemoveReadOrg(s)
    <2>1. Tidy'
        BY <1>4, TablesTidy DEF RemoveReadOrg, SerialInv
    <2>2. CASE /\ \A row \in req[s].held : LeavesMember(row) /\ LeavesAdmin(row)
               /\ Goto(s, "delete")
        <3>1. req[s].held = RowsFor(req[s].target, req[s].org)
            BY <1>1, <1>4 DEF RemoveReadOrg, At, StillTrue, Removable
        <3>2. ASSUME NEW x \in RowsFor(req[s].target, req[s].org)
              PROVE  /\ RowsOfOrg(req[s].org) # {x}
                     /\ x.role = "ADMIN" => AdminRows(req[s].org) # {x}
            <4>1. x.org = req[s].org /\ x \in RowsOfOrg(req[s].org)
                BY DEF RowsFor, RowsOfOrg
            <4>2. Cardinality(RowsOfOrg(req[s].org)) > 1
                BY <2>2, <3>1, <4>1 DEF LeavesMember
            <4>3. RowsOfOrg(req[s].org) # {x}
                <5>1. \A n : n > 1 => n # 1  OBVIOUS
                <5> QED  BY <4>1, <4>2, <5>1, NotTheOnlyOne
            <4>4. x.role = "ADMIN" => Cardinality(AdminRows(req[s].org)) # 1 /\ x \in AdminRows(req[s].org)
                BY <2>2, <3>1, <4>1 DEF LeavesAdmin, AdminRows, RowsFor
            <4> QED  BY <4>3, <4>4, NotTheOnlyOne
        <3>3. /\ req'[s].pc = "delete" /\ req'[s].op = "remove"
              /\ req'[s].org = req[s].org /\ req'[s].target = req[s].target
            BY <1>1, <2>2, Moved
        <3>4. Removable(req[s])'
            BY <1>4, <3>2, <3>3 DEF RemoveReadOrg, Removable, RowsFor, RowsOfOrg, AdminRows
        <3>5. StillTrue(req[s])'
            BY <3>3, <3>4 DEF StillTrue, NoRoleYet, MergesCurrent, GivesRole
        <3> QED  BY <2>1, <3>5, TheSlot
    <2> QED  BY <1>4, <2>1, <2>2, Answered DEF RemoveReadOrg
<1>5. CASE RemoveDelete(s)
    <2>1. Tidy'
        BY <1>5, DeleteTidy DEF RemoveDelete, SerialInv
    <2> QED  BY <1>5, <2>1, Answered DEF RemoveDelete
<1> QED  BY <1>2, <1>3, <1>4, <1>5 DEF RemoveStep

LEMMA CreateOrgSerial ==
    ASSUME IndInv, SerialInv, NEW s \in Slots, OthersStill(s), CreateOrgStep(s)
    PROVE  SerialInv'
<1>1. req[s].op = "create_org" /\ req[s].pc # "idle" /\ GoodRequest(req[s]) /\ StillTrue(req[s])
    <2>1. req[s].op = "create_org" /\ req[s].pc # "idle"
        BY DEF CreateOrgStep, CreateOrgCheck, CreateOrgAccount, CreateOrgLink, CreateOrgRole,
           CreateOrgContact, At
    <2> QED  BY <2>1, BusySlot DEF SerialInv, Idle
<1>2. CASE CreateOrgCheck(s)
    <2>1. Tidy'
        BY <1>2, TablesTidy DEF CreateOrgCheck, SerialInv
    <2>2. CASE ~NameInUse(req[s].name) /\ Goto(s, "create_account")
        <3>1. /\ req'[s].pc = "create_account" /\ req'[s].op = "create_org"
              /\ req'[s].name = req[s].name
            BY <1>1, <2>2, Moved
        <3>2. ~NameInUse(req[s].name)'
            BY <1>2, <2>2, <3>1 DEF CreateOrgCheck, NameInUse, AccountExists
        <3>3. StillTrue(req[s])'
            BY <3>1, <3>2 DEF StillTrue, NoRoleYet, MergesCurrent, Removable, GivesRole
        <3> QED  BY <2>1, <3>3, TheSlot
    <2> QED  BY <1>2, <2>1, <2>2, Answered DEF CreateOrgCheck
<1>3. CASE CreateOrgAccount(s)
    <2>1. ~NameInUse(req[s].name)
        BY <1>1, <1>3 DEF CreateOrgAccount, At, StillTrue
    <2>2. ASSUME NEW o \in Orgs, CreateAccount(o, req[s].name)
          PROVE  Tidy' /\ RowsOfOrg(o)' = {} /\ accounts'[o].state # "unused"
        BY <1>3, <2>1, <2>2, AccountTidy DEF SerialInv, CreateOrgAccount
    <2>3. CASE Fail(s) /\ UNCHANGED crmVars
        <3>1. Tidy'
            BY <1>3, <2>3, TablesTidy DEF SerialInv, CreateOrgAccount, fgaVars, crmVars
        <3> QED  BY <1>1, <2>3, <3>1, GotoSettled DEF Settled, Fail
    <2>4. ASSUME NEW o \in Orgs, CreateAccount(o, req[s].name),
                 req' = [req EXCEPT ![s].pc = AfterAccount(req[s]), ![s].org = o,
                                    ![s].undo = Append(@, "delete_account")]
          PROVE  SerialInv'
        <3>1. req'[s] = [req[s] EXCEPT !.pc = AfterAccount(req[s]), !.org = o,
                                       !.undo = Append(@, "delete_account")]
            BY <2>4 DEF IndInv, TypeOK, RequestsTypeOK
        <3>2. req'[s].pc \in {"link", "contact"} /\ req'[s].op = "create_org" /\ req'[s].org = o
            BY <1>1, <3>1 DEF GoodRequest, Request, AfterAccount
        <3>3. StillTrue(req[s])'
            BY <2>2, <2>4, <3>2
            DEF StillTrue, NoRoleYet, MergesCurrent, Removable, GivesRole, RowsOfOrg
        <3> QED  BY <2>2, <2>4, <3>3, TheSlot
    <2>5. ASSUME NEW o \in Orgs, CreateAccount(o, req[s].name), Fail(s)
          PROVE  SerialInv'
        BY <1>1, <2>2, <2>5, GotoSettled DEF Settled, Fail
    <2> QED  BY <1>3, <2>3, <2>4, <2>5 DEF CreateOrgAccount
<1>4. CASE CreateOrgLink(s)
    <2>1. req[s].pc = "link"
        BY <1>4 DEF CreateOrgLink, At
    <2>2. UNCHANGED <<fga, toolAuth, accounts>>
        BY <1>4 DEF CreateOrgLink, CreateLink, fgaVars, crmVars
    <2>3. Tidy'
        BY <2>2, TablesTidy DEF SerialInv
    <2>4. CASE Fail(s)
        BY <1>1, <2>3, <2>4, GotoSettled DEF Fail, Settled
    <2>5. CASE req' = [req EXCEPT ![s].pc = "create_role",
                                  ![s].undo = Append(@, "delete_relationship")]
        <3>1. req'[s] = [req[s] EXCEPT !.pc = "create_role", !.undo = Append(@, "delete_relationship")]
            BY <2>5 DEF IndInv, TypeOK, RequestsTypeOK
        <3>2. /\ req'[s].pc = "create_role" /\ req'[s].op = "create_org"
              /\ req'[s].org = req[s].org /\ req'[s].target = req[s].target
            BY <1>1, <3>1 DEF GoodRequest, Request
        <3>3. RowsOfOrg(req[s].org) = {} /\ accounts[req[s].org].state # "unused"
            BY <1>1, <2>1 DEF StillTrue, NoRoleYet, GivesRole
        <3>4. StillTrue(req[s])'
            BY <2>2, <3>2, <3>3
            DEF StillTrue, NoRoleYet, MergesCurrent, Removable, RowsFor, RowsOfOrg
        <3> QED  BY <2>3, <3>4, TheSlot
    <2> QED  BY <1>4, <2>4, <2>5 DEF CreateOrgLink
<1>5. CASE CreateOrgRole(s)
    <2>1. /\ RowsFor(req[s].target, req[s].org) = {} /\ accounts[req[s].org].state # "unused"
          /\ req[s].target \in Users /\ req[s].org \in Orgs
        BY <1>1, <1>5
        DEF CreateOrgRole, At, StillTrue, NoRoleYet, GivesRole, GoodRequest, Request, SoundRequest, SoundArrival
    <2>2. CASE \E i \in FreshIds : CreateRow(i, req[s].target, req[s].org, req[s].role)
        <3>1. Tidy'
            BY <1>5, <2>1, <2>2, RowWritten DEF SerialInv, CreateOrgRole
        <3> QED  BY <1>1, <1>5, <3>1, GotoSettled DEF CreateOrgRole, Settled, Fail
    <2>3. CASE Fail(s) /\ UNCHANGED fgaVars
        <3>1. Tidy'
            BY <1>5, <2>3, TablesTidy DEF SerialInv, CreateOrgRole, fgaVars, crmVars
        <3> QED  BY <1>1, <2>3, <3>1, GotoSettled DEF Settled, Fail
    <2> QED  BY <1>5, <2>2, <2>3 DEF CreateOrgRole
<1>6. CASE CreateOrgContact(s)
    <2>1. Tidy'
        BY <1>6, TablesTidy DEF CreateOrgContact, SerialInv
    <2> QED  BY <1>1, <1>6, <2>1, Answered, GotoSettled DEF CreateOrgContact, Settled, Fail
<1> QED  BY <1>2, <1>3, <1>4, <1>5, <1>6 DEF CreateOrgStep

LEMMA ToolSerial ==
    ASSUME IndInv, SerialInv, NEW s \in Slots, OthersStill(s), ToolStep(s)
    PROVE  SerialInv'
<1>1. GoodRequest(req[s]) /\ StillTrue(req[s]) /\ req[s].pc # "idle" /\ req[s].org \in Orgs
    <2>1. req[s].pc # "idle" /\ req[s].op \in {"authorise", "revoke"}
        BY DEF ToolStep, AuthoriseCheck, AuthoriseWrite, RevokeCheck, RevokeWrite, At
    <2>2. GoodRequest(req[s]) /\ StillTrue(req[s])
        BY <2>1, BusySlot DEF SerialInv, Idle
    <2> QED  BY <2>1, <2>2 DEF GoodRequest, SoundRequest, SoundArrival
<1>2. CASE AuthoriseCheck(s) \/ RevokeCheck(s)
    <2>1. Tidy'
        BY <1>2, TablesTidy DEF AuthoriseCheck, RevokeCheck, SerialInv
    <2>2. CASE Answer(s)
        BY <2>1, <2>2, Answered
    <2>3. CASE /\ Goto(s, "write_tool")
               /\ req[s].op = "authorise" => req[s].tool \notin ToolsOf(req[s].org)
        <3>1. /\ req'[s].pc = "write_tool" /\ req'[s].op = req[s].op
              /\ req'[s].org = req[s].org /\ req'[s].tool = req[s].tool
            BY <1>1, <2>3, Moved
        <3>2. req[s].op = "authorise" => (req[s].tool \notin ToolsOf(req[s].org))'
            BY <1>2, <2>3, <3>1 DEF AuthoriseCheck, RevokeCheck, ToolsOf
        <3>3. StillTrue(req[s])'
            BY <3>1, <3>2 DEF StillTrue, NoRoleYet, MergesCurrent, Removable, GivesRole
        <3> QED  BY <2>1, <3>3, TheSlot
    <2> QED  BY <1>2, <2>2, <2>3 DEF AuthoriseCheck, RevokeCheck, MayAuthorise, At
<1>3. CASE AuthoriseWrite(s) \/ RevokeWrite(s)
    <2>1. req[s].tool \in Tools \cup {NoTool}
        BY <1>1 DEF GoodRequest, Request
    <2>2. AuthoriseWrite(s) => req[s].tool \notin ToolsOf(req[s].org)
        BY <1>1 DEF AuthoriseWrite, At, StillTrue
    <2>3. CASE req[s].tool \in Tools
        <3>1. Tidy'
            BY <1>1, <1>3, <2>2, <2>3, ToolTidy DEF AuthoriseWrite, RevokeWrite, SerialInv
        <3> QED  BY <1>3, <3>1, Answered DEF AuthoriseWrite, RevokeWrite
    <2>4. CASE req[s].tool \notin Tools
        <3>1. toolAuth' = toolAuth /\ fga' = fga
            BY <1>3, <2>4 DEF AuthoriseWrite, RevokeWrite, AuthoriseTool, RevokeTool, IndInv, TypeOK, FgaTypeOK
        <3>2. Tidy'
            BY <1>3, <3>1, TablesTidy DEF AuthoriseWrite, RevokeWrite, crmVars, SerialInv
        <3> QED  BY <1>3, <3>2, Answered DEF AuthoriseWrite, RevokeWrite
    <2> QED  BY <2>3, <2>4
<1> QED  BY <1>2, <1>3 DEF ToolStep

LEMMA EndSerial ==
    ASSUME IndInv, SerialInv, NEW s \in Slots, OthersStill(s),
           Undo(s) \/ UserCallRaises(s) \/ OrgCallRaises(s)
    PROVE  SerialInv'
<1>1. CASE RunUndoAction(s)
    <2>1. req[s].pc = "undo" /\ req[s] \in Request
        BY <1>1, BusySlot DEF RunUndoAction, GoodRequest
    <2>2. Tidy'
        <3>1. CASE DropAccount(req[s].org)
            BY <1>1, <3>1, DropTidy DEF RunUndoAction, SerialInv
        <3>2. CASE DeleteLink(req[s].target, req[s].org)
            BY <1>1, <3>2, TablesTidy DEF RunUndoAction, SerialInv, DeleteLink, fgaVars
        <3> QED  BY <1>1, <3>1, <3>2 DEF RunUndoAction
    <2>3. req'[s] = [req[s] EXCEPT !.undo = Popped(@)]
        BY <1>1 DEF RunUndoAction, IndInv, TypeOK, RequestsTypeOK
    <2>4. req'[s].pc = "undo"
        BY <2>1, <2>3 DEF Request
    <2> QED  BY <2>2, <2>4, IsSettled, TheSlot DEF Settled
<1>2. CASE ~RunUndoAction(s)
    <2>1. Answer(s) /\ UNCHANGED <<fga, toolAuth, accounts, links>>
        BY <1>2 DEF Undo, UndoActionRaises, UndoEnds, UserCallRaises, OrgCallRaises
    <2> QED  BY <2>1, TablesTidy, Answered DEF SerialInv
<1> QED  BY <1>1, <1>2

-----------------------------------------------------------------------------
(* The invariant.                                                          *)

LEMMA InitSerial == Init => SerialInv
<1> SUFFICES ASSUME Init PROVE SerialInv  OBVIOUS
<1>1. PICK id \in [Seed -> RowIds] :
        /\ \A x, y \in Seed : id[x] = id[y] => x = y
        /\ fga = {[id |-> id[x], user |-> x[1], org |-> x[2], role |-> x[3]] : x \in Seed}
    BY DEF Init
<1>2. PICK name \in [SeededOrgs -> Names] :
        /\ \A o, p \in SeededOrgs : name[o] = name[p] => o = p
        /\ accounts = [o \in Orgs |->
                        IF o \in SeededOrgs
                        THEN [state |-> "present", name |-> name[o], discoverable |-> TRUE]
                        ELSE Unused]
    BY DEF Init
<1>3. OneRolePerOrg
    <2>1. \A x, y \in Seed : x[1] = y[1] /\ x[2] = y[2] => x = y
        BY SeedAssumption
    <2> QED  BY <1>1, <2>1 DEF OneRolePerOrg
<1>4. RowsHaveAccounts
    <2>1. \A x \in Seed : x[2] \in Orgs /\ x[2] \in SeededOrgs
        BY SeedAssumption DEF SeededOrgs
    <2> QED  BY <1>1, <1>2, <2>1 DEF RowsHaveAccounts
<1>5. ToolAuthorisedOnce
    BY DEF Init, ToolAuthorisedOnce
<1>6. ShortNamesUnique
    BY <1>2 DEF ShortNamesUnique, AccountExists, Unused
<1> QED  BY <1>3, <1>4, <1>5, <1>6 DEF Init, SerialInv, Tidy

LEMMA NextSerial ==
    ASSUME IndInv, IdsMatch, Apart, SerialInv, [Next]_vars
    PROVE  SerialInv'
<1>1. CASE Crash
    <2>1. Tidy'
        BY <1>1, TablesTidy DEF Crash, SerialInv
    <2> QED  BY <1>1, <2>1 DEF Crash, SerialInv
<1>2. CASE UNCHANGED vars
    BY <1>2 DEF vars, SerialInv, Tidy, OneRolePerOrg, ToolAuthorisedOnce, ShortNamesUnique,
       RowsHaveAccounts, AccountExists, StillTrue, NoRoleYet, MergesCurrent, Removable, GivesRole,
       RowsFor, RowsOfOrg, AdminRows, NameInUse, ToolsOf
<1>3. ASSUME NEW s \in Slots, Step(s)
      PROVE  SerialInv'
    <2>1. OthersStill(s)
        BY <1>3, OthersStillHold
    <2> QED
        BY <1>3, <2>1, JoinSerial, UpdateSerial, RemoveSerial, CreateOrgSerial, ToolSerial, EndSerial
        DEF Step, UserStep, OrgStep
<1>4. ASSUME NEW s \in Slots, Receive(s)
      PROVE  SerialInv'
    BY <1>4, OthersStillHold, ReceiveSerial
<1> QED  BY <1>1, <1>2, <1>3, <1>4 DEF Next

\* Everything that SerialInv holds together, in every reachable state.
THEOREM SerialInvariant == ApartSpec => []SerialInv
<1>1. IndInv /\ IdsMatch /\ Apart /\ SerialInv /\ [Next]_vars => SerialInv'
    BY NextSerial
<1> QED  BY <1>1, InitSerial, Invariant, IdsInvariant, ApartInvariant, PTL DEF Spec

\* Nobody has two roles in an organisation: the handler that writes one has
\* found none, and the one that merges one has found that very row.
THEOREM NobodyHasTwoRoles == ApartSpec => []OneRolePerOrg
<1>1. SerialInv => OneRolePerOrg
    BY DEF SerialInv, Tidy
<1> QED  BY <1>1, SerialInvariant, PTL

\* No tool is authorised twice for an organisation.
THEOREM NoToolTwice == ApartSpec => []ToolAuthorisedOnce
<1>1. SerialInv => ToolAuthorisedOnce
    BY DEF SerialInv, Tidy
<1> QED  BY <1>1, SerialInvariant, PTL

\* No two organisations that can be found share a short name, also when the
\* reply to a creation is lost and the handler does not know of its account.
THEOREM NamesAreUnique == ApartSpec => []ShortNamesUnique
<1>1. SerialInv => ShortNamesUnique
    BY DEF SerialInv, Tidy
<1> QED  BY <1>1, SerialInvariant, PTL

-----------------------------------------------------------------------------
(* Removal.                                                                *)

LEMMA RemovalLeavesStep ==
    ASSUME IndInv, IdsMatch, SerialInv, [Next]_vars, NEW o \in Orgs,
           RowsOfOrg(o)' # RowsOfOrg(o), RowsOfOrg(o)' \subseteq RowsOfOrg(o)
    PROVE  /\ RowsOfOrg(o)' # {}
           /\ AdminRows(o) # {} => AdminRows(o)' # {}
<1>1. PICK x \in RowsOfOrg(o) : x \notin RowsOfOrg(o)'
    OBVIOUS
<1>2. x \in fga /\ x \notin fga' /\ x.org = o
    BY <1>1 DEF RowsOfOrg
<1>3. PICK s \in Slots : \/ JoinCreateRole(s) \/ UpdateCreateRole(s) \/ UpdateMerge(s) \/ RemoveDelete(s)
                         \/ CreateOrgRole(s) \/ AuthoriseWrite(s) \/ RevokeWrite(s)
    BY <1>2, RolesAndToolsChange
<1>4. ~(JoinCreateRole(s) \/ UpdateCreateRole(s) \/ CreateOrgRole(s))
    BY <1>2 DEF JoinCreateRole, UpdateCreateRole, CreateOrgRole, CreateRow, fgaVars
<1>5. ~(AuthoriseWrite(s) \/ RevokeWrite(s))
    BY <1>2 DEF AuthoriseWrite, RevokeWrite, AuthoriseTool, RevokeTool
<1>6. ~UpdateMerge(s)
    <2> SUFFICES ASSUME UpdateMerge(s) PROVE FALSE  OBVIOUS
    <2>1. PICK row \in req[s].held : fga' = {r \in fga : r.id # row.id} \cup {row}
        BY DEF UpdateMerge, MergeRow
    <2>2. row \in Known /\ x \in Known
        BY <1>2 DEF UpdateMerge, At, Idle, Known, Kept
    <2>3. row.org = o
        BY <1>2, <2>1, <2>2 DEF IdsMatch, SamePair
    <2>4. row \in RowsOfOrg(o)
        BY <2>1, <2>3 DEF RowsOfOrg
    <2>5. req[s].op = "update" /\ req[s].pc = "merge" /\ GoodRequest(req[s]) /\ StillTrue(req[s])
        BY BusySlot DEF UpdateMerge, At, SerialInv, Idle
    <2>6. row \in RowsFor(req[s].target, req[s].org)
        BY <2>4, <2>5 DEF RowsOfOrg, RowsFor, GoodRequest, SoundRequest, SoundHeld
    <2> QED  BY <2>5, <2>6 DEF StillTrue, MergesCurrent
<1>7. RemoveDelete(s)
    BY <1>3, <1>4, <1>5, <1>6
<1>8. PICK y \in RowsFor(req[s].target, req[s].org) : fga' = fga \ {y}
    BY <1>2, <1>7 DEF RemoveDelete, DeleteRole
<1>9. y = x /\ req[s].org = o
    BY <1>2, <1>8 DEF RowsFor
<1>10. RowsOfOrg(o) # {x} /\ (x.role = "ADMIN" => AdminRows(o) # {x})
    <2>1. StillTrue(req[s]) /\ req[s].pc = "delete"
        BY <1>7 DEF RemoveDelete, At, SerialInv, Idle
    <2> QED  BY <1>8, <1>9, <2>1 DEF StillTrue, Removable
<1>11. RowsOfOrg(o)' = RowsOfOrg(o) \ {x} /\ AdminRows(o)' = AdminRows(o) \ {x}
    BY <1>8, <1>9 DEF RowsOfOrg, AdminRows
<1>12. x.role # "ADMIN" => x \notin AdminRows(o)
    BY DEF AdminRows
<1> QED  BY <1>1, <1>10, <1>11, <1>12

\* No removal leaves an organisation without members, nor takes its last
\* admin: what was counted is still so when the row is deleted.
THEOREM RemovalLeavesAnAdmin == ApartSpec => RemovalLeavesAdmin
<1>1. IndInv /\ IdsMatch /\ SerialInv /\ [Next]_vars =>
        [\A o \in Orgs :
            RowsOfOrg(o)' # RowsOfOrg(o) /\ RowsOfOrg(o)' \subseteq RowsOfOrg(o) =>
                /\ RowsOfOrg(o)' # {}
                /\ AdminRows(o) # {} => AdminRows(o)' # {}]_vars
    BY RemovalLeavesStep
<1> QED
    BY <1>1, Invariant, IdsInvariant, ApartInvariant, SerialInvariant, PTL DEF Spec, RemovalLeavesAdmin

-----------------------------------------------------------------------------
(* The refinement.  While requests are apart and no call fails, each step  *)
(* of a handler is a step of the registry or changes nothing there: the    *)
(* write that completes an operation is that operation.                    *)

\* Whoever is looked up has a record, or a handler would fail without a fault.
NothingFails == Faults = {} /\ Contacts = Users

\* Somebody has the authority that the request was accepted with.
AuthorityHeld(r) ==
    /\ r.authz = "SUPER_ADMIN" => \E u \in Users : IsSuperAdmin(u)
    /\ r.authz \in DirectRoles => \E x \in RowsOfOrg(r.org) : x.role = r.authz
    /\ r.op = "create_org" => r.authz \notin DirectRoles

\* The creation has an account and its creator has no role yet.
Creating(r) == r.op = "create_org" /\ r.pc \in {"link", "create_role"}

\* The row to merge back gives the role that was asked for.
GivesWhatWasAsked(r) ==
    r.op = "update" /\ r.pc = "merge" => \A h \in r.held : h.role = r.role

\* The request fails nowhere, and what its checks found is still there.
Served(r) ==
    /\ r.pc # "undo"
    /\ AuthorityHeld(r)
    /\ GivesWhatWasAsked(r)
    /\ r.op \in {"join", "update", "remove"} /\ r.pc # "check" => AccountExists(r.org)
    /\ r.op \in {"join", "update"} /\ r.pc # "check" => ~IsToolAdmin(r.target)
    /\ Creating(r) => AccountExists(r.org) /\ RowsOfOrg(r.org) = {}

RowsOpen == \A x \in fga : AccountExists(x.org)

ServedInv == RowsOpen /\ \A s \in Slots : req[s] # Idle => Served(req[s])

\* The same of the requests in the other slots only.
OthersServed(s) == \A t \in Slots : t # s /\ req'[t] # Idle => Served(req[t])'

LEMMA OneServed ==
    ASSUME RowsOpen', NEW s \in Slots, OthersServed(s), req'[s] = Idle \/ Served(req[s])'
    PROVE  ServedInv'
BY DEF ServedInv, OthersServed

LEMMA AnsweredServed ==
    ASSUME IndInv, RowsOpen', NEW s \in Slots, OthersServed(s), Answer(s)
    PROVE  ServedInv'
<1>1. req'[s] = Idle
    BY DEF Answer, IndInv, TypeOK, RequestsTypeOK
<1> QED  BY <1>1, OneServed

LEMMA OpenStays ==
    ASSUME ServedInv, UNCHANGED <<fga, accounts>>
    PROVE  RowsOpen'
BY DEF ServedInv, RowsOpen, AccountExists

\* A step to another label: only what that label asks for is new.
LEMMA OnToServed ==
    ASSUME IndInv, ServedInv, RowsOpen', NEW s \in Slots, OthersServed(s), req[s].pc # "idle",
           req'[s].pc # "undo", req'[s].op = req[s].op, req'[s].target = req[s].target,
           req'[s].authz = req[s].authz, GivesWhatWasAsked(req[s])',
           req'[s].org = req[s].org \/ req[s].authz \notin DirectRoles,
           fga \subseteq fga',
           req[s].op \in {"join", "update", "remove"} => AccountExists(req[s].org)',
           req[s].op \in {"join", "update"} => ~IsToolAdmin(req[s].target),
           Creating(req[s])' => AccountExists(req[s].org)' /\ RowsOfOrg(req[s].org)' = {}
    PROVE  ServedInv'
<1>1. AuthorityHeld(req[s])
    BY DEF ServedInv, Served, Idle
<1>2. AuthorityHeld(req[s])'
    BY <1>1 DEF AuthorityHeld, RowsOfOrg, IsSuperAdmin
<1>3. Served(req[s])'
    BY <1>2 DEF Served, Creating, IsToolAdmin
<1> QED  BY <1>3, OneServed

\* One that touches no record.
LEMMA GotoServed ==
    ASSUME IndInv, ServedInv, NEW s \in Slots, OthersServed(s), req[s].pc # "idle",
           NEW label, label # "undo", Goto(s, label), UNCHANGED <<fga, accounts>>,
           req[s].pc = "check" /\ req[s].op \in {"join", "update", "remove"} => AccountExists(req[s].org),
           req[s].pc = "check" /\ req[s].op \in {"join", "update"} => ~IsToolAdmin(req[s].target),
           req[s].op = "create_org" => label \notin {"link", "create_role"},
           req[s].op = "update" => label # "merge"
    PROVE  ServedInv'
<1>1. /\ req'[s].pc = label /\ req'[s].op = req[s].op /\ req'[s].target = req[s].target
      /\ req'[s].authz = req[s].authz /\ req'[s].org = req[s].org
    BY Moved
<1>2. Served(req[s])
    BY DEF ServedInv, Idle
<1>3. RowsOpen'
    BY OpenStays
<1>4. AccountExists(req[s].org) => AccountExists(req[s].org)'
    BY <1>1 DEF AccountExists
<1> QED  BY <1>1, <1>2, <1>3, <1>4, OnToServed DEF Served, Creating, GivesWhatWasAsked

-----------------------------------------------------------------------------
(* The other requests are served as before.                                *)

\* With nothing undone, an account that is there stays.
LEMMA AccountStays ==
    ASSUME IndInv, ServedInv, NEW s \in Slots, Step(s), NEW o \in Orgs, AccountExists(o)
    PROVE  AccountExists(o)'
<1>1. accounts \in [Orgs -> Account]
    BY DEF IndInv, TypeOK, CrmTypeOK
<1>2. req[s].pc # "undo"
    BY StepIsBusy DEF ServedInv, Served, Idle
<1> QED  BY <1>1, <1>2, AccountsChange DEF CreateAccount, AccountExists

LEMMA OneStaysServed ==
    ASSUME IndInv, IdsMatch, Apart, ServedInv, NEW s \in Slots, Step(s),
           NEW t \in Slots, t # s, req[t] # Idle, req'[t] = req[t], Served(req[t])
    PROVE  Served(req[t])'
<1>1. GoodRequest(req[t])
    BY DEF IndInv, TypeOK, RequestsTypeOK, RequestsSound, GoodRequest
<1>2. CASE req[t].org \in Orgs
    <2> DEFINE o == req[t].org
    <2>1. RowsOfOrg(o)' = RowsOfOrg(o)
        BY <1>2, Bystander
    <2>2. AccountExists(o) => AccountExists(o)'
        BY <1>2, AccountStays
    <2>3. RowsOfOrg(req[t].org)' = RowsOfOrg(req[t].org)
        BY <2>1
    <2>4. AccountExists(req[t].org) => AccountExists(req[t].org)'
        BY <2>2
    <2>5. AuthorityHeld(req[t])'
        BY <2>3 DEF Served, AuthorityHeld, IsSuperAdmin
    <2> QED
        BY <2>3, <2>4, <2>5 DEF Served, GivesWhatWasAsked, Creating, IsToolAdmin
<1>3. CASE req[t].org \notin Orgs
    <2>1. req[t].op = "create_org" /\ req[t].pc \in {"check", "create_account", "undo"}
        BY <1>1, <1>3 DEF GoodRequest, SoundRequest, SoundArrival
    <2> QED
        BY <2>1 DEF Served, AuthorityHeld, GivesWhatWasAsked, Creating, IsSuperAdmin
<1> QED  BY <1>2, <1>3

LEMMA OthersServedStill ==
    ASSUME IndInv, IdsMatch, Apart, ServedInv, NEW s \in Slots, Receive(s) \/ Step(s)
    PROVE  OthersServed(s)
<1> SUFFICES ASSUME NEW t \in Slots, t # s, req'[t] # Idle PROVE Served(req[t])'
    BY DEF OthersServed
<1>1. req'[t] = req[t]
    BY ReceiveOneSlot, StepOneSlot
<1>2. Served(req[t])
    BY <1>1 DEF ServedInv
<1>3. CASE Step(s)
    BY <1>1, <1>2, <1>3, OneStaysServed
<1>4. CASE Receive(s)
    <2>1. UNCHANGED <<fga, accounts>>
        BY <1>4, ReceivedRequest
    <2> QED
        BY <1>1, <1>2, <2>1
        DEF Served, AuthorityHeld, GivesWhatWasAsked, Creating, RowsOfOrg, AccountExists, IsToolAdmin,
            IsSuperAdmin
<1> QED  BY <1>3, <1>4

-----------------------------------------------------------------------------
(* Arrival.                                                                *)

\* Authentication found the authority in the tables.
LEMMA SnapshotHeld ==
    ASSUME FgaTypeOK, NEW u \in Users, NEW c, NEW o
    PROVE  /\ RoleForOrg(u, c, o) = "SUPER_ADMIN" => \E v \in Users : IsSuperAdmin(v)
           /\ RoleForOrg(u, c, o) \in DirectRoles =>
                \E x \in RowsOfOrg(o) : x.role = RoleForOrg(u, c, o)
<1>1. CASE IsSuperAdmin(u)
    BY <1>1 DEF RoleForOrg, DirectRoles
<1>2. CASE ~IsSuperAdmin(u) /\ RowsFor(u, o) # {}
    <2> DEFINE x == CHOOSE r \in RowsFor(u, o) : TRUE
    <2>1. x \in RowsFor(u, o)
        BY <1>2
    <2>2. x \in RowsOfOrg(o) /\ x.role \in DirectRoles
        BY <2>1 DEF RowsFor, RowsOfOrg, FgaTypeOK, Rows
    <2>3. RoleForOrg(u, c, o) \in {"UNKNOWN", x.role}
        BY <1>2 DEF RoleForOrg
    <2> HIDE DEF x
    <2> QED  BY <2>2, <2>3 DEF DirectRoles
<1>3. CASE ~IsSuperAdmin(u) /\ RowsFor(u, o) = {}
    BY <1>3 DEF RoleForOrg, DirectRoles
<1> QED  BY <1>1, <1>2, <1>3

LEMMA ArrivedHeld ==
    ASSUME IndInv, NEW s \in Slots, Receive(s)
    PROVE  AuthorityHeld(req[s])'
<1> FgaTypeOK  BY DEF IndInv, TypeOK
<1>1. ASSUME NEW u \in Users, NEW r, Accept(s, u, r), AuthorityHeld(r), UNCHANGED fga
      PROVE  AuthorityHeld(req[s])'
    <2>1. req'[s] = r
        BY <1>1 DEF Accept, IndInv, TypeOK, RequestsTypeOK
    <2> QED  BY <1>1, <2>1 DEF AuthorityHeld, RowsOfOrg, IsSuperAdmin
<1>2. ASSUME NEW u \in Users, NEW c, NEW o, NEW r, r.authz = RoleForOrg(u, c, o), r.org = o, r.op # "create_org"
      PROVE  AuthorityHeld(r)
    BY <1>2, SnapshotHeld DEF AuthorityHeld
<1>3. CASE ReceiveJoin(s)
    <2>1. PICK u \in Users, c \in Clients, o \in Orgs :
            Accept(s, u, [Arrival("join", u, RoleForOrg(u, c, o), o) EXCEPT !.role = "CONTRIBUTOR_PENDING"])
        BY <1>3 DEF ReceiveJoin
    <2> DEFINE r == [Arrival("join", u, RoleForOrg(u, c, o), o) EXCEPT !.role = "CONTRIBUTOR_PENDING"]
    <2>2. r.authz = RoleForOrg(u, c, o) /\ r.org = o /\ r.op # "create_org"
        BY DEF Arrival
    <2> HIDE DEF r
    <2>3. AuthorityHeld(r)
        BY <1>2, <2>2
    <2> QED  BY <1>1, <1>3, <2>1, <2>3 DEF r, ReceiveJoin
<1>4. CASE ReceiveUpdate(s)
    <2>1. PICK u, target \in Users, c \in Clients, o \in Orgs, role \in AssignableRoles :
            Accept(s, u, [Arrival("update", u, RoleForOrg(u, c, o), o) EXCEPT !.target = target, !.role = role])
        BY <1>4 DEF ReceiveUpdate
    <2> DEFINE r == [Arrival("update", u, RoleForOrg(u, c, o), o) EXCEPT !.target = target, !.role = role]
    <2>2. r.authz = RoleForOrg(u, c, o) /\ r.org = o /\ r.op # "create_org"
        BY DEF Arrival
    <2> HIDE DEF r
    <2>3. AuthorityHeld(r)
        BY <1>2, <2>2
    <2> QED  BY <1>1, <1>4, <2>1, <2>3 DEF r, ReceiveUpdate
<1>5. CASE ReceiveRemove(s)
    <2>1. PICK u, target \in Users, c \in Clients, o \in Orgs :
            Accept(s, u, [Arrival("remove", u, RoleForOrg(u, c, o), o) EXCEPT !.target = target])
        BY <1>5 DEF ReceiveRemove
    <2> DEFINE r == [Arrival("remove", u, RoleForOrg(u, c, o), o) EXCEPT !.target = target]
    <2>2. r.authz = RoleForOrg(u, c, o) /\ r.org = o /\ r.op # "create_org"
        BY DEF Arrival
    <2> HIDE DEF r
    <2>3. AuthorityHeld(r)
        BY <1>2, <2>2
    <2> QED  BY <1>1, <1>5, <2>1, <2>3 DEF r, ReceiveRemove
<1>6. CASE ReceiveCreateOrg(s)
    <2>1. PICK u \in Users, n \in Names :
            Accept(s, u, [Arrival("create_org", u, IF IsSuperAdmin(u) THEN "SUPER_ADMIN" ELSE "NONE", NoOrg)
                            EXCEPT !.role = "ADMIN", !.name = n])
        BY <1>6 DEF ReceiveCreateOrg
    <2> DEFINE r == [Arrival("create_org", u, IF IsSuperAdmin(u) THEN "SUPER_ADMIN" ELSE "NONE", NoOrg)
                        EXCEPT !.role = "ADMIN", !.name = n]
    <2>2. r.authz = IF IsSuperAdmin(u) THEN "SUPER_ADMIN" ELSE "NONE"
        BY DEF Arrival
    <2> HIDE DEF r
    <2>3. AuthorityHeld(r)
        BY <2>2 DEF AuthorityHeld, DirectRoles
    <2> QED  BY <1>1, <1>6, <2>1, <2>3 DEF r, ReceiveCreateOrg
<1>7. CASE ReceiveToolRequest(s)
    <2>1. PICK op \in {"authorise", "revoke"}, u \in Users, c \in Clients, o \in Orgs, t \in Tools :
            Accept(s, u, [Arrival(op, u, RoleForOrg(u, c, o), o) EXCEPT !.tool = t])
        BY <1>7 DEF ReceiveToolRequest
    <2> DEFINE r == [Arrival(op, u, RoleForOrg(u, c, o), o) EXCEPT !.tool = t]
    <2>2. r.authz = RoleForOrg(u, c, o) /\ r.org = o /\ r.op # "create_org"
        BY DEF Arrival
    <2> HIDE DEF r
    <2>3. AuthorityHeld(r)
        BY <1>2, <2>2
    <2> QED  BY <1>1, <1>7, <2>1, <2>3 DEF r, ReceiveToolRequest
<1> QED
    BY <1>3, <1>4, <1>5, <1>6, <1>7 DEF Receive, ReceiveUserRequest, ReceiveOrgRequest

LEMMA ReceiveServed ==
    ASSUME IndInv, ServedInv, NEW s \in Slots, OthersServed(s), Receive(s)
    PROVE  ServedInv'
<1>1. PICK u, r : Accept(s, u, r) /\ r.pc = "check" /\ UNCHANGED <<fga, toolAuth, accounts, links>>
    BY ReceivedRequest
<1>2. req'[s] = r
    BY <1>1 DEF Accept, IndInv, TypeOK, RequestsTypeOK
<1>3. AuthorityHeld(req[s])'
    BY ArrivedHeld
<1>4. Served(req[s])'
    BY <1>1, <1>2, <1>3 DEF Served, Creating, GivesWhatWasAsked
<1> QED  BY <1>1, <1>4, OneServed, OpenStays

-----------------------------------------------------------------------------
(* The handlers, with no call failing.                                     *)

\* A row for an organisation that is there.
LEMMA RowOpen ==
    ASSUME ServedInv, NEW i, NEW u, NEW o, NEW role, CreateRow(i, u, o, role), AccountExists(o),
           UNCHANGED crmVars
    PROVE  RowsOpen' /\ fga \subseteq fga'
BY DEF ServedInv, RowsOpen, CreateRow, crmVars, AccountExists

LEMMA RecordedFields ==
    ASSUME NEW r \in Request, NEW label, NEW list
    PROVE  LET n == [r EXCEPT !.pc = label, !.undo = list]
           IN  /\ n.pc = label /\ n.op = r.op /\ n.target = r.target
               /\ n.authz = r.authz /\ n.org = r.org
BY DEF Request

\* The relationship is made and its undo action recorded.
LEMMA LinkedRequest ==
    ASSUME IndInv, NEW s \in Slots, req[s].pc # "idle",
           req' = [req EXCEPT ![s].pc = "create_role", ![s].undo = Append(@, "delete_relationship")]
    PROVE  /\ req'[s].pc = "create_role" /\ req'[s].op = req[s].op /\ req'[s].target = req[s].target
           /\ req'[s].authz = req[s].authz /\ req'[s].org = req[s].org
<1>1. req[s] \in Request
    BY BusySlot DEF GoodRequest
<1>2. PICK list : req'[s] = [req[s] EXCEPT !.pc = "create_role", !.undo = list]
    BY DEF IndInv, TypeOK, RequestsTypeOK
<1> DEFINE n == [req[s] EXCEPT !.pc = "create_role", !.undo = list]
<1>3. /\ n.pc = "create_role" /\ n.op = req[s].op /\ n.target = req[s].target
      /\ n.authz = req[s].authz /\ n.org = req[s].org
    BY <1>1, RecordedFields
<1> HIDE DEF n
<1> QED  BY <1>2, <1>3 DEF n

LEMMA JoinServed ==
    ASSUME NothingFails, IndInv, ServedInv, NEW s \in Slots, OthersServed(s), JoinStep(s)
    PROVE  ServedInv'
<1>1. req[s].pc # "idle" /\ req[s].op = "join" /\ Served(req[s]) /\ GoodRequest(req[s])
    BY BusySlot DEF JoinStep, JoinCheck, JoinLink, JoinCreateRole, JoinNotify, At, Idle, ServedInv
<1>2. CASE JoinCheck(s)
    <2>1. RowsOpen'
        BY <1>2, OpenStays DEF JoinCheck
    <2> QED  BY <1>1, <1>2, <2>1, GotoServed, AnsweredServed DEF JoinCheck, MayJoin
<1>3. CASE JoinLink(s)
    <2>1. AccountExists(req[s].org) /\ ~IsToolAdmin(req[s].target)
        BY <1>1, <1>3 DEF JoinLink, At, Served
    <2>2. /\ req' = [req EXCEPT ![s].pc = "create_role", ![s].undo = Append(@, "delete_relationship")]
          /\ UNCHANGED <<fga, accounts>>
        BY <1>3, <2>1 DEF JoinLink, NothingFails, CreateLink, fgaVars
    <2>3. /\ req'[s].pc = "create_role" /\ req'[s].op = "join" /\ req'[s].target = req[s].target
          /\ req'[s].authz = req[s].authz /\ req'[s].org = req[s].org
        BY <1>1, <2>2, LinkedRequest
    <2>4. RowsOpen' /\ AccountExists(req[s].org)'
        BY <2>1, <2>2, <2>3, OpenStays DEF AccountExists
    <2> QED  BY <1>1, <2>1, <2>2, <2>3, <2>4, OnToServed DEF Creating, GivesWhatWasAsked
<1>4. CASE JoinCreateRole(s)
    <2>1. AccountExists(req[s].org) /\ ~IsToolAdmin(req[s].target)
        BY <1>1, <1>4 DEF JoinCreateRole, At, Served
    <2>2. PICK i \in FreshIds : CreateRow(i, req[s].target, req[s].org, req[s].role)
        BY <1>4 DEF JoinCreateRole, NothingFails
    <2>3. Goto(s, "notify") /\ UNCHANGED crmVars
        BY <1>4 DEF JoinCreateRole, NothingFails
    <2>4. /\ req'[s].pc = "notify" /\ req'[s].op = "join" /\ req'[s].target = req[s].target
          /\ req'[s].authz = req[s].authz /\ req'[s].org = req[s].org
        BY <1>1, <2>3, Moved
    <2>5. RowsOpen' /\ fga \subseteq fga'
        BY <2>1, <2>2, <2>3, RowOpen
    <2>6. AccountExists(req[s].org)'
        BY <2>1, <2>3, <2>4 DEF AccountExists, crmVars
    <2> QED  BY <1>1, <2>1, <2>4, <2>5, <2>6, OnToServed DEF Creating, GivesWhatWasAsked
<1>5. CASE JoinNotify(s)
    <2>1. AdminsHaveContacts(req[s].org)
        BY DEF AdminsHaveContacts, NothingFails, AdminRows, IndInv, TypeOK, FgaTypeOK, Rows
    <2>2. Answer(s) /\ RowsOpen'
        BY <1>5, <2>1, OpenStays DEF JoinNotify, NothingFails
    <2> QED  BY <2>2, AnsweredServed
<1> QED  BY <1>2, <1>3, <1>4, <1>5 DEF JoinStep

\* A role written over another in the same organisation.
LEMMA MergedOpen ==
    ASSUME ServedInv, NEW row, MergeRow(row), AccountExists(row.org), UNCHANGED crmVars
    PROVE  RowsOpen'
BY DEF ServedInv, RowsOpen, MergeRow, crmVars, AccountExists

LEMMA UpdateServed ==
    ASSUME NothingFails, IndInv, ServedInv, NEW s \in Slots, OthersServed(s), UpdateStep(s)
    PROVE  ServedInv'
<1>1. req[s].pc # "idle" /\ req[s].op = "update" /\ Served(req[s]) /\ GoodRequest(req[s])
    BY BusySlot DEF UpdateStep, UpdateCheck, UpdateReadLink, UpdateRepairLink, UpdateReadRole,
       UpdateCreateRole, UpdateMerge, At, Idle, ServedInv
<1>2. req[s].pc # "check" => AccountExists(req[s].org) /\ ~IsToolAdmin(req[s].target)
    BY <1>1 DEF Served
<1>3. CASE UpdateCheck(s) \/ UpdateReadLink(s)
    <2>1. UNCHANGED <<fga, accounts>>
        BY <1>3 DEF UpdateCheck, UpdateReadLink
    <2>2. RowsOpen'
        BY <2>1, OpenStays
    <2> QED
        BY <1>1, <1>3, <2>1, <2>2, GotoServed, AnsweredServed
        DEF UpdateCheck, MayUpdateRole, UpdateReadLink, AfterReadLink, At
<1>4. CASE UpdateRepairLink(s)
    <2>1. UNCHANGED <<fga, accounts>>
        BY <1>4 DEF UpdateRepairLink, CreateLink, fgaVars, crmVars
    <2>2. RowsOpen'
        BY <2>1, OpenStays
    <2> QED
        BY <1>1, <1>4, <2>1, <2>2, GotoServed, AnsweredServed DEF UpdateRepairLink, At
<1>5. CASE UpdateReadRole(s)
    <2>1. UNCHANGED <<fga, accounts>> /\ req[s].pc # "check"
        BY <1>5 DEF UpdateReadRole, At
    <2>2. RowsOpen'
        BY <2>1, OpenStays
    <2>3. ASSUME NEW row \in Rows, req' = [req EXCEPT ![s].pc = "merge", ![s].held = {[row EXCEPT !.role = req[s].role]}]
          PROVE  ServedInv'
        <3>1. req'[s] = [req[s] EXCEPT !.pc = "merge", !.held = {[row EXCEPT !.role = req[s].role]}]
            BY <2>3 DEF IndInv, TypeOK, RequestsTypeOK
        <3>2. /\ req'[s].pc = "merge" /\ req'[s].op = "update" /\ req'[s].target = req[s].target
              /\ req'[s].authz = req[s].authz /\ req'[s].org = req[s].org
            BY <1>1, <3>1 DEF GoodRequest, Request
        <3>3. GivesWhatWasAsked(req[s])'
            <4>1. [row EXCEPT !.role = req[s].role].role = req[s].role
                BY DEF Rows
            <4> DEFINE h == [row EXCEPT !.role = req[s].role]
            <4>2. h.role = req[s].role
                BY <4>1
            <4> HIDE DEF h
            <4>3. req'[s].held = {h} /\ req'[s].role = req[s].role
                BY <1>1, <3>1 DEF GoodRequest, Request, h
            <4> QED  BY <4>2, <4>3 DEF GivesWhatWasAsked
        <3>4. AccountExists(req[s].org)'
            BY <1>2, <2>1, <3>2 DEF AccountExists
        <3> QED  BY <1>1, <1>2, <2>1, <2>2, <3>2, <3>3, <3>4, OnToServed DEF Creating
    <2>4. RowsFor(req[s].target, req[s].org) \subseteq Rows
        BY DEF RowsFor, IndInv, TypeOK, FgaTypeOK
    <2> QED
        BY <1>1, <1>5, <2>1, <2>2, <2>3, <2>4, GotoServed, AnsweredServed DEF UpdateReadRole
<1>6. CASE UpdateCreateRole(s)
    <2>1. RowsOpen'
        BY <1>2, <1>6, RowOpen DEF UpdateCreateRole, At
    <2> QED  BY <1>6, <2>1, AnsweredServed DEF UpdateCreateRole
<1>7. CASE UpdateMerge(s)
    <2>1. PICK row \in req[s].held : MergeRow(row)
        BY <1>7 DEF UpdateMerge
    <2>2. row.org = req[s].org /\ req[s].pc = "merge" /\ UNCHANGED crmVars /\ Answer(s)
        BY <1>1, <1>7, <2>1 DEF GoodRequest, SoundRequest, SoundHeld, UpdateMerge, At
    <2>3. RowsOpen'
        BY <1>2, <2>1, <2>2, MergedOpen
    <2> QED  BY <2>2, <2>3, AnsweredServed
<1> QED  BY <1>3, <1>4, <1>5, <1>6, <1>7 DEF UpdateStep

LEMMA RemoveServed ==
    ASSUME NothingFails, IndInv, ServedInv, NEW s \in Slots, OthersServed(s), RemoveStep(s)
    PROVE  ServedInv'
<1>1. req[s].pc # "idle" /\ req[s].op = "remove" /\ Served(req[s]) /\ GoodRequest(req[s])
    BY BusySlot DEF RemoveStep, RemoveCheck, RemoveReadRole, RemoveReadOrg, RemoveDelete, At, Idle,
       ServedInv
<1>2. CASE RemoveCheck(s) \/ RemoveReadOrg(s)
    <2>1. UNCHANGED <<fga, accounts>>
        BY <1>2 DEF RemoveCheck, RemoveReadOrg
    <2>2. RowsOpen'
        BY <2>1, OpenStays
    <2> QED
        BY <1>1, <1>2, <2>1, <2>2, GotoServed, AnsweredServed
        DEF RemoveCheck, MayRemove, RemoveReadOrg, At
<1>3. CASE RemoveReadRole(s)
    <2>1. UNCHANGED <<fga, accounts>> /\ AccountExists(req[s].org)
        BY <1>1, <1>3 DEF RemoveReadRole, At, Served
    <2>2. RowsOpen'
        BY <2>1, OpenStays
    <2>3. ASSUME NEW kept, req' = [req EXCEPT ![s].pc = "read_org", ![s].held = kept]
          PROVE  ServedInv'
        <3>1. req'[s] = [req[s] EXCEPT !.pc = "read_org", !.held = kept]
            BY <2>3 DEF IndInv, TypeOK, RequestsTypeOK
        <3>2. /\ req'[s].pc = "read_org" /\ req'[s].op = "remove" /\ req'[s].target = req[s].target
              /\ req'[s].authz = req[s].authz /\ req'[s].org = req[s].org
            BY <1>1, <3>1 DEF GoodRequest, Request
        <3>3. AccountExists(req[s].org)'
            BY <2>1, <3>2 DEF AccountExists
        <3> QED  BY <1>1, <2>1, <2>2, <3>2, <3>3, OnToServed DEF Creating, GivesWhatWasAsked
    <2> QED  BY <1>3, <2>2, <2>3, AnsweredServed DEF RemoveReadRole
<1>4. CASE RemoveDelete(s)
    <2>1. fga' \subseteq fga /\ UNCHANGED accounts
        BY <1>4 DEF RemoveDelete, DeleteRole, crmVars
    <2>2. RowsOpen'
        BY <2>1 DEF ServedInv, RowsOpen, AccountExists
    <2> QED  BY <1>4, <2>2, AnsweredServed DEF RemoveDelete
<1> QED  BY <1>2, <1>3, <1>4 DEF RemoveStep

LEMMA CreateOrgServed ==
    ASSUME NothingFails, IndInv, ServedInv, NEW s \in Slots, OthersServed(s), CreateOrgStep(s)
    PROVE  ServedInv'
<1> req[s].pc # "idle" /\ req[s].op = "create_org"
    BY DEF CreateOrgStep, CreateOrgCheck, CreateOrgAccount, CreateOrgLink, CreateOrgRole,
       CreateOrgContact, At
<1>1. req[s].pc # "idle" /\ req[s].op = "create_org" /\ Served(req[s]) /\ GoodRequest(req[s])
    BY BusySlot DEF Idle, ServedInv
<1>2. CASE CreateOrgCheck(s)
    <2>1. RowsOpen'
        BY <1>2, OpenStays DEF CreateOrgCheck
    <2> QED  BY <1>1, <1>2, <2>1, GotoServed, AnsweredServed DEF CreateOrgCheck
<1>3. CASE CreateOrgAccount(s)
    <2>1. PICK o \in Orgs :
            /\ CreateAccount(o, req[s].name)
            /\ req' = [req EXCEPT ![s].pc = AfterAccount(req[s]), ![s].org = o,
                                  ![s].undo = Append(@, "delete_account")]
        BY <1>3 DEF CreateOrgAccount, NothingFails
    <2> DEFINE list == Append(req[s].undo, "delete_account")
               label == AfterAccount(req[s])
    <2>2. req'[s] = [req[s] EXCEPT !.pc = label, !.org = o, !.undo = list]
        BY <2>1 DEF IndInv, TypeOK, RequestsTypeOK
    <2> HIDE DEF list, label
    <2>3. /\ req'[s].pc = label /\ req'[s].op = "create_org" /\ req'[s].org = o
          /\ req'[s].target = req[s].target /\ req'[s].authz = req[s].authz
        BY <1>1, <2>2 DEF GoodRequest, Request
    <2>4. fga' = fga
        BY <1>3 DEF CreateOrgAccount, fgaVars
    <2>5. \A p \in Orgs : AccountExists(p)' <=> p = o \/ AccountExists(p)
        BY <2>1 DEF CreateAccount, AccountExists, IndInv, TypeOK, CrmTypeOK
    <2>6. \A x \in fga : x.org \in Orgs
        BY DEF IndInv, TypeOK, FgaTypeOK, Rows
    <2>7. RowsOpen'
        <3>1. \A x \in fga : AccountExists(x.org)'
            BY <2>5, <2>6 DEF ServedInv, RowsOpen
        <3> QED  BY <2>4, <3>1 DEF RowsOpen, AccountExists
    <2>8. RowsOfOrg(o) = {}
        BY <2>1 DEF CreateAccount, AccountExists, ServedInv, RowsOpen, RowsOfOrg
    <2>9. RowsOfOrg(req[s].org)' = {}
        BY <2>3, <2>4, <2>8 DEF RowsOfOrg
    <2>10. accounts'[o].state = "present"
        BY <2>5 DEF AccountExists
    <2>11. AccountExists(req[s].org)'
        BY <2>3, <2>10 DEF AccountExists
    <2>12. AuthorityHeld(req[s])'
        BY <1>1, <2>3 DEF Served, AuthorityHeld, IsSuperAdmin
    <2> QED  BY <2>3, <2>7, <2>9, <2>11, <2>12, OneServed DEF Served, Creating, AfterAccount, label, GivesWhatWasAsked
<1>4. CASE CreateOrgLink(s)
    <2>1. AccountExists(req[s].org) /\ RowsOfOrg(req[s].org) = {}
        BY <1>1, <1>4 DEF CreateOrgLink, At, Served, Creating
    <2>2. /\ req' = [req EXCEPT ![s].pc = "create_role", ![s].undo = Append(@, "delete_relationship")]
          /\ UNCHANGED <<fga, accounts>>
        BY <1>4 DEF CreateOrgLink, NothingFails, CreateLink, fgaVars
    <2>3. /\ req'[s].pc = "create_role" /\ req'[s].op = "create_org" /\ req'[s].target = req[s].target
          /\ req'[s].authz = req[s].authz /\ req'[s].org = req[s].org
        BY <1>1, <2>2, LinkedRequest
    <2>4. RowsOpen' /\ AccountExists(req[s].org)' /\ RowsOfOrg(req[s].org)' = {}
        BY <2>1, <2>2, <2>3, OpenStays DEF AccountExists, RowsOfOrg
    <2> QED  BY <1>1, <2>1, <2>2, <2>3, <2>4, OnToServed DEF Creating, GivesWhatWasAsked
<1>5. CASE CreateOrgRole(s)
    <2>1. AccountExists(req[s].org)
        BY <1>1, <1>5 DEF CreateOrgRole, At, Served, Creating
    <2>2. PICK i \in FreshIds : CreateRow(i, req[s].target, req[s].org, req[s].role)
        BY <1>5 DEF CreateOrgRole, NothingFails
    <2>3. Goto(s, "contact") /\ UNCHANGED crmVars
        BY <1>5 DEF CreateOrgRole, NothingFails
    <2>4. /\ req'[s].pc = "contact" /\ req'[s].op = "create_org" /\ req'[s].target = req[s].target
          /\ req'[s].authz = req[s].authz /\ req'[s].org = req[s].org
        BY <1>1, <2>3, Moved
    <2>5. RowsOpen' /\ fga \subseteq fga'
        BY <2>1, <2>2, <2>3, RowOpen
    <2> QED  BY <1>1, <2>4, <2>5, OnToServed DEF Creating, GivesWhatWasAsked
<1>6. CASE CreateOrgContact(s)
    <2>1. req[s].target \in Contacts
        BY <1>1 DEF NothingFails, GoodRequest, Request
    <2>2. Answer(s) /\ RowsOpen'
        BY <1>6, <2>1, OpenStays DEF CreateOrgContact, NothingFails
    <2> QED  BY <2>2, AnsweredServed
<1> QED  BY <1>2, <1>3, <1>4, <1>5, <1>6 DEF CreateOrgStep

LEMMA EndServed ==
    ASSUME NothingFails, IndInv, ServedInv, NEW s \in Slots, OthersServed(s),
           ToolStep(s) \/ Undo(s) \/ OrgCallRaises(s) \/ UserCallRaises(s)
    PROVE  ServedInv'
<1>1. ToolStep(s)
    BY DEF NothingFails, OrgCallRaises, UserCallRaises, Undo, RunUndoAction, UndoActionRaises, UndoEnds,
       ServedInv, Served, Idle
<1>2. UNCHANGED <<fga, accounts>> /\ req[s].op \in {"authorise", "revoke"} /\ req[s].pc # "idle"
    BY <1>1 DEF ToolStep, AuthoriseCheck, AuthoriseWrite, RevokeCheck, RevokeWrite, AuthoriseTool,
       RevokeTool, crmVars, At
<1>3. RowsOpen'
    BY <1>2, OpenStays
<1> QED
    BY <1>1, <1>2, <1>3, GotoServed, AnsweredServed
    DEF ToolStep, AuthoriseCheck, AuthoriseWrite, RevokeCheck, RevokeWrite

LEMMA InitServed == Init => ServedInv
<1> SUFFICES ASSUME Init PROVE ServedInv  OBVIOUS
<1>1. \A o \in SeededOrgs : o \in Orgs
    BY SeedAssumption DEF SeededOrgs
<1>2. \A o \in SeededOrgs : AccountExists(o)
    BY <1>1 DEF Init, AccountExists
<1>3. \A x \in fga : x.org \in SeededOrgs
    BY DEF Init, SeededOrgs
<1> QED  BY <1>2, <1>3 DEF Init, ServedInv, RowsOpen

LEMMA NextServed ==
    ASSUME NothingFails, IndInv, IdsMatch, Apart, ServedInv, [Next]_vars
    PROVE  ServedInv'
<1>1. ~Crash
    BY DEF Crash, NothingFails
<1>2. CASE UNCHANGED vars
    BY <1>2 DEF vars, ServedInv, RowsOpen, AccountExists, Served, Creating, AuthorityHeld, RowsOfOrg,
       IsToolAdmin, IsSuperAdmin, GivesWhatWasAsked
<1>3. ASSUME NEW s \in Slots, Step(s)
      PROVE  ServedInv'
    <2>1. OthersServed(s)
        BY <1>3, OthersServedStill
    <2> QED
        BY <1>3, <2>1, JoinServed, UpdateServed, RemoveServed, CreateOrgServed, EndServed
        DEF Step, UserStep, OrgStep
<1>4. ASSUME NEW s \in Slots, Receive(s)
      PROVE  ServedInv'
    BY <1>4, OthersServedStill, ReceiveServed
<1> QED  BY <1>1, <1>2, <1>3, <1>4 DEF Next

LEMMA ServedInvariant ==
    ASSUME NothingFails
    PROVE  ApartSpec => []ServedInv
<1>1. IndInv /\ IdsMatch /\ Apart /\ ServedInv /\ [Next]_vars => ServedInv'
    BY NextServed
<1> QED  BY <1>1, InitServed, Invariant, IdsInvariant, ApartInvariant, PTL DEF Spec

-----------------------------------------------------------------------------
(* What the registry sees.                                                 *)

OpenOrgs == {o \in Orgs : AccountExists(o) /\ ~BeingCreated(o)}

Role == [u \in Users |-> [o \in Orgs |-> RoleOf(u, o)]]

Allowed == {x \in Tools \X Orgs : toolAuth[x[1]][x[2]] > 0}

LEMMA RolesSeen ==
    ASSUME IndInv, OneRolePerOrg
    PROVE  /\ \A u \in Users, o \in Orgs :
                /\ RoleOf(u, o) \in DirectRoles \cup {"NONE"}
                /\ RoleOf(u, o) = "NONE" <=> RowsFor(u, o) = {}
           /\ \A x \in fga : RoleOf(x.user, x.org) = x.role
<1>1. fga \subseteq Rows
    BY DEF IndInv, TypeOK, FgaTypeOK
<1>2. ASSUME NEW u, NEW o, NEW x \in RowsFor(u, o)
      PROVE  RoleOf(u, o) = x.role
    <2>1. (CHOOSE r \in RowsFor(u, o) : TRUE) \in RowsFor(u, o)
        OBVIOUS
    <2>2. (CHOOSE r \in RowsFor(u, o) : TRUE) = x
        BY <2>1 DEF RowsFor, OneRolePerOrg
    <2> QED  BY <2>2 DEF RoleOf
<1>3. \A u, o : RowsFor(u, o) = {} => RoleOf(u, o) = "NONE"
    BY DEF RoleOf
<1>4. \A u, o : \A x \in RowsFor(u, o) : x.role \in DirectRoles
    BY <1>1 DEF RowsFor, Rows
<1>5. "NONE" \notin DirectRoles
    BY DEF DirectRoles
<1>6. \A x \in fga : x \in RowsFor(x.user, x.org)
    BY DEF RowsFor
<1> QED  BY <1>2, <1>3, <1>4, <1>5, <1>6

\* Only the request in s changes.
OthersSame(s) == \A t \in Slots : t # s => req'[t] = req[t]

LEMMA StepLeavesOthers ==
    ASSUME IndInv, NEW s \in Slots, Receive(s) \/ Step(s)
    PROVE  OthersSame(s)
BY ReceiveOneSlot, StepOneSlot DEF OthersSame

\* Another slot is creating o.
Elsewhere(s, o) == \E t \in Slots : t # s /\ req[t] # Idle /\ Creating(req[t]) /\ req[t].org = o

\* The creations there are, seen from one slot.
LEMMA TheCreations ==
    ASSUME NEW s \in Slots
    PROVE  \A o : BeingCreated(o) <=>
                \/ req[s] # Idle /\ Creating(req[s]) /\ req[s].org = o
                \/ Elsewhere(s, o)
BY DEF BeingCreated, Creating, Elsewhere

LEMMA TheCreationsNext ==
    ASSUME NEW s \in Slots, OthersSame(s)
    PROVE  \A o : BeingCreated(o)' <=>
                \/ req'[s] # Idle /\ Creating(req[s])' /\ req'[s].org = o
                \/ Elsewhere(s, o)
BY DEF BeingCreated, Creating, Elsewhere, OthersSame

LEMMA SameCreations ==
    ASSUME NEW s \in Slots, OthersSame(s),
           req[s] = Idle \/ ~Creating(req[s]), req'[s] = Idle \/ ~Creating(req[s])'
    PROVE  \A o : BeingCreated(o)' <=> BeingCreated(o)
BY TheCreations, TheCreationsNext

\* No other slot is creating the organisation that this one is about.
LEMMA NotElsewhere ==
    ASSUME Apart, NEW s \in Slots, req[s] # Idle, req[s].org \in Orgs
    PROVE  ~Elsewhere(s, req[s].org)
BY DEF Apart, InTheWay, Elsewhere

LEMMA SameOpen ==
    ASSUME UNCHANGED accounts, \A o : BeingCreated(o)' <=> BeingCreated(o)
    PROVE  OpenOrgs' = OpenOrgs
BY DEF OpenOrgs, AccountExists

LEMMA NoCreation ==
    ASSUME UNCHANGED accounts, NEW s \in Slots, OthersSame(s),
           req[s] = Idle \/ ~Creating(req[s]), req'[s] = Idle \/ ~Creating(req[s])'
    PROVE  OpenOrgs' = OpenOrgs
BY SameCreations, SameOpen

LEMMA SameRoles ==
    ASSUME UNCHANGED fga
    PROVE  Role' = Role
BY DEF Role, RoleOf, RowsFor

\* The role that a set of rows stands for.
FirstRole(rows) == IF rows = {} THEN "NONE" ELSE (CHOOSE r \in rows : TRUE).role

\* One role is set.
LEMMA RoleSet ==
    ASSUME NEW u \in Users, NEW o \in Orgs, NEW role, RoleOf(u, o)' = role,
           \A v, p : v # u \/ p # o => RowsFor(v, p)' = RowsFor(v, p)
    PROVE  Role' = [Role EXCEPT ![u][o] = role]
<1>1. \A v, p : /\ RoleOf(v, p) = FirstRole(RowsFor(v, p))
               /\ RoleOf(v, p)' = FirstRole(RowsFor(v, p)')
    BY DEF RoleOf, FirstRole
<1>2. \A v, p : v # u \/ p # o => RoleOf(v, p)' = RoleOf(v, p)
    BY <1>1
<1> QED  BY <1>2 DEF Role

\* A step that the registry does not see.
LEMMA Unseen ==
    ASSUME OpenOrgs' = OpenOrgs, UNCHANGED <<fga, toolAuth>>
    PROVE  UNCHANGED Registry!registryVars
BY SameRoles DEF Registry!registryVars, OpenOrgs, Role, Allowed

-----------------------------------------------------------------------------
(* The registry's operations, in terms of the tables.                      *)

RegistryStep == [Registry!RegistryNext]_(Registry!registryVars)

LEMMA Asked ==
    ASSUME NEW u \in Users, NEW o \in OpenOrgs, ~IsSuperAdmin(u), ~IsToolAdmin(u), Role[u][o] = "NONE",
           Role' = [Role EXCEPT ![u][o] = "CONTRIBUTOR_PENDING"],
           OpenOrgs' = OpenOrgs, UNCHANGED toolAuth
    PROVE  RegistryStep
<1>1. o \in Orgs
    BY DEF OpenOrgs
<1>2. Registry!AskToJoin(u, o)
    BY DEF Registry!AskToJoin, Registry!SetRole, Registry!Members, OpenOrgs, Role, Allowed, IsToolAdmin,
       IsSuperAdmin
<1> QED  BY <1>1, <1>2 DEF RegistryStep, Registry!RegistryNext

LEMMA Given ==
    ASSUME NEW by \in Users, NEW u \in Users, NEW o \in OpenOrgs,
           IsSuperAdmin(by) \/ Role[by][o] = "ADMIN",
           ~IsSuperAdmin(u), ~IsToolAdmin(u), NEW r \in AssignableRoles,
           Role' = [Role EXCEPT ![u][o] = r],
           OpenOrgs' = OpenOrgs, UNCHANGED toolAuth
    PROVE  RegistryStep
<1>1. o \in Orgs
    BY DEF OpenOrgs
<1>2. Registry!GiveRole(by, u, o, r)
    BY DEF Registry!GiveRole, Registry!SetRole, Registry!MayManageUsers, OpenOrgs, Role, Allowed, IsToolAdmin,
       IsSuperAdmin, AssignableRoles
<1> QED  BY <1>1, <1>2 DEF RegistryStep, Registry!RegistryNext, Registry!MemberRoles, AssignableRoles

LEMMA Taken ==
    ASSUME NEW by \in Users, NEW u \in Users, NEW o \in OpenOrgs,
           IsSuperAdmin(by) \/ Role[by][o] = "ADMIN",
           Role[u][o] # "NONE",
           {v \in Users : Role[v][o] # "NONE"} # {u},
           {v \in Users : Role[v][o] = "ADMIN"} # {u},
           Role' = [Role EXCEPT ![u][o] = "NONE"],
           OpenOrgs' = OpenOrgs, UNCHANGED toolAuth
    PROVE  RegistryStep
<1>1. o \in Orgs
    BY DEF OpenOrgs
<1>2. Registry!TakeRole(by, u, o)
    BY DEF Registry!TakeRole, Registry!SetRole, Registry!MayManageUsers, Registry!Members, Registry!Admins,
       OpenOrgs, Role, Allowed, IsSuperAdmin
<1> QED  BY <1>1, <1>2 DEF RegistryStep, Registry!RegistryNext

LEMMA ToolLetIn ==
    ASSUME NEW by \in Users, NEW t \in Tools, NEW o \in Orgs,
           IsSuperAdmin(by) \/ Role[by][o] \in {"ADMIN", "EDITOR"},
           <<t, o>> \notin Allowed, Allowed' = Allowed \cup {<<t, o>>},
           OpenOrgs' = OpenOrgs, UNCHANGED fga
    PROVE  RegistryStep
<1>1. Registry!LetIn(by, t, o)
    BY SameRoles DEF Registry!LetIn, Registry!MayManageTools, OpenOrgs, Role, Allowed, IsSuperAdmin
<1> QED  BY <1>1 DEF RegistryStep, Registry!RegistryNext

LEMMA ToolShutOut ==
    ASSUME NEW by \in Users, NEW t \in Tools, NEW o \in Orgs,
           IsSuperAdmin(by) \/ Role[by][o] \in {"ADMIN", "EDITOR"},
           <<t, o>> \in Allowed, Allowed' = Allowed \ {<<t, o>>},
           OpenOrgs' = OpenOrgs, UNCHANGED fga
    PROVE  RegistryStep
<1>1. Registry!ShutOut(by, t, o)
    BY SameRoles DEF Registry!ShutOut, Registry!MayManageTools, OpenOrgs, Role, Allowed, IsSuperAdmin
<1> QED  BY <1>1 DEF RegistryStep, Registry!RegistryNext

LEMMA Registered ==
    ASSUME NEW u \in Users, NEW o \in Orgs, o \notin OpenOrgs,
           \A v \in Users : Role[v][o] = "NONE",
           IsSuperAdmin(u) => Role' = Role,
           ~IsSuperAdmin(u) => Role' = [Role EXCEPT ![u][o] = "ADMIN"],
           OpenOrgs' = OpenOrgs \cup {o}, UNCHANGED toolAuth
    PROVE  RegistryStep
<1>1. Registry!Register(u, o)
    BY DEF Registry!Register, Registry!SetRole, Registry!Members, OpenOrgs, Role, Allowed, IsSuperAdmin
<1> QED  BY <1>1 DEF RegistryStep, Registry!RegistryNext

-----------------------------------------------------------------------------
(* The steps that the registry does not see.                               *)

\* Everything but a creation.
LEMMA QuietHandler ==
    ASSUME IndInv, NEW s \in Slots, OthersSame(s), req[s].pc # "idle", req[s].op # "create_org",
           UNCHANGED accounts, Answer(s) \/ req'[s].op = req[s].op
    PROVE  OpenOrgs' = OpenOrgs
<1>1. req'[s] = Idle \/ req'[s].op # "create_org"
    BY DEF Answer, IndInv, TypeOK, RequestsTypeOK
<1> QED  BY <1>1, NoCreation DEF Creating

LEMMA QuietStep ==
    ASSUME IndInv, NEW s \in Slots, OthersSame(s), req[s].pc # "idle", req[s].op # "create_org",
           UNCHANGED <<fga, toolAuth, accounts>>, Answer(s) \/ req'[s].op = req[s].op
    PROVE  RegistryStep
BY QuietHandler, Unseen DEF RegistryStep

LEMMA ReceiveQuiet ==
    ASSUME IndInv, NEW s \in Slots, Receive(s)
    PROVE  RegistryStep
<1>1. PICK u, r : Accept(s, u, r) /\ r.pc = "check" /\ UNCHANGED <<fga, toolAuth, accounts, links>>
    BY ReceivedRequest
<1>2. req[s] = Idle /\ req'[s].pc = "check"
    <2>1. req[s] = Idle
        BY DEF Receive, ReceiveUserRequest, ReceiveOrgRequest, ReceiveJoin, ReceiveUpdate, ReceiveRemove,
               ReceiveCreateOrg, ReceiveToolRequest
    <2>2. req'[s].pc = "check"
        BY <1>1 DEF Accept, IndInv, TypeOK, RequestsTypeOK
    <2> QED
        BY <2>1, <2>2
<1>3. OpenOrgs' = OpenOrgs
    BY <1>1, <1>2, StepLeavesOthers, NoCreation DEF Creating
<1> QED  BY <1>1, <1>3, Unseen DEF RegistryStep

LEMMA NothingSeen ==
    ASSUME UNCHANGED vars
    PROVE  RegistryStep
<1>1. OpenOrgs' = OpenOrgs
    BY SameOpen DEF vars, BeingCreated
<1> QED  BY <1>1, Unseen DEF vars, RegistryStep

-----------------------------------------------------------------------------
(* What the handlers write.                                                *)

\* An organisation that is looked up before it is written about is open.
LEMMA FoundOpen ==
    ASSUME Apart, NEW s \in Slots, req[s].pc # "idle", NEW o \in Orgs, req[s].org = o,
           AccountExists(o), ~Creating(req[s])
    PROVE  o \in OpenOrgs
<1>1. req[s] # Idle
    BY DEF Idle
<1> QED  BY <1>1, NotElsewhere, TheCreations DEF OpenOrgs

\* Who was accepted as an admin, there is one.
LEMMA AnAdmin ==
    ASSUME IndInv, OneRolePerOrg, NEW r, r.org \in Orgs, AuthorityHeld(r), CanModifyUserRoles(r.authz)
    PROVE  \E by \in Users : IsSuperAdmin(by) \/ Role[by][r.org] = "ADMIN"
<1>1. r.authz \in {"ADMIN", "SUPER_ADMIN"}
    BY DEF CanModifyUserRoles, Can, Permissions
<1>2. CASE r.authz = "SUPER_ADMIN"
    BY <1>2 DEF AuthorityHeld
<1>3. CASE r.authz = "ADMIN"
    <2>1. PICK x \in RowsOfOrg(r.org) : x.role = "ADMIN"
        BY <1>3 DEF AuthorityHeld, DirectRoles
    <2>2. x.user \in Users /\ Role[x.user][r.org] = "ADMIN"
        BY <2>1, RolesSeen DEF RowsOfOrg, Role, IndInv, TypeOK, FgaTypeOK, Rows
    <2> QED  BY <2>2
<1> QED  BY <1>1, <1>2, <1>3

LEMMA AnEditor ==
    ASSUME IndInv, OneRolePerOrg, NEW r, r.org \in Orgs, AuthorityHeld(r),
           CanUpdateToolAuthorisations(r.authz)
    PROVE  \E by \in Users : IsSuperAdmin(by) \/ Role[by][r.org] \in {"ADMIN", "EDITOR"}
<1>1. r.authz \in {"ADMIN", "EDITOR", "SUPER_ADMIN"}
    BY DEF CanUpdateToolAuthorisations, Permissions
<1>2. CASE r.authz = "SUPER_ADMIN"
    BY <1>2 DEF AuthorityHeld
<1>3. CASE r.authz \in {"ADMIN", "EDITOR"}
    <2>1. PICK x \in RowsOfOrg(r.org) : x.role = r.authz
        BY <1>3 DEF AuthorityHeld, DirectRoles
    <2>2. x.user \in Users /\ Role[x.user][r.org] \in {"ADMIN", "EDITOR"}
        BY <1>3, <2>1, RolesSeen DEF RowsOfOrg, Role, IndInv, TypeOK, FgaTypeOK, Rows
    <2> QED  BY <2>2
<1> QED  BY <1>1, <1>2, <1>3

LEMMA RowAdded ==
    ASSUME NEW u \in Users, NEW o \in Orgs, NEW role, RowsFor(u, o) = {},
           \E i \in FreshIds : CreateRow(i, u, o, role)
    PROVE  Role' = [Role EXCEPT ![u][o] = role]
<1> PICK i \in FreshIds : CreateRow(i, u, o, role)
    OBVIOUS
<1> DEFINE n == [id |-> i, user |-> u, org |-> o, role |-> role]
<1>1. n.user = u /\ n.org = o /\ n.role = role /\ fga' = fga \cup {n}
    BY DEF CreateRow
<1> HIDE DEF n
<1>2. RowsFor(u, o)' = {n}
    BY <1>1 DEF RowsFor
<1>3. RoleOf(u, o)' = role
    BY <1>1, <1>2 DEF RoleOf
<1>4. \A v, p : v # u \/ p # o => RowsFor(v, p)' = RowsFor(v, p)
    BY <1>1 DEF RowsFor
<1> QED  BY <1>3, <1>4, RoleSet

LEMMA RowMerged ==
    ASSUME NEW u \in Users, NEW o \in Orgs, NEW h, h.user = u, h.org = o, MergeRow(h),
           \A x \in fga : x.id = h.id <=> x.user = u /\ x.org = o
    PROVE  Role' = [Role EXCEPT ![u][o] = h.role]
<1>1. RowsFor(u, o)' = {h}
    BY DEF RowsFor, MergeRow
<1>2. RoleOf(u, o)' = h.role
    BY <1>1 DEF RoleOf
<1>3. \A v, p : v # u \/ p # o => RowsFor(v, p)' = RowsFor(v, p)
    BY DEF RowsFor, MergeRow
<1> QED  BY <1>2, <1>3, RoleSet

LEMMA RowDropped ==
    ASSUME OneRolePerOrg, NEW u \in Users, NEW o \in Orgs, NEW x \in RowsFor(u, o), fga' = fga \ {x}
    PROVE  Role' = [Role EXCEPT ![u][o] = "NONE"]
<1>1. RowsFor(u, o)' = {}
    BY DEF RowsFor, OneRolePerOrg
<1>2. RoleOf(u, o)' = "NONE"
    BY <1>1 DEF RoleOf
<1>3. \A v, p : v # u \/ p # o => RowsFor(v, p)' = RowsFor(v, p)
    BY DEF RowsFor
<1> QED  BY <1>2, <1>3, RoleSet

-----------------------------------------------------------------------------
(* The handlers.                                                           *)

LEMMA JoinRefines ==
    ASSUME NothingFails, Apart, IndInv, SerialInv, ServedInv, NEW s \in Slots, OthersSame(s), JoinStep(s)
    PROVE  RegistryStep
<1>1. /\ req[s].pc # "idle" /\ req[s].op = "join" /\ Served(req[s]) /\ GoodRequest(req[s])
      /\ StillTrue(req[s]) /\ req[s].org \in Orgs /\ req[s].target \in Users
    <2>1. req[s].pc # "idle" /\ req[s].op = "join"
        BY DEF JoinStep, JoinCheck, JoinLink, JoinCreateRole, JoinNotify, At
    <2> QED  BY <2>1, BusySlot DEF Idle, ServedInv, SerialInv, GoodRequest, SoundRequest, SoundArrival, Request
<1>2. CASE JoinCheck(s) \/ JoinNotify(s)
    <2>1. UNCHANGED <<fga, toolAuth, accounts>> /\ req[s].pc # "undo"
        BY <1>2 DEF JoinCheck, JoinNotify, At
    <2>2. Answer(s) \/ Goto(s, "link") \/ Goto(s, "undo")
        BY <1>2 DEF JoinCheck, JoinNotify, Fail
    <2> QED  BY <1>1, <2>1, <2>2, Moved, QuietStep
<1>3. CASE JoinLink(s)
    <2>1. AccountExists(req[s].org)
        BY <1>1, <1>3 DEF JoinLink, At, Served
    <2>2. /\ req' = [req EXCEPT ![s].pc = "create_role", ![s].undo = Append(@, "delete_relationship")]
          /\ UNCHANGED <<fga, toolAuth, accounts>>
        BY <1>3, <2>1 DEF JoinLink, NothingFails, CreateLink, fgaVars
    <2>3. req'[s].op = req[s].op
        BY <1>1, <2>2, LinkedRequest
    <2> QED  BY <1>1, <2>2, <2>3, QuietStep
<1>4. CASE JoinCreateRole(s)
    <2>1. \E i \in FreshIds : CreateRow(i, req[s].target, req[s].org, req[s].role)
        BY <1>4 DEF JoinCreateRole, NothingFails
    <2>2. /\ AccountExists(req[s].org) /\ ~IsToolAdmin(req[s].target) /\ ~IsSuperAdmin(req[s].target)
          /\ RowsFor(req[s].target, req[s].org) = {} /\ req[s].role = "CONTRIBUTOR_PENDING"
        BY <1>1, <1>4
        DEF JoinCreateRole, At, Served, StillTrue, NoRoleYet, GoodRequest, SoundRequest, SoundTarget,
            SoundArrival, GivesRole
    <2>3. Role' = [Role EXCEPT ![req[s].target][req[s].org] = "CONTRIBUTOR_PENDING"]
        BY <1>1, <2>1, <2>2, RowAdded
    <2>4. req[s].org \in OpenOrgs
        BY <1>1, <2>2, FoundOpen DEF Creating
    <2>5. OpenOrgs' = OpenOrgs /\ UNCHANGED toolAuth
        BY <1>1, <1>4, <2>1, Moved, QuietHandler DEF JoinCreateRole, NothingFails, crmVars, CreateRow
    <2>6. Role[req[s].target][req[s].org] = "NONE"
        BY <1>1, <2>2 DEF Role, RoleOf
    <2> QED  BY <1>1, <2>2, <2>3, <2>4, <2>5, <2>6, Asked
<1> QED  BY <1>2, <1>3, <1>4 DEF JoinStep

LEMMA UpdateRefines ==
    ASSUME NothingFails, Apart, IndInv, IdsMatch, SerialInv, ServedInv, NEW s \in Slots, OthersSame(s),
           UpdateStep(s)
    PROVE  RegistryStep
<1>1. /\ req[s].pc # "idle" /\ req[s].op = "update" /\ Served(req[s]) /\ GoodRequest(req[s])
      /\ StillTrue(req[s]) /\ req[s].org \in Orgs /\ req[s].target \in Users
      /\ req[s].role \in AssignableRoles
    <2>1. req[s].pc # "idle" /\ req[s].op = "update"
        BY DEF UpdateStep, UpdateCheck, UpdateReadLink, UpdateRepairLink, UpdateReadRole,
           UpdateCreateRole, UpdateMerge, At
    <2> QED  BY <2>1, BusySlot DEF Idle, ServedInv, SerialInv, GoodRequest, SoundRequest, SoundArrival, Request
<1>2. CASE UpdateCheck(s) \/ UpdateReadLink(s) \/ UpdateRepairLink(s)
    <2>1. UNCHANGED <<fga, toolAuth, accounts>>
        BY <1>2 DEF UpdateCheck, UpdateReadLink, UpdateRepairLink, CreateLink, fgaVars, crmVars
    <2>2. Answer(s) \/ Goto(s, "read_link") \/ Goto(s, "read_role") \/ Goto(s, "repair_link")
        BY <1>2 DEF UpdateCheck, UpdateReadLink, UpdateRepairLink, AfterReadLink
    <2> QED  BY <1>1, <2>1, <2>2, Moved, QuietStep
<1>3. CASE UpdateReadRole(s)
    <2>1. UNCHANGED <<fga, toolAuth, accounts>>
        BY <1>3 DEF UpdateReadRole
    <2>2. ASSUME NEW row, req' = [req EXCEPT ![s].pc = "merge", ![s].held = {[row EXCEPT !.role = req[s].role]}]
          PROVE  req'[s].op = req[s].op
        <3>1. req'[s] = [req[s] EXCEPT !.pc = "merge", !.held = {[row EXCEPT !.role = req[s].role]}]
            BY <2>2 DEF IndInv, TypeOK, RequestsTypeOK
        <3> QED  BY <1>1, <3>1 DEF GoodRequest, Request
    <2>3. Answer(s) \/ Goto(s, "create_role") \/ req'[s].op = req[s].op
        BY <1>3, <2>2 DEF UpdateReadRole
    <2> QED  BY <1>1, <2>1, <2>3, Moved, QuietStep
<1>4. ASSUME UpdateCreateRole(s) \/ UpdateMerge(s),
             NEW role \in AssignableRoles, Role' = [Role EXCEPT ![req[s].target][req[s].org] = role]
      PROVE  RegistryStep
    <2>1. /\ AccountExists(req[s].org) /\ ~IsToolAdmin(req[s].target) /\ ~IsSuperAdmin(req[s].target)
          /\ CanModifyUserRoles(req[s].authz) /\ AuthorityHeld(req[s])
        BY <1>1, <1>4
        DEF UpdateCreateRole, UpdateMerge, At, Served, GoodRequest, SoundRequest, SoundTarget, SoundCaller,
            GivesRole
    <2>2. req[s].org \in OpenOrgs
        BY <1>1, <2>1, FoundOpen DEF Creating
    <2>3. OpenOrgs' = OpenOrgs /\ UNCHANGED toolAuth
        BY <1>1, <1>4, QuietHandler DEF UpdateCreateRole, UpdateMerge, crmVars, CreateRow, MergeRow
    <2>4. OneRolePerOrg
        BY DEF SerialInv, Tidy
    <2>5. PICK by \in Users : IsSuperAdmin(by) \/ Role[by][req[s].org] = "ADMIN"
        BY <1>1, <2>1, <2>4, AnAdmin
    <2> QED  BY <1>1, <1>4, <2>1, <2>2, <2>3, <2>5, Given
<1>5. CASE UpdateCreateRole(s)
    <2>1. \E i \in FreshIds : CreateRow(i, req[s].target, req[s].org, req[s].role)
        BY <1>5 DEF UpdateCreateRole
    <2>2. RowsFor(req[s].target, req[s].org) = {}
        BY <1>1, <1>5 DEF UpdateCreateRole, At, StillTrue, NoRoleYet
    <2>3. req[s].target \in Users /\ req[s].org \in Orgs
        BY <1>1
    <2>4. Role' = [Role EXCEPT ![req[s].target][req[s].org] = req[s].role]
        BY <2>1, <2>2, <2>3, RowAdded
    <2> QED  BY <1>1, <1>4, <1>5, <2>4
<1>6. CASE UpdateMerge(s)
    <2>1. PICK h \in req[s].held : MergeRow(h)
        BY <1>6 DEF UpdateMerge
    <2>2. h.user = req[s].target /\ h.org = req[s].org /\ h.role = req[s].role
        BY <1>1, <1>6 DEF GoodRequest, SoundRequest, SoundHeld, Served, GivesWhatWasAsked, UpdateMerge, At
    <2>3. \A x \in RowsFor(req[s].target, req[s].org) : x.id = h.id
        BY <1>1, <1>6 DEF UpdateMerge, At, StillTrue, MergesCurrent
    <2>4. h \in Known /\ fga \subseteq Known
        BY <1>1 DEF Known, Kept, Idle
    <2>5. \A x \in fga : x.id = h.id <=> x.user = req[s].target /\ x.org = req[s].org
        BY <2>2, <2>3, <2>4 DEF IdsMatch, SamePair, RowsFor
    <2>6. Role' = [Role EXCEPT ![req[s].target][req[s].org] = req[s].role]
        BY <1>1, <2>1, <2>2, <2>5, RowMerged
    <2> QED  BY <1>1, <1>4, <1>6, <2>6
<1> QED  BY <1>2, <1>3, <1>5, <1>6 DEF UpdateStep

LEMMA RemoveRefines ==
    ASSUME NothingFails, Apart, IndInv, SerialInv, ServedInv, NEW s \in Slots, OthersSame(s), RemoveStep(s)
    PROVE  RegistryStep
<1>1. /\ req[s].pc # "idle" /\ req[s].op = "remove" /\ Served(req[s]) /\ GoodRequest(req[s])
      /\ StillTrue(req[s]) /\ req[s].org \in Orgs /\ req[s].target \in Users
    <2>1. req[s].pc # "idle" /\ req[s].op = "remove"
        BY DEF RemoveStep, RemoveCheck, RemoveReadRole, RemoveReadOrg, RemoveDelete, At
    <2> QED  BY <2>1, BusySlot DEF Idle, ServedInv, SerialInv, GoodRequest, SoundRequest, SoundArrival, Request
<1>2. CASE RemoveCheck(s) \/ RemoveReadOrg(s)
    <2>1. UNCHANGED <<fga, toolAuth, accounts>>
        BY <1>2 DEF RemoveCheck, RemoveReadOrg
    <2>2. Answer(s) \/ Goto(s, "read_role") \/ Goto(s, "delete")
        BY <1>2 DEF RemoveCheck, RemoveReadOrg
    <2> QED  BY <1>1, <2>1, <2>2, Moved, QuietStep
<1>3. CASE RemoveReadRole(s)
    <2>1. UNCHANGED <<fga, toolAuth, accounts>>
        BY <1>3 DEF RemoveReadRole
    <2>2. ASSUME NEW kept, req' = [req EXCEPT ![s].pc = "read_org", ![s].held = kept]
          PROVE  req'[s].op = req[s].op
        <3>1. req'[s] = [req[s] EXCEPT !.pc = "read_org", !.held = kept]
            BY <2>2 DEF IndInv, TypeOK, RequestsTypeOK
        <3> QED  BY <1>1, <3>1 DEF GoodRequest, Request
    <2>3. Answer(s) \/ req'[s].op = req[s].op
        BY <1>3, <2>2 DEF RemoveReadRole
    <2> QED  BY <1>1, <2>1, <2>3, QuietStep
<1>4. CASE RemoveDelete(s)
    <2> DEFINE u == req[s].target
               o == req[s].org
    <2>1. UNCHANGED <<toolAuth, accounts>> /\ Answer(s) /\ req[s].pc = "delete"
        BY <1>4 DEF RemoveDelete, DeleteRole, crmVars, At
    <2>2. CASE UNCHANGED fga
        BY <1>1, <2>1, <2>2, QuietStep
    <2>3. ASSUME NEW x \in RowsFor(u, o), fga' = fga \ {x}
          PROVE  RegistryStep
        <3>1. OneRolePerOrg
            BY DEF SerialInv, Tidy
        <3>2. /\ AccountExists(o) /\ CanModifyUserRoles(req[s].authz) /\ AuthorityHeld(req[s])
            BY <1>1, <2>1 DEF Served, GoodRequest, SoundRequest, SoundCaller
        <3>3. o \in OpenOrgs
            BY <1>1, <3>2, FoundOpen DEF Creating
        <3>4. OpenOrgs' = OpenOrgs
            BY <1>1, <2>1, QuietHandler
        <3>5. PICK by \in Users : IsSuperAdmin(by) \/ Role[by][o] = "ADMIN"
            BY <1>1, <3>1, <3>2, AnAdmin
        <3>6. RowsOfOrg(o) # {x} /\ (x.role = "ADMIN" => AdminRows(o) # {x})
            BY <1>1, <2>1, <2>3 DEF StillTrue, Removable
        <3>7. x \in fga /\ x.user = u /\ x.org = o
            BY DEF RowsFor
        <3>8. \A y \in fga : y.org = o => y.user \in Users /\ Role[y.user][o] = y.role /\ y.role # "NONE"
            BY <1>1, <3>1, RolesSeen DEF Role, IndInv, TypeOK, FgaTypeOK, Rows, DirectRoles
        <3>9. Role[u][o] = x.role /\ x.role # "NONE"
            BY <3>7, <3>8
        <3>10. {v \in Users : Role[v][o] # "NONE"} # {u}
            <4>1. PICK y \in RowsOfOrg(o) : y # x
                BY <3>6, <3>7 DEF RowsOfOrg
            <4>2. y \in fga /\ y.org = o /\ y.user # u
                BY <3>1, <3>7, <4>1 DEF RowsOfOrg, OneRolePerOrg
            <4> QED  BY <3>8, <4>2
        <3>11. {v \in Users : Role[v][o] = "ADMIN"} # {u}
            <4>1. CASE x.role # "ADMIN"
                BY <3>9, <4>1
            <4>2. CASE x.role = "ADMIN"
                <5>1. PICK y \in AdminRows(o) : y # x
                    BY <3>6, <3>7, <4>2 DEF AdminRows
                <5>2. y \in fga /\ y.org = o /\ y.role = "ADMIN" /\ y.user # u
                    BY <3>1, <3>7, <5>1 DEF AdminRows, OneRolePerOrg
                <5> QED  BY <3>8, <5>2
            <4> QED  BY <4>1, <4>2
        <3>12. Role' = [Role EXCEPT ![u][o] = "NONE"]
            BY <1>1, <2>3, <3>1, RowDropped
        <3>13. u \in Users /\ Role[u][o] # "NONE" /\ UNCHANGED toolAuth
            BY <1>1, <2>1, <3>9
        <3> HIDE DEF u, o
        <3> QED  BY <3>3, <3>4, <3>5, <3>10, <3>11, <3>12, <3>13, Taken
    <2> QED  BY <1>4, <2>2, <2>3 DEF RemoveDelete, DeleteRole
<1> QED  BY <1>2, <1>3, <1>4 DEF RemoveStep

LEMMA CreateOrgRefines ==
    ASSUME NothingFails, Apart, IndInv, ServedInv, NEW s \in Slots, OthersSame(s), CreateOrgStep(s)
    PROVE  RegistryStep
<1> req[s].pc # "idle" /\ req[s].op = "create_org"
    BY DEF CreateOrgStep, CreateOrgCheck, CreateOrgAccount, CreateOrgLink, CreateOrgRole,
       CreateOrgContact, At
<1>1. Served(req[s]) /\ GoodRequest(req[s]) /\ req[s] # Idle /\ req[s].target \in Users
    BY BusySlot DEF Idle, ServedInv, GoodRequest, Request
<1>2. CASE CreateOrgCheck(s) \/ CreateOrgContact(s)
    <2>1. UNCHANGED <<fga, toolAuth, accounts>> /\ ~Creating(req[s])
        BY <1>2 DEF CreateOrgCheck, CreateOrgContact, At, Creating
    <2>2. Answer(s) \/ Goto(s, "create_account") \/ Goto(s, "undo")
        BY <1>2 DEF CreateOrgCheck, CreateOrgContact, Fail
    <2>3. req'[s] = Idle \/ req'[s].pc \in {"create_account", "undo"}
        BY <2>2, Moved DEF Answer, IndInv, TypeOK, RequestsTypeOK
    <2>4. OpenOrgs' = OpenOrgs
        BY <2>1, <2>3, NoCreation DEF Creating
    <2> QED  BY <2>1, <2>4, Unseen DEF RegistryStep
<1>3. CASE CreateOrgAccount(s)
    <2>1. PICK o \in Orgs :
            /\ CreateAccount(o, req[s].name)
            /\ req' = [req EXCEPT ![s].pc = AfterAccount(req[s]), ![s].org = o,
                                  ![s].undo = Append(@, "delete_account")]
        BY <1>3 DEF CreateOrgAccount, NothingFails
    <2> DEFINE list == Append(req[s].undo, "delete_account")
               label == AfterAccount(req[s])
    <2>2. req'[s] = [req[s] EXCEPT !.pc = label, !.org = o, !.undo = list]
        BY <2>1 DEF IndInv, TypeOK, RequestsTypeOK
    <2> HIDE DEF list, label
    <2>3. req'[s].pc = label /\ req'[s].op = "create_org" /\ req'[s].org = o
        BY <1>1, <2>2 DEF GoodRequest, Request
    <2>4. UNCHANGED <<fga, toolAuth>> /\ req[s].pc = "create_account"
        BY <1>3 DEF CreateOrgAccount, fgaVars, At
    <2>5. ~AccountExists(o) /\ \A p \in Orgs : AccountExists(p)' <=> p = o \/ AccountExists(p)
        BY <2>1 DEF CreateAccount, AccountExists, IndInv, TypeOK, CrmTypeOK
    <2>6. ~Creating(req[s]) /\ ~BeingCreated(o)
        BY <2>4, <2>5 DEF Creating, BeingCreated, ServedInv, Served
    <2>7. CASE req[s].authz = "SUPER_ADMIN"
        <3>1. label = "contact"
            BY <2>7 DEF label, AfterAccount
        <3>2. \A p : BeingCreated(p)' <=> BeingCreated(p)
            BY <2>3, <2>6, <3>1, SameCreations DEF Creating
        <3>3. OpenOrgs' = OpenOrgs \cup {o} /\ o \notin OpenOrgs
            BY <2>5, <2>6, <3>2 DEF OpenOrgs
        <3>4. PICK by \in Users : IsSuperAdmin(by)
            BY <1>1, <2>7 DEF Served, AuthorityHeld
        <3>5. RowsOfOrg(o) = {}
            BY <2>5 DEF ServedInv, RowsOpen, RowsOfOrg
        <3>6. \A v \in Users : Role[v][o] = "NONE"
            BY <3>5 DEF Role, RoleOf, RowsFor, RowsOfOrg
        <3> QED  BY <2>4, <3>3, <3>4, <3>6, SameRoles, Registered
    <2>8. CASE req[s].authz # "SUPER_ADMIN"
        <3>1. label = "link"
            BY <2>8 DEF label, AfterAccount
        <3>2. \A p : BeingCreated(p)' <=> p = o \/ BeingCreated(p)
            BY <2>3, <2>6, <3>1, TheCreations, TheCreationsNext DEF Creating, Idle
        <3>3. OpenOrgs' = OpenOrgs
            BY <2>5, <2>6, <3>2 DEF OpenOrgs
        <3> QED  BY <2>4, <3>3, Unseen DEF RegistryStep
    <2> QED  BY <2>7, <2>8
<1>4. CASE CreateOrgLink(s)
    <2>1. AccountExists(req[s].org) /\ Creating(req[s])
        BY <1>1, <1>4 DEF CreateOrgLink, At, Served, Creating
    <2>2. /\ req' = [req EXCEPT ![s].pc = "create_role", ![s].undo = Append(@, "delete_relationship")]
          /\ UNCHANGED <<fga, toolAuth, accounts>>
        BY <1>4 DEF CreateOrgLink, NothingFails, CreateLink, fgaVars
    <2>3. /\ req'[s].pc = "create_role" /\ req'[s].op = "create_org" /\ req'[s].org = req[s].org
        BY <2>2, LinkedRequest
    <2>4. req'[s] # Idle /\ Creating(req[s])'
        BY <2>3 DEF Creating, Idle
    <2>5. \A p : BeingCreated(p)' <=> BeingCreated(p)
        BY <1>1, <2>1, <2>3, <2>4, TheCreations, TheCreationsNext
    <2> QED  BY <2>2, <2>5, SameOpen, Unseen DEF RegistryStep
<1>5. CASE CreateOrgRole(s)
    <2> DEFINE o == req[s].org
               u == req[s].target
    <2>1. Creating(req[s]) /\ AccountExists(o) /\ RowsOfOrg(o) = {}
        BY <1>1, <1>5 DEF CreateOrgRole, At, Served, Creating
    <2>2. o \in Orgs /\ ~IsSuperAdmin(u) /\ req[s].role = "ADMIN"
        BY <1>1, <1>5
        DEF CreateOrgRole, At, GoodRequest, SoundRequest, SoundTarget, SoundArrival, GivesRole
    <2>3. \E i \in FreshIds : CreateRow(i, u, o, "ADMIN")
        BY <1>5, <2>2 DEF CreateOrgRole, NothingFails
    <2>4. Goto(s, "contact") /\ UNCHANGED <<accounts, toolAuth>>
        BY <1>5 DEF CreateOrgRole, NothingFails, crmVars, CreateRow
    <2>5. req'[s].pc = "contact"
        BY <2>4, Moved
    <2>6. \A p : /\ BeingCreated(p) <=> p = o \/ Elsewhere(s, p)
                 /\ BeingCreated(p)' <=> Elsewhere(s, p)
        BY <1>1, <2>1, <2>5, TheCreations, TheCreationsNext DEF Creating
    <2>7. ~Elsewhere(s, o)
        BY <1>1, <2>2, NotElsewhere
    <2>8. OpenOrgs' = OpenOrgs \cup {o} /\ o \notin OpenOrgs
        BY <2>1, <2>2, <2>4, <2>6, <2>7 DEF OpenOrgs, AccountExists
    <2>9. RowsFor(u, o) = {} /\ \A v \in Users : Role[v][o] = "NONE"
        BY <2>1, <2>2 DEF Role, RoleOf, RowsFor, RowsOfOrg
    <2>10. u \in Users
        BY <1>1
    <2> HIDE DEF o, u
    <2>11. Role' = [Role EXCEPT ![u][o] = "ADMIN"]
        BY <2>2, <2>3, <2>9, <2>10, RowAdded
    <2> QED  BY <2>2, <2>4, <2>8, <2>9, <2>10, <2>11, Registered
<1> QED  BY <1>2, <1>3, <1>4, <1>5 DEF CreateOrgStep

LEMMA ToolRefines ==
    ASSUME IndInv, SerialInv, ServedInv, NEW s \in Slots, OthersSame(s), ToolStep(s)
    PROVE  RegistryStep
<1>1. /\ req[s].pc # "idle" /\ req[s].op \in {"authorise", "revoke"} /\ Served(req[s])
      /\ GoodRequest(req[s]) /\ StillTrue(req[s]) /\ req[s].org \in Orgs
    <2>1. req[s].pc # "idle" /\ req[s].op \in {"authorise", "revoke"}
        BY DEF ToolStep, AuthoriseCheck, AuthoriseWrite, RevokeCheck, RevokeWrite, At
    <2> QED  BY <2>1, BusySlot DEF Idle, ServedInv, SerialInv, GoodRequest, SoundRequest, SoundArrival
<1>2. CASE AuthoriseCheck(s) \/ RevokeCheck(s)
    <2>1. UNCHANGED <<fga, toolAuth, accounts>>
        BY <1>2 DEF AuthoriseCheck, RevokeCheck
    <2>2. Answer(s) \/ Goto(s, "write_tool")
        BY <1>2 DEF AuthoriseCheck, RevokeCheck
    <2> QED  BY <1>1, <2>1, <2>2, Moved, QuietStep
<1>3. CASE AuthoriseWrite(s) \/ RevokeWrite(s)
    <2> DEFINE t == req[s].tool
               o == req[s].org
    <2>1. UNCHANGED <<fga, accounts>> /\ Answer(s) /\ req[s].pc = "write_tool"
        BY <1>3 DEF AuthoriseWrite, RevokeWrite, AuthoriseTool, RevokeTool, crmVars, At
    <2>2. OpenOrgs' = OpenOrgs
        BY <1>1, <2>1, QuietHandler
    <2>3. CASE UNCHANGED toolAuth
        BY <2>1, <2>2, <2>3, Unseen DEF RegistryStep
    <2>4. CASE toolAuth' # toolAuth
        <3>1. t \in Tools
            BY <1>3, <2>4
            DEF AuthoriseWrite, RevokeWrite, AuthoriseTool, RevokeTool, IndInv, TypeOK, FgaTypeOK
        <3>2. OneRolePerOrg /\ AuthorityHeld(req[s]) /\ CanUpdateToolAuthorisations(req[s].authz)
            BY <1>1, <2>1 DEF SerialInv, Tidy, Served, GoodRequest, SoundRequest, SoundCaller
        <3>3. PICK by \in Users : IsSuperAdmin(by) \/ Role[by][o] \in {"ADMIN", "EDITOR"}
            BY <1>1, <3>2, AnEditor
        <3>4. o \in Orgs
            BY <1>1
        <3>5. CASE AuthoriseWrite(s)
            <4>1. t \notin ToolsOf(o)
                BY <1>1, <3>5 DEF AuthoriseWrite, At, StillTrue
            <4>2. toolAuth' = [toolAuth EXCEPT ![t][o] = @ + 1]
                BY <3>5 DEF AuthoriseWrite, AuthoriseTool
            <4> HIDE DEF t, o
            <4>3. <<t, o>> \notin Allowed
                BY <3>1, <4>1 DEF Allowed, ToolsOf
            <4>4. \A v \in Tools, p \in Orgs :
                    toolAuth'[v][p] = IF v = t /\ p = o THEN toolAuth[v][p] + 1 ELSE toolAuth[v][p]
                BY <3>1, <3>4, <4>2 DEF IndInv, TypeOK, FgaTypeOK
            <4>5. \A v \in Tools, p \in Orgs : toolAuth'[v][p] > 0 <=> (v = t /\ p = o) \/ toolAuth[v][p] > 0
                BY <4>4 DEF IndInv, TypeOK, FgaTypeOK
            <4>6. Allowed' = Allowed \cup {<<t, o>>}
                BY <3>1, <3>4, <4>5 DEF Allowed
            <4> QED  BY <2>1, <2>2, <3>1, <3>3, <3>4, <4>3, <4>6, ToolLetIn
        <3>6. CASE RevokeWrite(s)
            <4>1. toolAuth' = [toolAuth EXCEPT ![t][o] = 0]
                BY <3>6 DEF RevokeWrite, RevokeTool
            <4> HIDE DEF t, o
            <4>2. \A v \in Tools, p \in Orgs :
                    toolAuth'[v][p] = IF v = t /\ p = o THEN 0 ELSE toolAuth[v][p]
                BY <3>1, <3>4, <4>1 DEF IndInv, TypeOK, FgaTypeOK
            <4>3. \A v \in Tools, p \in Orgs :
                    toolAuth'[v][p] > 0 <=> toolAuth[v][p] > 0 /\ ~(v = t /\ p = o)
                BY <4>2
            <4>4. Allowed' = Allowed \ {<<t, o>>}
                BY <4>3 DEF Allowed
            <4>5. toolAuth[t][o] \in Nat /\ toolAuth[t][o] # 0
                BY <2>4, <3>1, <3>4, <4>1 DEF IndInv, TypeOK, FgaTypeOK
            <4>6. <<t, o>> \in Allowed
                BY <3>1, <3>4, <4>5 DEF Allowed
            <4> QED  BY <2>1, <2>2, <3>1, <3>3, <3>4, <4>4, <4>6, ToolShutOut
        <3> QED  BY <1>3, <3>5, <3>6
    <2> QED  BY <2>3, <2>4
<1> QED  BY <1>2, <1>3 DEF ToolStep

-----------------------------------------------------------------------------
(* The refinement itself.                                                  *)

LEMMA InitRefines == Init => Registry!RegistryInit
<1> SUFFICES ASSUME Init PROVE Registry!RegistryInit  OBVIOUS
<1>1. IndInv /\ OneRolePerOrg /\ RowsOpen
    BY InitInv, InitSerial, InitServed DEF SerialInv, Tidy, ServedInv
<1>2. \A o : ~BeingCreated(o)
    BY DEF Init, BeingCreated
<1>3. ASSUME NEW u \in Users, NEW o \in Orgs, RoleOf(u, o) # "NONE"
      PROVE  o \in OpenOrgs /\ u \notin SuperAdmins
    <2>1. PICK x \in fga : x.user = u /\ x.org = o
        BY <1>3 DEF RoleOf, RowsFor
    <2> QED
        BY <1>1, <1>2, <2>1 DEF RowsOpen, OpenOrgs, IndInv, SuperAdminsHoldNoRole, IsSuperAdmin
<1>4. Allowed = {}
    BY DEF Init, Allowed
<1>5. \A u \in Users, o \in Orgs : RoleOf(u, o) \in DirectRoles \cup {"NONE"}
    BY <1>1, RolesSeen
<1> QED  BY <1>3, <1>4, <1>5 DEF Registry!RegistryInit, Registry!MemberRoles, OpenOrgs, Allowed, DirectRoles

LEMMA NextRefines ==
    ASSUME NothingFails, Apart, IndInv, IdsMatch, SerialInv, ServedInv, [Next]_vars
    PROVE  RegistryStep
<1>1. ~Crash
    BY DEF Crash, NothingFails
<1>2. ASSUME NEW s \in Slots, Step(s)
      PROVE  RegistryStep
    <2>1. ~Undo(s) /\ ~OrgCallRaises(s) /\ ~UserCallRaises(s)
        BY DEF NothingFails, OrgCallRaises, UserCallRaises, Undo, RunUndoAction, UndoActionRaises,
           UndoEnds, ServedInv, Served, Idle
    <2>2. OthersSame(s)
        BY <1>2, StepLeavesOthers
    <2> QED
        BY <1>2, <2>1, <2>2, JoinRefines, UpdateRefines, RemoveRefines, CreateOrgRefines, ToolRefines
        DEF Step, UserStep, OrgStep
<1> QED  BY <1>1, <1>2, ReceiveQuiet, NothingSeen DEF Next

\* The checks that the handlers spread over several reads are as good as one
\* check at the moment of the write, and each handler takes effect at once.
THEOREM HandlersImplementRegistry ==
    ASSUME NothingFails
    PROVE  ApartSpec => ImplementsRegistry
<1>1. Apart /\ IndInv /\ IdsMatch /\ SerialInv /\ ServedInv /\ [Next]_vars =>
        [Registry!RegistryNext]_(Registry!registryVars)
    BY NextRefines DEF RegistryStep
<1> QED
    BY <1>1, InitRefines, Invariant, IdsInvariant, ApartInvariant, SerialInvariant, ServedInvariant, PTL
    DEF Spec, ImplementsRegistry, Registry!RegistrySpec
=============================================================================
