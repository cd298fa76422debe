----------------------------- MODULE RydApiProofs ----------------------------
(***************************************************************************)
(* Theorems about RydApi that hold for any users, organisations, tools,    *)
(* slots, faults and endpoints.                                            *)
(*                                                                         *)
(* IndInv is the inductive invariant: the types, the safety property that  *)
(* no superadmin holds a direct role, and, because the write of a role     *)
(* checks nothing, what the checks made earlier have left true of every    *)
(* request still in progress.                                              *)
(***************************************************************************)
EXTENDS RydApi, FgaProofs

IndInv == TypeOK /\ SuperAdminsHoldNoRole /\ RequestsSound

\* What a slot may hold.
GoodRequest(r) == r \in Request /\ SoundRequest(r)

-----------------------------------------------------------------------------
(* Slots.                                                                  *)

\* A slot with a label is not idle, and so holds a good request.
LEMMA BusySlot ==
    ASSUME IndInv, NEW s \in Slots, req[s].pc # "idle"
    PROVE  GoodRequest(req[s])
<1>1. req[s] # Idle  BY DEF Idle
<1> QED  BY <1>1 DEF IndInv, TypeOK, RequestsTypeOK, RequestsSound, GoodRequest

\* Putting a good request in a slot, or emptying it, keeps all slots good.
LEMMA SlotChange ==
    ASSUME IndInv, NEW s \in Slots, NEW r, GoodRequest(r) \/ r = Idle,
           req' = [req EXCEPT ![s] = r]
    PROVE  RequestsTypeOK' /\ RequestsSound'
<1>1. RequestsTypeOK'
    BY DEF IndInv, TypeOK, RequestsTypeOK, GoodRequest
<1>2. ASSUME NEW t \in Slots, req'[t] # Idle
      PROVE  SoundRequest(req'[t])
    BY <1>2 DEF IndInv, TypeOK, RequestsTypeOK, RequestsSound, GoodRequest
<1> QED  BY <1>1, <1>2 DEF RequestsSound, SoundRequest, SoundArrival, SoundTarget, SoundCaller, SoundHeld, GivesRole

LEMMA AnswerKeepsSlots ==
    ASSUME IndInv, NEW s \in Slots, Answer(s)
    PROVE  RequestsTypeOK' /\ RequestsSound'
BY SlotChange DEF Answer

\* The labels that are reached past the checks each have their condition.
LEMMA GotoKeepsSlots ==
    ASSUME IndInv, NEW s \in Slots, req[s].pc # "idle",
           NEW label \in Labels, Goto(s, label),
           SoundRequest([req[s] EXCEPT !.pc = label])
    PROVE  RequestsTypeOK' /\ RequestsSound'
<1> DEFINE r == [req[s] EXCEPT !.pc = label]
<1>1. req[s] \in Request  BY BusySlot DEF GoodRequest
<1>2. r \in Request  BY <1>1 DEF Request
<1>3. req' = [req EXCEPT ![s] = r]  BY DEF Goto
<1> QED  BY <1>2, <1>3, SlotChange DEF GoodRequest

-----------------------------------------------------------------------------
(* Steps that write no table.                                              *)

LEMMA OnlySlotsChange ==
    ASSUME IndInv, RequestsTypeOK', RequestsSound',
           UNCHANGED <<fga, toolAuth, accounts, links>>
    PROVE  IndInv'
BY DEF IndInv, TypeOK, FgaTypeOK, CrmTypeOK, SuperAdminsHoldNoRole

LEMMA AnswerStep ==
    ASSUME IndInv, NEW s \in Slots, Answer(s),
           UNCHANGED <<fga, toolAuth, accounts, links>>
    PROVE  IndInv'
BY AnswerKeepsSlots, OnlySlotsChange

LEMMA GotoStep ==
    ASSUME IndInv, NEW s \in Slots, req[s].pc # "idle",
           NEW label \in Labels, Goto(s, label),
           SoundRequest([req[s] EXCEPT !.pc = label]),
           UNCHANGED <<fga, toolAuth, accounts, links>>
    PROVE  IndInv'
BY GotoKeepsSlots, OnlySlotsChange

LEMMA ArrivalType ==
    ASSUME NEW op \in Operations, NEW u \in Users, NEW authority \in Authorities,
           NEW o \in Orgs \cup {NoOrg}
    PROVE  Arrival(op, u, authority, o) \in Request
<1>1. <<>> \in Seq(UndoActions)  OBVIOUS
<1>2. {} \in SUBSET Rows  OBVIOUS
<1>3. "check" \in Labels  BY DEF Labels
<1> QED  BY <1>1, <1>2, <1>3 DEF Arrival, Request

\* A request whose check is still to come only has to match its endpoint.
LEMMA UncheckedIsGood ==
    ASSUME NEW r \in Request, r.pc = "check", r.held = {},
           r.op = "join" => r.role = "CONTRIBUTOR_PENDING",
           r.op = "update" => r.role \in AssignableRoles,
           r.op = "create_org" =>
                r.role = "ADMIN" /\ (IsSuperAdmin(r.target) => r.authz = "SUPER_ADMIN"),
           r.org \in Orgs \/ r.op = "create_org"
    PROVE  GoodRequest(r)
BY DEF GoodRequest, SoundRequest, SoundArrival, SoundTarget, SoundCaller, SoundHeld, GivesRole

\* A handler starts with its check still to make and nothing to undo.
LEMMA ReceivedRequest ==
    ASSUME IndInv, NEW s \in Slots, Receive(s)
    PROVE  \E u, r : /\ Accept(s, u, r)
                    /\ GoodRequest(r)
                    /\ r.pc = "check" /\ r.undo = <<>> /\ r.held = {}
                    /\ UNCHANGED <<fga, toolAuth, accounts, links>>
<1> FgaTypeOK  BY DEF IndInv, TypeOK
<1> USE DEF Operations, DirectRoles
<1>1. CASE ReceiveJoin(s)
    <2>1. PICK u \in Users, c \in Clients, o \in Orgs :
            Accept(s, u, [Arrival("join", u, RoleForOrg(u, c, o), o)
                            EXCEPT !.role = "CONTRIBUTOR_PENDING"])
        BY <1>1 DEF ReceiveJoin
    <2> DEFINE r == [Arrival("join", u, RoleForOrg(u, c, o), o)
                            EXCEPT !.role = "CONTRIBUTOR_PENDING"]
    <2>2. Arrival("join", u, RoleForOrg(u, c, o), o) \in Request
        BY RoleForOrgType, ArrivalType
    <2>3. r \in Request
        BY <2>2 DEF Request
    <2>4. /\ r.pc = "check" /\ r.held = {} /\ r.undo = <<>>
          /\ r.op = "join" /\ r.org = o /\ r.role = "CONTRIBUTOR_PENDING"
        BY DEF Arrival
    <2>5. GoodRequest(r)
        <3> HIDE DEF r
        <3> QED  BY <2>3, <2>4, UncheckedIsGood
    <2>6. Accept(s, u, r) /\ UNCHANGED <<fga, toolAuth, accounts, links>>
        BY <1>1, <2>1 DEF ReceiveJoin
    <2> HIDE DEF r
    <2> QED  BY <2>4, <2>5, <2>6
<1>2. CASE ReceiveUpdate(s)
    <2>1. PICK u, target \in Users, c \in Clients, o \in Orgs, role \in AssignableRoles :
            Accept(s, u, [Arrival("update", u, RoleForOrg(u, c, o), o)
                            EXCEPT !.target = target, !.role = role])
        BY <1>2 DEF ReceiveUpdate
    <2> DEFINE r == [Arrival("update", u, RoleForOrg(u, c, o), o)
                            EXCEPT !.target = target, !.role = role]
    <2>2. Arrival("update", u, RoleForOrg(u, c, o), o) \in Request
        BY RoleForOrgType, ArrivalType
    <2>3. r \in Request
        BY <2>2 DEF Request, AssignableRoles
    <2>4. /\ r.pc = "check" /\ r.held = {} /\ r.undo = <<>>
          /\ r.op = "update" /\ r.org = o /\ r.role = role
        BY DEF Arrival
    <2>5. GoodRequest(r)
        <3> HIDE DEF r
        <3> QED  BY <2>3, <2>4, UncheckedIsGood
    <2>6. Accept(s, u, r) /\ UNCHANGED <<fga, toolAuth, accounts, links>>
        BY <1>2, <2>1 DEF ReceiveUpdate
    <2> HIDE DEF r
    <2> QED  BY <2>4, <2>5, <2>6
<1>3. CASE ReceiveRemove(s)
    <2>1. PICK u, target \in Users, c \in Clients, o \in Orgs :
            Accept(s, u, [Arrival("remove", u, RoleForOrg(u, c, o), o)
                            EXCEPT !.target = target])
        BY <1>3 DEF ReceiveRemove
    <2> DEFINE r == [Arrival("remove", u, RoleForOrg(u, c, o), o)
                            EXCEPT !.target = target]
    <2>2. Arrival("remove", u, RoleForOrg(u, c, o), o) \in Request
        BY RoleForOrgType, ArrivalType
    <2>3. r \in Request
        BY <2>2 DEF Request
    <2>4. /\ r.pc = "check" /\ r.held = {} /\ r.undo = <<>>
          /\ r.op = "remove" /\ r.org = o
        BY DEF Arrival
    <2>5. GoodRequest(r)
        <3> HIDE DEF r
        <3> QED  BY <2>3, <2>4, UncheckedIsGood
    <2>6. Accept(s, u, r) /\ UNCHANGED <<fga, toolAuth, accounts, links>>
        BY <1>3, <2>1 DEF ReceiveRemove
    <2> HIDE DEF r
    <2> QED  BY <2>4, <2>5, <2>6
<1>4. CASE ReceiveCreateOrg(s)
    <2>1. PICK u \in Users, n \in Names :
            Accept(s, u, [Arrival("create_org", u, IF IsSuperAdmin(u) THEN "SUPER_ADMIN" ELSE "NONE", NoOrg)
                            EXCEPT !.role = "ADMIN", !.name = n])
        BY <1>4 DEF ReceiveCreateOrg
    <2> DEFINE r == [Arrival("create_org", u, IF IsSuperAdmin(u) THEN "SUPER_ADMIN" ELSE "NONE", NoOrg)
                            EXCEPT !.role = "ADMIN", !.name = n]
    <2>2. Arrival("create_org", u, IF IsSuperAdmin(u) THEN "SUPER_ADMIN" ELSE "NONE", NoOrg) \in Request
        BY RoleForOrgType, ArrivalType DEF Authorities
    <2>3. r \in Request
        BY <2>2 DEF Request
    <2>4. /\ r.pc = "check" /\ r.held = {} /\ r.undo = <<>>
          /\ r.op = "create_org" /\ r.role = "ADMIN" /\ r.target = u
          /\ r.authz = IF IsSuperAdmin(u) THEN "SUPER_ADMIN" ELSE "NONE"
        BY DEF Arrival
    <2>5. GoodRequest(r)
        <3> HIDE DEF r
        <3> QED  BY <2>3, <2>4, UncheckedIsGood
    <2>6. Accept(s, u, r) /\ UNCHANGED <<fga, toolAuth, accounts, links>>
        BY <1>4, <2>1 DEF ReceiveCreateOrg
    <2> HIDE DEF r
    <2> QED  BY <2>4, <2>5, <2>6
<1>5. CASE ReceiveToolRequest(s)
    <2>1. PICK op \in {"authorise", "revoke"}, u \in Users, c \in Clients, o \in Orgs, t \in Tools :
            Accept(s, u, [Arrival(op, u, RoleForOrg(u, c, o), o)
                            EXCEPT !.tool = t])
        BY <1>5 DEF ReceiveToolRequest
    <2> DEFINE r == [Arrival(op, u, RoleForOrg(u, c, o), o)
                            EXCEPT !.tool = t]
    <2>2. Arrival(op, u, RoleForOrg(u, c, o), o) \in Request
        BY RoleForOrgType, ArrivalType
    <2>3. r \in Request
        BY <2>2 DEF Request
    <2>4. /\ r.pc = "check" /\ r.held = {} /\ r.undo = <<>>
          /\ r.op = op /\ r.org = o
        BY DEF Arrival
    <2>5. GoodRequest(r)
        <3> HIDE DEF r
        <3> QED  BY <2>3, <2>4, UncheckedIsGood
    <2>6. Accept(s, u, r) /\ UNCHANGED <<fga, toolAuth, accounts, links>>
        BY <1>5, <2>1 DEF ReceiveToolRequest
    <2> HIDE DEF r
    <2> QED  BY <2>4, <2>5, <2>6
<1> QED
    BY <1>1, <1>2, <1>3, <1>4, <1>5 DEF Receive, ReceiveUserRequest, ReceiveOrgRequest

LEMMA ReceiveKeepsInv ==
    ASSUME IndInv, NEW s \in Slots, Receive(s)
    PROVE  IndInv'
BY ReceivedRequest, SlotChange, OnlySlotsChange DEF Accept

-----------------------------------------------------------------------------
(* Writes.                                                                 *)

\* A slot that has recorded what it did.
LEMMA WriteStep ==
    ASSUME IndInv, FgaTypeOK', CrmTypeOK', SuperAdminsHoldNoRole',
           RequestsTypeOK', RequestsSound'
    PROVE  IndInv'
BY DEF IndInv, TypeOK

\* A role may be written for everyone but a superadmin.
LEMMA CreateRowWrites ==
    ASSUME IndInv, NEW u \in Users, NEW o \in Orgs, NEW role \in DirectRoles,
           ~IsSuperAdmin(u), NEW i \in FreshIds, CreateRow(i, u, o, role)
    PROVE  FgaTypeOK' /\ SuperAdminsHoldNoRole'
<1>1. i \in RowIds  BY DEF FreshIds
<1>2. FgaTypeOK'  BY <1>1, CreateRowType DEF IndInv, TypeOK
<1>3. SuperAdminsHoldNoRole'
    BY DEF IndInv, SuperAdminsHoldNoRole, CreateRow, IsSuperAdmin
<1> QED  BY <1>2, <1>3

LEMMA MergeRowWrites ==
    ASSUME IndInv, NEW row \in Rows, ~IsSuperAdmin(row.user), MergeRow(row)
    PROVE  FgaTypeOK' /\ SuperAdminsHoldNoRole'
<1>1. FgaTypeOK'  BY MergeRowType DEF IndInv, TypeOK
<1>2. SuperAdminsHoldNoRole'
    BY DEF IndInv, SuperAdminsHoldNoRole, MergeRow, IsSuperAdmin
<1> QED  BY <1>1, <1>2

LEMMA DeleteRoleWrites ==
    ASSUME IndInv, NEW u, NEW o, DeleteRole(u, o)
    PROVE  FgaTypeOK' /\ SuperAdminsHoldNoRole'
<1>1. FgaTypeOK'  BY DeleteRoleType DEF IndInv, TypeOK
<1>2. SuperAdminsHoldNoRole'
    BY DEF IndInv, SuperAdminsHoldNoRole, DeleteRole, RowsFor, IsSuperAdmin
<1> QED  BY <1>1, <1>2

LEMMA FgaUnchanged ==
    ASSUME IndInv, UNCHANGED fgaVars
    PROVE  FgaTypeOK' /\ SuperAdminsHoldNoRole'
BY DEF IndInv, TypeOK, FgaTypeOK, SuperAdminsHoldNoRole, fgaVars, IsSuperAdmin

LEMMA CrmUnchanged ==
    ASSUME IndInv, UNCHANGED crmVars
    PROVE  CrmTypeOK'
BY DEF IndInv, TypeOK, CrmTypeOK, crmVars

\* The four calls of the CRM.
LEMMA CreateAccountWrites ==
    ASSUME IndInv, NEW o \in Orgs, NEW n \in Names \cup {NoName}, CreateAccount(o, n)
    PROVE  CrmTypeOK'
<1>1. [state |-> "present", name |-> n, discoverable |-> TRUE] \in Account
    BY DEF Account
<1> QED  BY <1>1 DEF IndInv, TypeOK, CrmTypeOK, CreateAccount

LEMMA DropAccountWrites ==
    ASSUME IndInv, NEW o, DropAccount(o)
    PROVE  CrmTypeOK'
<1>1. Dropped \in Account  BY DEF Account, Dropped
<1> QED  BY <1>1 DEF IndInv, TypeOK, CrmTypeOK, DropAccount

LEMMA LinkWrites ==
    ASSUME IndInv, NEW u \in Users, NEW o \in Orgs \cup {NoOrg},
           (CreateLink(u, o) /\ o \in Orgs) \/ DeleteLink(u, o)
    PROVE  CrmTypeOK'
BY DEF IndInv, TypeOK, CrmTypeOK, CreateLink, DeleteLink

\* A label that a handler may move on to, from what its checks established.
Fits(r, label) ==
    /\ label \in Labels
    /\ \/ r.org \in Orgs
       \/ r.op = "create_org" /\ label \in {"check", "create_account", "undo"}
    /\ \/ label \notin {"link", "create_role", "read_link", "repair_link", "read_role", "merge"}
       \/ r.op = "remove"
       \/ ~IsSuperAdmin(r.target)
    /\ r.op \in {"update", "remove"} => CanModifyUserRoles(r.authz)
    /\ label = "write_tool" => CanUpdateToolAuthorisations(r.authz)

LEMMA GotoKeepsRequest ==
    ASSUME IndInv, NEW s \in Slots, NEW label, GoodRequest(req[s]),
           Fits(req[s], label), Goto(s, label)
    PROVE  RequestsTypeOK' /\ RequestsSound'
<1>1. SoundRequest([req[s] EXCEPT !.pc = label])
    BY DEF GoodRequest, Fits, Request, SoundRequest, SoundArrival, SoundTarget, SoundCaller, SoundHeld, GivesRole
<1>2. [req[s] EXCEPT !.pc = label] \in Request
    BY DEF GoodRequest, Fits, Request
<1> QED  BY <1>1, <1>2, SlotChange DEF GoodRequest, Goto

\* One that only moves on.
LEMMA MovesOn ==
    ASSUME IndInv, NEW s \in Slots, NEW label, GoodRequest(req[s]),
           Fits(req[s], label), Goto(s, label),
           UNCHANGED <<fga, toolAuth, accounts, links>>
    PROVE  IndInv'
BY GotoKeepsRequest, OnlySlotsChange

\* A failed call leads to the undo actions, in the handlers that have some.
LEMMA FailKeepsRequest ==
    ASSUME IndInv, NEW s \in Slots, GoodRequest(req[s]), req[s].op \in {"join", "create_org"},
           Fail(s)
    PROVE  RequestsTypeOK' /\ RequestsSound'
<1>1. req[s].org \in Orgs \/ req[s].op = "create_org"
    BY DEF GoodRequest, SoundRequest, SoundArrival
<1>2. Fits(req[s], "undo")
    BY <1>1 DEF Fits, Labels
<1> QED  BY <1>2, GotoKeepsRequest DEF Fail

\* The relationship was made and its undo action is recorded.
LEMMA LinkRecorded ==
    ASSUME IndInv, NEW s \in Slots, GoodRequest(req[s]), req[s].op \in {"join", "create_org"},
           req[s].org \in Orgs, ~IsSuperAdmin(req[s].target),
           req' = [req EXCEPT ![s].pc = "create_role",
                              ![s].undo = Append(@, "delete_relationship")]
    PROVE  RequestsTypeOK' /\ RequestsSound'
<1> DEFINE r == [req[s] EXCEPT !.pc = "create_role", !.undo = Append(@, "delete_relationship")]
<1> Append(req[s].undo, "delete_relationship") \in Seq(UndoActions)
    BY DEF GoodRequest, Request, UndoActions
<1>1. r \in Request
    BY DEF GoodRequest, Request, Labels
<1>2. SoundRequest(r)
    BY DEF GoodRequest, Request, SoundRequest, SoundArrival, SoundTarget, SoundCaller, SoundHeld, GivesRole
<1>3. req' = [req EXCEPT ![s] = r]  OBVIOUS
<1> QED  BY <1>1, <1>2, <1>3, SlotChange DEF GoodRequest

-----------------------------------------------------------------------------
(* Joining.                                                                *)

LEMMA JoinKeepsInv ==
    ASSUME IndInv, NEW s \in Slots, JoinStep(s)
    PROVE  IndInv'
<1>1. CASE JoinCheck(s)
    <2>1. GoodRequest(req[s]) /\ req[s].op = "join"
        BY <1>1, BusySlot DEF JoinCheck, At
    <2>2. CASE MayJoin(req[s]) /\ Goto(s, "link")
        <3>1. Fits(req[s], "link")
            BY <2>1, <2>2 DEF Fits, Labels, MayJoin, GoodRequest, SoundRequest, SoundArrival
        <3> QED  BY <1>1, <2>1, <2>2, <3>1, MovesOn DEF JoinCheck
    <2>3. CASE Answer(s)
        BY <1>1, <2>3, AnswerStep DEF JoinCheck
    <2> QED  BY <1>1, <2>2, <2>3 DEF JoinCheck
<1>2. CASE JoinLink(s)
    <2>1. /\ GoodRequest(req[s]) /\ req[s].op = "join" /\ req[s].pc = "link"
          /\ req[s].target \in Users /\ req[s].org \in Orgs
        BY <1>2, BusySlot DEF JoinLink, At, GoodRequest, Request, SoundRequest, SoundArrival
    <2>2. ~IsSuperAdmin(req[s].target)
        BY <2>1 DEF GoodRequest, SoundRequest, SoundTarget, GivesRole
    <2>3. FgaTypeOK' /\ SuperAdminsHoldNoRole'
        BY <1>2, FgaUnchanged DEF JoinLink
    <2>4. CrmTypeOK'
        BY <1>2, <2>1, LinkWrites, CrmUnchanged DEF JoinLink
    <2>5. CASE Fail(s)
        BY <2>1, <2>3, <2>4, <2>5, FailKeepsRequest, WriteStep
    <2>6. CASE req' = [req EXCEPT ![s].pc = "create_role",
                                  ![s].undo = Append(@, "delete_relationship")]
        <3>1. RequestsTypeOK' /\ RequestsSound'
            BY <2>1, <2>2, <2>6, LinkRecorded
        <3> QED  BY <2>3, <2>4, <3>1, WriteStep
    <2> QED  BY <1>2, <2>5, <2>6 DEF JoinLink
<1>3. CASE JoinCreateRole(s)
    <2>1. /\ GoodRequest(req[s]) /\ req[s].op = "join" /\ req[s].pc = "create_role"
          /\ req[s].target \in Users /\ req[s].org \in Orgs
          /\ req[s].role = "CONTRIBUTOR_PENDING"
        BY <1>3, BusySlot DEF JoinCreateRole, At, GoodRequest, Request, SoundRequest, SoundArrival
    <2>2. ~IsSuperAdmin(req[s].target)
        BY <2>1 DEF GoodRequest, SoundRequest, SoundTarget, GivesRole
    <2>3. FgaTypeOK' /\ SuperAdminsHoldNoRole'
        BY <1>3, <2>1, <2>2, CreateRowWrites, FgaUnchanged DEF JoinCreateRole, DirectRoles
    <2>4. CrmTypeOK'
        BY <1>3, CrmUnchanged DEF JoinCreateRole
    <2>5. CASE Fail(s)
        BY <2>1, <2>3, <2>4, <2>5, FailKeepsRequest, WriteStep
    <2>6. CASE Goto(s, "notify")
        <3>1. Fits(req[s], "notify")
            BY <2>1 DEF Fits, Labels
        <3> QED  BY <2>1, <2>3, <2>4, <2>6, <3>1, GotoKeepsRequest, WriteStep
    <2> QED  BY <1>3, <2>5, <2>6 DEF JoinCreateRole
<1>4. CASE JoinNotify(s)
    <2>1. GoodRequest(req[s]) /\ req[s].op = "join"
        BY <1>4, BusySlot DEF JoinNotify, At
    <2>2. RequestsTypeOK' /\ RequestsSound'
        BY <1>4, <2>1, FailKeepsRequest, AnswerKeepsSlots DEF JoinNotify
    <2> QED  BY <1>4, <2>2, OnlySlotsChange DEF JoinNotify
<1> QED  BY <1>1, <1>2, <1>3, <1>4 DEF JoinStep

-----------------------------------------------------------------------------
(* Changing a role.                                                        *)

\* What holds of an update past its check, at a label before the write.
LEMMA UpdateUnderWay ==
    ASSUME IndInv, NEW s \in Slots, NEW label, At(s, "update", label),
           label \in {"check", "read_link", "repair_link", "read_role", "create_role", "merge"}
    PROVE  /\ GoodRequest(req[s]) /\ req[s].op = "update" /\ req[s].pc = label
           /\ req[s].target \in Users /\ req[s].org \in Orgs
           /\ req[s].role \in AssignableRoles
           /\ label # "check" => /\ ~IsSuperAdmin(req[s].target)
                                 /\ CanModifyUserRoles(req[s].authz)
           /\ \A row \in req[s].held : row \in Rows /\ row.user = req[s].target
<1>1. GoodRequest(req[s]) /\ req[s].op = "update" /\ req[s].pc = label
    BY BusySlot DEF At
<1>2. /\ req[s].target \in Users
      /\ \A row \in req[s].held : row \in Rows
    BY <1>1 DEF GoodRequest, Request
<1>3. req[s].org \in Orgs /\ req[s].role \in AssignableRoles
    BY <1>1 DEF GoodRequest, SoundRequest, SoundArrival
<1>4. /\ label # "check" => ~IsSuperAdmin(req[s].target) /\ CanModifyUserRoles(req[s].authz)
      /\ \A row \in req[s].held : row.user = req[s].target
    BY <1>1 DEF GoodRequest, SoundRequest, SoundTarget, SoundCaller, SoundHeld, GivesRole
<1> QED  BY <1>1, <1>2, <1>3, <1>4

LEMMA UpdateKeepsInv ==
    ASSUME IndInv, NEW s \in Slots, UpdateStep(s)
    PROVE  IndInv'
<1>1. CASE UpdateCheck(s)
    <2>1. GoodRequest(req[s]) /\ req[s].op = "update" /\ req[s].org \in Orgs
        BY <1>1, UpdateUnderWay DEF UpdateCheck
    <2>2. CASE MayUpdateRole(req[s]) /\ Goto(s, "read_link")
        <3>1. Fits(req[s], "read_link")
            BY <2>1, <2>2 DEF Fits, Labels, MayUpdateRole
        <3> QED  BY <1>1, <2>1, <2>2, <3>1, MovesOn DEF UpdateCheck
    <2>3. CASE Answer(s)
        BY <1>1, <2>3, AnswerStep DEF UpdateCheck
    <2> QED  BY <1>1, <2>2, <2>3 DEF UpdateCheck
<1>2. CASE UpdateReadLink(s)
    <2> DEFINE label == AfterReadLink(req[s])
    <2>1. GoodRequest(req[s]) /\ Fits(req[s], label)
        BY <1>2, UpdateUnderWay DEF UpdateReadLink, AfterReadLink, Fits, Labels
    <2> QED  BY <1>2, <2>1, MovesOn DEF UpdateReadLink
<1>3. CASE UpdateRepairLink(s)
    <2>1. /\ GoodRequest(req[s]) /\ Fits(req[s], "read_role")
          /\ req[s].target \in Users /\ req[s].org \in Orgs
        BY <1>3, UpdateUnderWay DEF UpdateRepairLink, Fits, Labels
    <2>2. FgaTypeOK' /\ SuperAdminsHoldNoRole'
        BY <1>3, FgaUnchanged DEF UpdateRepairLink
    <2>3. CrmTypeOK'
        BY <1>3, <2>1, LinkWrites, CrmUnchanged DEF UpdateRepairLink
    <2>4. RequestsTypeOK' /\ RequestsSound'
        BY <1>3, <2>1, GotoKeepsRequest, AnswerKeepsSlots DEF UpdateRepairLink
    <2> QED  BY <2>2, <2>3, <2>4, WriteStep
<1>4. CASE UpdateReadRole(s)
    <2>1. /\ GoodRequest(req[s]) /\ req[s].op = "update"
          /\ Fits(req[s], "create_role") /\ Fits(req[s], "merge")
          /\ req[s].role \in DirectRoles
        BY <1>4, UpdateUnderWay DEF UpdateReadRole, Fits, Labels, AssignableRoles, DirectRoles
    <2>2. CASE Answer(s)
        BY <1>4, <2>2, AnswerStep DEF UpdateReadRole
    <2>3. CASE Goto(s, "create_role")
        BY <1>4, <2>1, <2>3, MovesOn DEF UpdateReadRole
    <2>4. CASE \E row \in RowsFor(req[s].target, req[s].org) :
                    req' = [req EXCEPT ![s].pc = "merge",
                                       ![s].held = {[row EXCEPT !.role = req[s].role]}]
        <3>1. PICK row \in RowsFor(req[s].target, req[s].org) :
                    req' = [req EXCEPT ![s].pc = "merge",
                                       ![s].held = {[row EXCEPT !.role = req[s].role]}]
            BY <2>4
        <3> DEFINE kept == [row EXCEPT !.role = req[s].role]
                   r == [req[s] EXCEPT !.pc = "merge", !.held = {kept}]
        <3>2. row \in Rows /\ row.user = req[s].target /\ row.org = req[s].org
            BY DEF RowsFor, IndInv, TypeOK, FgaTypeOK
        <3>3. kept \in Rows /\ kept.user = req[s].target /\ kept.org = req[s].org
            BY <2>1, <3>2 DEF Rows
        <3> HIDE DEF kept
        <3>4. r \in Request /\ SoundRequest(r)
            <4>1. r \in Request
                BY <2>1, <3>3 DEF GoodRequest, Request, Labels
            <4>2. SoundArrival(r) /\ SoundTarget(r) /\ SoundCaller(r)
                BY <2>1 DEF GoodRequest, Fits, Request, SoundRequest, SoundArrival, SoundTarget, SoundCaller, GivesRole
            <4>3. SoundHeld(r)
                BY <2>1, <3>3 DEF GoodRequest, Request, SoundHeld
            <4> QED  BY <4>1, <4>2, <4>3 DEF SoundRequest
        <3>5. req' = [req EXCEPT ![s] = r]
            BY <3>1 DEF kept
        <3>6. RequestsTypeOK' /\ RequestsSound'
            BY <3>4, <3>5, SlotChange DEF GoodRequest
        <3> QED  BY <1>4, <3>6, OnlySlotsChange DEF UpdateReadRole
    <2> QED  BY <1>4, <2>2, <2>3, <2>4 DEF UpdateReadRole
<1>5. CASE UpdateCreateRole(s)
    <2>1. /\ req[s].target \in Users /\ req[s].org \in Orgs /\ req[s].role \in DirectRoles
          /\ ~IsSuperAdmin(req[s].target)
        BY <1>5, UpdateUnderWay DEF UpdateCreateRole, AssignableRoles, DirectRoles
    <2>2. FgaTypeOK' /\ SuperAdminsHoldNoRole'
        BY <1>5, <2>1, CreateRowWrites DEF UpdateCreateRole
    <2>3. CrmTypeOK'
        BY <1>5, CrmUnchanged DEF UpdateCreateRole
    <2> QED  BY <1>5, <2>2, <2>3, AnswerKeepsSlots, WriteStep DEF UpdateCreateRole
<1>6. CASE UpdateMerge(s)
    <2>1. PICK row \in req[s].held : MergeRow(row)
        BY <1>6 DEF UpdateMerge
    <2>2. row \in Rows /\ ~IsSuperAdmin(row.user)
        BY <1>6, UpdateUnderWay DEF UpdateMerge
    <2>3. FgaTypeOK' /\ SuperAdminsHoldNoRole'
        BY <2>1, <2>2, MergeRowWrites
    <2>4. CrmTypeOK'
        BY <1>6, CrmUnchanged DEF UpdateMerge
    <2> QED  BY <1>6, <2>3, <2>4, AnswerKeepsSlots, WriteStep DEF UpdateMerge
<1> QED  BY <1>1, <1>2, <1>3, <1>4, <1>5, <1>6 DEF UpdateStep

-----------------------------------------------------------------------------
(* Removing a user.                                                        *)

LEMMA RemoveUnderWay ==
    ASSUME IndInv, NEW s \in Slots, NEW label, label # "idle", At(s, "remove", label)
    PROVE  /\ GoodRequest(req[s]) /\ req[s].op = "remove" /\ req[s].org \in Orgs
           /\ label # "check" => CanModifyUserRoles(req[s].authz)
<1>1. GoodRequest(req[s]) /\ req[s].op = "remove" /\ req[s].pc = label
    BY BusySlot DEF At
<1> QED  BY <1>1 DEF GoodRequest, SoundRequest, SoundArrival, SoundCaller

LEMMA RemoveKeepsInv ==
    ASSUME IndInv, NEW s \in Slots, RemoveStep(s)
    PROVE  IndInv'
<1>1. CASE RemoveCheck(s)
    <2>1. GoodRequest(req[s]) /\ req[s].op = "remove" /\ req[s].org \in Orgs
        BY <1>1, RemoveUnderWay DEF RemoveCheck
    <2>2. MayRemove(req[s]) => Fits(req[s], "read_role")
        BY <2>1 DEF Fits, Labels, MayRemove
    <2> QED  BY <1>1, <2>1, <2>2, MovesOn, AnswerStep DEF RemoveCheck
<1>2. CASE RemoveReadRole(s)
    <2> DEFINE rows == RowsFor(req[s].target, req[s].org)
               r == [req[s] EXCEPT !.pc = "read_org", !.held = rows]
    <2>1. GoodRequest(req[s]) /\ req[s].op = "remove" /\ CanModifyUserRoles(req[s].authz)
        BY <1>2, RemoveUnderWay DEF RemoveReadRole
    <2>2. rows \in SUBSET Rows
        BY DEF RowsFor, IndInv, TypeOK, FgaTypeOK
    <2>3. \A row \in rows : row.user = req[s].target /\ row.org = req[s].org
        BY DEF RowsFor
    <2>4. CASE req' = [req EXCEPT ![s].pc = "read_org", ![s].held = rows]
        <3> HIDE DEF rows
        <3>1. r \in Request
            BY <2>1, <2>2 DEF GoodRequest, Request, Labels
        <3>2. SoundArrival(r) /\ SoundTarget(r) /\ SoundCaller(r)
            BY <2>1 DEF GoodRequest, Request, SoundRequest, SoundArrival, SoundTarget, SoundCaller, GivesRole
        <3>3. SoundHeld(r)
            BY <2>1, <2>3 DEF GoodRequest, Request, SoundHeld
        <3>4. RequestsTypeOK' /\ RequestsSound'
            BY <2>4, <3>1, <3>2, <3>3, SlotChange DEF GoodRequest, SoundRequest
        <3> QED  BY <1>2, <3>4, OnlySlotsChange DEF RemoveReadRole
    <2>5. CASE Answer(s)
        BY <1>2, <2>5, AnswerStep DEF RemoveReadRole
    <2> QED  BY <1>2, <2>4, <2>5 DEF RemoveReadRole
<1>3. CASE RemoveReadOrg(s)
    <2>1. GoodRequest(req[s]) /\ Fits(req[s], "delete")
        BY <1>3, RemoveUnderWay DEF RemoveReadOrg, Fits, Labels
    <2> QED  BY <1>3, <2>1, MovesOn, AnswerStep DEF RemoveReadOrg
<1>4. CASE RemoveDelete(s)
    <2>1. FgaTypeOK' /\ SuperAdminsHoldNoRole'
        BY <1>4, DeleteRoleWrites DEF RemoveDelete
    <2>2. CrmTypeOK'
        BY <1>4, CrmUnchanged DEF RemoveDelete
    <2> QED  BY <1>4, <2>1, <2>2, AnswerKeepsSlots, WriteStep DEF RemoveDelete
<1> QED  BY <1>1, <1>2, <1>3, <1>4 DEF RemoveStep

-----------------------------------------------------------------------------
(* Creating an organisation.                                               *)

\* What holds of a creation, before and after it has an organisation.
LEMMA CreateOrgUnderWay ==
    ASSUME IndInv, NEW s \in Slots, NEW label, label # "idle", At(s, "create_org", label)
    PROVE  /\ GoodRequest(req[s]) /\ req[s].op = "create_org" /\ req[s].pc = label
           /\ req[s].target \in Users /\ req[s].role = "ADMIN"
           /\ req[s].name \in Names \cup {NoName}
           /\ IsSuperAdmin(req[s].target) => req[s].authz = "SUPER_ADMIN"
           /\ label \in {"link", "create_role"} => ~IsSuperAdmin(req[s].target)
           /\ label \in {"link", "create_role", "contact"} => req[s].org \in Orgs
<1>1. GoodRequest(req[s]) /\ req[s].op = "create_org" /\ req[s].pc = label
    BY BusySlot DEF At
<1>2. req[s].target \in Users /\ req[s].name \in Names \cup {NoName}
    BY <1>1 DEF GoodRequest, Request
<1>3. req[s].role = "ADMIN" /\ (label \in {"link", "create_role", "contact"} => req[s].org \in Orgs)
    BY <1>1 DEF GoodRequest, SoundRequest, SoundArrival
<1>4. /\ IsSuperAdmin(req[s].target) => req[s].authz = "SUPER_ADMIN"
      /\ label \in {"link", "create_role"} => ~IsSuperAdmin(req[s].target)
    BY <1>1 DEF GoodRequest, SoundRequest, SoundTarget, GivesRole
<1> QED  BY <1>1, <1>2, <1>3, <1>4

LEMMA CreateOrgKeepsInv ==
    ASSUME IndInv, NEW s \in Slots, CreateOrgStep(s)
    PROVE  IndInv'
<1>1. CASE CreateOrgCheck(s)
    <2>1. GoodRequest(req[s]) /\ Fits(req[s], "create_account")
        BY <1>1, CreateOrgUnderWay DEF CreateOrgCheck, Fits, Labels
    <2> QED  BY <1>1, <2>1, MovesOn, AnswerStep DEF CreateOrgCheck
<1>2. CASE CreateOrgAccount(s)
    <2>1. /\ GoodRequest(req[s]) /\ req[s].op = "create_org"
          /\ req[s].name \in Names \cup {NoName} /\ req[s].pc = "create_account"
          /\ IsSuperAdmin(req[s].target) => req[s].authz = "SUPER_ADMIN"
        BY <1>2, CreateOrgUnderWay DEF CreateOrgAccount
    <2>2. FgaTypeOK' /\ SuperAdminsHoldNoRole'
        BY <1>2, FgaUnchanged DEF CreateOrgAccount
    <2>3. CrmTypeOK'
        BY <1>2, <2>1, CreateAccountWrites, CrmUnchanged DEF CreateOrgAccount
    <2>4. CASE Fail(s)
        BY <2>1, <2>2, <2>3, <2>4, FailKeepsRequest, WriteStep
    <2>5. ASSUME NEW o \in Orgs,
                 req' = [req EXCEPT ![s].pc = AfterAccount(req[s]),
                                    ![s].org = o,
                                    ![s].undo = Append(@, "delete_account")]
          PROVE  RequestsTypeOK' /\ RequestsSound'
        <3> DEFINE label == AfterAccount(req[s])
                   list == Append(req[s].undo, "delete_account")
                   r == [req[s] EXCEPT !.pc = label, !.org = o, !.undo = list]
        <3>1. list \in Seq(UndoActions)
            BY <2>1 DEF GoodRequest, Request, UndoActions
        <3>2. \/ label = "contact"
              \/ label = "link" /\ ~IsSuperAdmin(req[s].target)
            BY <2>1 DEF AfterAccount
        <3>3. req' = [req EXCEPT ![s] = r]
            BY <2>5
        <3> HIDE DEF list, label
        <3>4. r \in Request
            BY <2>1, <3>1, <3>2 DEF GoodRequest, Request, Labels
        <3>5. SoundArrival(r) /\ SoundTarget(r) /\ SoundCaller(r)
            BY <2>1, <3>2 DEF GoodRequest, Request, SoundRequest, SoundArrival, SoundTarget, SoundCaller, GivesRole
        <3>6. SoundHeld(r)
            <4>1. req[s].held = {}
                BY <2>1 DEF GoodRequest, SoundRequest, SoundHeld
            <4> QED  BY <2>1, <4>1 DEF GoodRequest, Request, SoundHeld
        <3> QED  BY <3>3, <3>4, <3>5, <3>6, SlotChange DEF GoodRequest, SoundRequest
    <2> QED  BY <1>2, <2>2, <2>3, <2>4, <2>5, WriteStep DEF CreateOrgAccount
<1>3. CASE CreateOrgLink(s)
    <2>1. /\ GoodRequest(req[s]) /\ req[s].op = "create_org" /\ req[s].pc = "link"
          /\ req[s].target \in Users /\ req[s].org \in Orgs /\ ~IsSuperAdmin(req[s].target)
        BY <1>3, CreateOrgUnderWay DEF CreateOrgLink
    <2>2. FgaTypeOK' /\ SuperAdminsHoldNoRole'
        BY <1>3, FgaUnchanged DEF CreateOrgLink
    <2>3. CrmTypeOK'
        BY <1>3, <2>1, LinkWrites, CrmUnchanged DEF CreateOrgLink
    <2>4. CASE Fail(s)
        BY <2>1, <2>2, <2>3, <2>4, FailKeepsRequest, WriteStep
    <2>5. CASE req' = [req EXCEPT ![s].pc = "create_role",
                                  ![s].undo = Append(@, "delete_relationship")]
        <3>1. RequestsTypeOK' /\ RequestsSound'
            BY <2>1, <2>5, LinkRecorded
        <3> QED  BY <2>2, <2>3, <3>1, WriteStep
    <2> QED  BY <1>3, <2>4, <2>5 DEF CreateOrgLink
<1>4. CASE CreateOrgRole(s)
    <2>1. /\ GoodRequest(req[s]) /\ req[s].op = "create_org" /\ Fits(req[s], "contact")
          /\ req[s].target \in Users /\ req[s].org \in Orgs /\ ~IsSuperAdmin(req[s].target)
          /\ req[s].role \in DirectRoles
        BY <1>4, CreateOrgUnderWay DEF CreateOrgRole, Fits, Labels, DirectRoles
    <2>2. FgaTypeOK' /\ SuperAdminsHoldNoRole'
        BY <1>4, <2>1, CreateRowWrites, FgaUnchanged DEF CreateOrgRole
    <2>3. CrmTypeOK'
        BY <1>4, CrmUnchanged DEF CreateOrgRole
    <2>4. RequestsTypeOK' /\ RequestsSound'
        BY <1>4, <2>1, GotoKeepsRequest, FailKeepsRequest DEF CreateOrgRole
    <2> QED  BY <2>2, <2>3, <2>4, WriteStep
<1>5. CASE CreateOrgContact(s)
    <2>1. GoodRequest(req[s]) /\ req[s].op = "create_org"
        BY <1>5, CreateOrgUnderWay DEF CreateOrgContact
    <2>2. RequestsTypeOK' /\ RequestsSound'
        BY <1>5, <2>1, FailKeepsRequest, AnswerKeepsSlots DEF CreateOrgContact
    <2> QED  BY <1>5, <2>2, OnlySlotsChange DEF CreateOrgContact
<1> QED  BY <1>1, <1>2, <1>3, <1>4, <1>5 DEF CreateOrgStep

-----------------------------------------------------------------------------
(* The tools of an organisation.                                           *)

LEMMA ToolUnderWay ==
    ASSUME IndInv, NEW s \in Slots, NEW op \in {"authorise", "revoke"},
           NEW label, label # "idle", At(s, op, label)
    PROVE  GoodRequest(req[s]) /\ req[s].op = op /\ req[s].org \in Orgs
<1>1. GoodRequest(req[s]) /\ req[s].op = op
    BY BusySlot DEF At
<1> QED  BY <1>1 DEF GoodRequest, SoundRequest, SoundArrival

LEMMA ToolWrites ==
    ASSUME IndInv, NEW t, NEW o, AuthoriseTool(t, o) \/ RevokeTool(t, o)
    PROVE  FgaTypeOK' /\ SuperAdminsHoldNoRole'
<1>1. SuperAdminsHoldNoRole'
    BY DEF IndInv, SuperAdminsHoldNoRole, AuthoriseTool, RevokeTool, IsSuperAdmin
<1>2. FgaTypeOK'
    BY DEF IndInv, TypeOK, FgaTypeOK, AuthoriseTool, RevokeTool
<1> QED  BY <1>1, <1>2

LEMMA ToolKeepsInv ==
    ASSUME IndInv, NEW s \in Slots, ToolStep(s)
    PROVE  IndInv'
<1>1. CASE AuthoriseCheck(s)
    <2>1. GoodRequest(req[s]) /\ req[s].op = "authorise" /\ req[s].org \in Orgs
        BY <1>1, ToolUnderWay DEF AuthoriseCheck
    <2>2. MayAuthorise(req[s]) => Fits(req[s], "write_tool")
        BY <2>1 DEF Fits, Labels, MayAuthorise
    <2> QED  BY <1>1, <2>1, <2>2, MovesOn, AnswerStep DEF AuthoriseCheck
<1>2. CASE RevokeCheck(s)
    <2>1. GoodRequest(req[s]) /\ req[s].op = "revoke" /\ req[s].org \in Orgs
        BY <1>2, ToolUnderWay DEF RevokeCheck
    <2>2. MayRevoke(req[s]) => Fits(req[s], "write_tool")
        BY <2>1 DEF Fits, Labels, MayRevoke
    <2> QED  BY <1>2, <2>1, <2>2, MovesOn, AnswerStep DEF RevokeCheck
<1>3. CASE AuthoriseWrite(s) \/ RevokeWrite(s)
    <2>1. FgaTypeOK' /\ SuperAdminsHoldNoRole'
        BY <1>3, ToolWrites DEF AuthoriseWrite, RevokeWrite
    <2>2. CrmTypeOK'
        BY <1>3, CrmUnchanged DEF AuthoriseWrite, RevokeWrite
    <2> QED  BY <1>3, <2>1, <2>2, AnswerKeepsSlots, WriteStep DEF AuthoriseWrite, RevokeWrite
<1> QED  BY <1>1, <1>2, <1>3 DEF ToolStep

-----------------------------------------------------------------------------
(* Undo actions, exceptions, the process stopping.                         *)

LEMMA UndoKeepsInv ==
    ASSUME IndInv, NEW s \in Slots, Undo(s)
    PROVE  IndInv'
<1>1. CASE RunUndoAction(s)
    <2>1. /\ GoodRequest(req[s]) /\ req[s].pc = "undo" /\ req[s].undo # <<>>
          /\ req[s].target \in Users /\ req[s].org \in Orgs \cup {NoOrg}
        BY <1>1, BusySlot DEF RunUndoAction, GoodRequest, Request
    <2>2. FgaTypeOK' /\ SuperAdminsHoldNoRole'
        BY <1>1, FgaUnchanged DEF RunUndoAction
    <2>3. CrmTypeOK'
        BY <1>1, <2>1, LinkWrites, DropAccountWrites DEF RunUndoAction
    <2> DEFINE list == Popped(req[s].undo)
               r == [req[s] EXCEPT !.undo = list]
    <2>4. list \in Seq(UndoActions)
        BY <2>1 DEF GoodRequest, Request, Popped
    <2>5. req' = [req EXCEPT ![s] = r]
        BY <1>1 DEF RunUndoAction
    <2> HIDE DEF list
    <2>6. r \in Request
        BY <2>1, <2>4 DEF GoodRequest, Request
    <2>7. SoundRequest(r)
        BY <2>1 DEF GoodRequest, Request, SoundRequest, SoundArrival, SoundTarget, SoundCaller, SoundHeld, GivesRole
    <2>8. RequestsTypeOK' /\ RequestsSound'
        BY <2>5, <2>6, <2>7, SlotChange DEF GoodRequest
    <2> QED  BY <2>2, <2>3, <2>8, WriteStep
<1>2. CASE UndoActionRaises(s) \/ UndoEnds(s)
    BY <1>2, AnswerStep DEF UndoActionRaises, UndoEnds
<1> QED  BY <1>1, <1>2 DEF Undo

LEMMA RaisesKeepsInv ==
    ASSUME IndInv, NEW s \in Slots, UserCallRaises(s) \/ OrgCallRaises(s)
    PROVE  IndInv'
BY AnswerStep DEF UserCallRaises, OrgCallRaises

LEMMA CrashKeepsInv ==
    ASSUME IndInv, Crash
    PROVE  IndInv'
<1>1. RequestsTypeOK'
    BY DEF Crash, RequestsTypeOK
<1>2. RequestsSound'
    BY DEF Crash, RequestsSound
<1> QED  BY <1>1, <1>2, OnlySlotsChange DEF Crash

-----------------------------------------------------------------------------
(* The invariant.                                                          *)

LEMMA InitInv == Init => IndInv
<1> SUFFICES ASSUME Init PROVE IndInv  OBVIOUS
<1>1. PICK id \in [Seed -> RowIds] :
        fga = {[id |-> id[x], user |-> x[1], org |-> x[2], role |-> x[3]] : x \in Seed}
    BY DEF Init
<1>2. ASSUME NEW x \in Seed
      PROVE  /\ x[1] \in Users /\ x[2] \in Orgs /\ x[3] \in DirectRoles
             /\ ~IsSuperAdmin(x[1])
    BY SeedAssumption
<1>3. FgaTypeOK
    <2>1. fga \subseteq Rows
        BY <1>1, <1>2 DEF Rows
    <2>2. toolAuth \in [Tools -> [Orgs -> Nat]]
        BY DEF Init
    <2> QED  BY <2>1, <2>2 DEF FgaTypeOK
<1>4. CrmTypeOK
    <2>1. PICK name \in [SeededOrgs -> Names] :
            accounts = [o \in Orgs |->
                        IF o \in SeededOrgs
                        THEN [state |-> "present", name |-> name[o], discoverable |-> TRUE]
                        ELSE Unused]
        BY DEF Init
    <2>2. ASSUME NEW o \in SeededOrgs
          PROVE  [state |-> "present", name |-> name[o], discoverable |-> TRUE] \in Account
        BY DEF Account
    <2>3. Unused \in Account
        BY DEF Unused, Account
    <2>4. accounts \in [Orgs -> Account]
        BY <2>1, <2>2, <2>3
    <2>5. links \subseteq Users \X Orgs
        BY <1>2 DEF Init
    <2> QED  BY <2>4, <2>5 DEF CrmTypeOK
<1>5. RequestsTypeOK /\ RequestsSound
    BY DEF Init, RequestsTypeOK, RequestsSound
<1>6. SuperAdminsHoldNoRole
    BY <1>1, <1>2 DEF SuperAdminsHoldNoRole
<1> QED  BY <1>3, <1>4, <1>5, <1>6 DEF IndInv, TypeOK

LEMMA NextInv == IndInv /\ [Next]_vars => IndInv'
<1> SUFFICES ASSUME IndInv, [Next]_vars PROVE IndInv'  OBVIOUS
<1>1. CASE Crash
    BY <1>1, CrashKeepsInv
<1>2. ASSUME NEW s \in Slots, Receive(s)
      PROVE  IndInv'
    BY <1>2, ReceiveKeepsInv
<1>3. ASSUME NEW s \in Slots, Step(s)
      PROVE  IndInv'
    BY <1>3, JoinKeepsInv, UpdateKeepsInv, RemoveKeepsInv, CreateOrgKeepsInv, ToolKeepsInv,
       UndoKeepsInv, RaisesKeepsInv DEF Step, UserStep, OrgStep
<1>4. CASE UNCHANGED vars
    <2>1. RequestsTypeOK' /\ RequestsSound'
        BY <1>4 DEF vars, IndInv, TypeOK, RequestsTypeOK, RequestsSound
    <2> QED  BY <1>4, <2>1, OnlySlotsChange DEF vars
<1> QED  BY <1>1, <1>2, <1>3, <1>4 DEF Next

\* The invariant holds of every reachable state, whatever is interleaved,
\* fails or stops.
THEOREM Invariant == Spec => []IndInv
BY InitInv, NextInv, PTL DEF Spec

\* The tables, the CRM records and the requests keep their types.
THEOREM TypeCorrect == Spec => []TypeOK
<1>1. IndInv => TypeOK  BY DEF IndInv
<1> QED  BY <1>1, Invariant, PTL

\* A superadmin never holds a direct role: the checks of the join, update and
\* create handlers protect the writes that come calls later, with any number
\* of requests in between, any call failing and the process stopping anywhere.
THEOREM SuperAdminsStayOut == Spec => []SuperAdminsHoldNoRole
<1>1. IndInv => SuperAdminsHoldNoRole  BY DEF IndInv
<1> QED  BY <1>1, Invariant, PTL

\* Requests past their checks remain what the checks let through.
THEOREM RequestsStaySound == Spec => []RequestsSound
<1>1. IndInv => RequestsSound  BY DEF IndInv
<1> QED  BY <1>1, Invariant, PTL

-----------------------------------------------------------------------------
(* Who changes what.                                                       *)

\* The steps of a slot that change no direct role and no authorisation of a tool.
LEMMA StepWrites ==
    ASSUME NEW s \in Slots, Step(s)
    PROVE  \/ UNCHANGED <<fga, toolAuth>>
           \/ JoinCreateRole(s) \/ UpdateCreateRole(s) \/ UpdateMerge(s) \/ RemoveDelete(s)
           \/ CreateOrgRole(s) \/ AuthoriseWrite(s) \/ RevokeWrite(s)
<1>1. CASE UserStep(s)
    BY <1>1 DEF UserStep, JoinStep, UpdateStep, RemoveStep, UserCallRaises, JoinCheck, JoinLink,
       JoinNotify, UpdateCheck, UpdateReadLink, UpdateRepairLink, UpdateReadRole, RemoveCheck,
       RemoveReadRole, RemoveReadOrg, fgaVars
<1>2. CASE OrgStep(s)
    BY <1>2 DEF OrgStep, CreateOrgStep, ToolStep, OrgCallRaises, CreateOrgCheck, CreateOrgAccount,
       CreateOrgLink, CreateOrgContact, AuthoriseCheck, RevokeCheck, fgaVars
<1>3. CASE Undo(s)
    BY <1>3 DEF Undo, RunUndoAction, UndoActionRaises, UndoEnds, fgaVars
<1> QED  BY <1>1, <1>2, <1>3 DEF Step

LEMMA RolesAndToolsChange ==
    ASSUME [Next]_vars
    PROVE  \/ UNCHANGED <<fga, toolAuth>>
           \/ \E s \in Slots :
                \/ JoinCreateRole(s) \/ UpdateCreateRole(s) \/ UpdateMerge(s) \/ RemoveDelete(s)
                \/ CreateOrgRole(s) \/ AuthoriseWrite(s) \/ RevokeWrite(s)
<1>1. CASE UNCHANGED vars \/ Crash
    BY <1>1 DEF vars, Crash
<1>2. ASSUME NEW s \in Slots, Receive(s)
      PROVE  UNCHANGED <<fga, toolAuth>>
    BY <1>2 DEF Receive, ReceiveUserRequest, ReceiveOrgRequest, ReceiveJoin, ReceiveUpdate,
       ReceiveRemove, ReceiveCreateOrg, ReceiveToolRequest
<1> QED  BY <1>1, <1>2, StepWrites DEF Next

\* The write that gives u a role in o, and the request it belongs to.
Promotes(s, u, o) ==
    /\ req[s].pc \in {"create_role", "merge"}
    /\ req[s].org = o
    /\ req[s].target = u
    /\ \/ req[s].op = "update" /\ req[s].authz \in {"ADMIN", "SUPER_ADMIN"}
       \/ req[s].op = "create_org"

LEMMA CallerOfUpdate ==
    ASSUME NEW authority, CanModifyUserRoles(authority)
    PROVE  authority \in {"ADMIN", "SUPER_ADMIN"}
BY DEF CanModifyUserRoles, Can, Permissions

LEMMA PromotionStep ==
    ASSUME IndInv, [Next]_vars, NEW u \in Users, NEW o \in Orgs, NEW role \in AssignableRoles,
           ~Holds(u, o, role), Holds(u, o, role)'
    PROVE  \E s \in Slots : Promotes(s, u, o)
<1>1. PICK r \in fga' : r \notin fga /\ r.user = u /\ r.org = o /\ r.role = role
    BY DEF Holds
<1>2. ASSUME NEW s \in Slots, JoinCreateRole(s)
      PROVE  FALSE
    <2>1. GoodRequest(req[s]) /\ req[s].op = "join"
        BY <1>2, BusySlot DEF JoinCreateRole, At
    <2>2. req[s].role = "CONTRIBUTOR_PENDING"
        BY <2>1 DEF GoodRequest, SoundRequest, SoundArrival
    <2>3. r.role = "CONTRIBUTOR_PENDING"
        BY <1>1, <1>2, <2>2 DEF JoinCreateRole, CreateRow, fgaVars
    <2> QED  BY <1>1, <2>3 DEF AssignableRoles
<1>3. ASSUME NEW s \in Slots, UpdateCreateRole(s)
      PROVE  Promotes(s, u, o)
    <2>1. req[s].pc = "create_role" /\ req[s].op = "update" /\ CanModifyUserRoles(req[s].authz)
        BY <1>3, UpdateUnderWay DEF UpdateCreateRole, At
    <2>2. r.org = req[s].org /\ r.user = req[s].target
        BY <1>1, <1>3 DEF UpdateCreateRole, CreateRow
    <2> QED  BY <1>1, <2>1, <2>2, CallerOfUpdate DEF Promotes
<1>4. ASSUME NEW s \in Slots, UpdateMerge(s)
      PROVE  Promotes(s, u, o)
    <2>1. /\ GoodRequest(req[s]) /\ CanModifyUserRoles(req[s].authz)
          /\ req[s].pc = "merge" /\ req[s].op = "update"
        BY <1>4, UpdateUnderWay DEF UpdateMerge, At
    <2>2. r \in req[s].held
        BY <1>1, <1>4 DEF UpdateMerge, MergeRow
    <2>3. r.org = req[s].org /\ r.user = req[s].target
        BY <2>1, <2>2 DEF GoodRequest, SoundRequest, SoundHeld
    <2> QED  BY <1>1, <2>1, <2>3, CallerOfUpdate DEF Promotes
<1>5. ASSUME NEW s \in Slots, RemoveDelete(s)
      PROVE  FALSE
    BY <1>1, <1>5 DEF RemoveDelete, DeleteRole
<1>6. ASSUME NEW s \in Slots, CreateOrgRole(s)
      PROVE  Promotes(s, u, o)
    <2>1. req[s].pc = "create_role" /\ req[s].op = "create_org"
        BY <1>6 DEF CreateOrgRole, At
    <2>2. r.org = req[s].org /\ r.user = req[s].target
        BY <1>1, <1>6 DEF CreateOrgRole, CreateRow, fgaVars
    <2> QED  BY <1>1, <2>1, <2>2 DEF Promotes
<1>7. ASSUME NEW s \in Slots, AuthoriseWrite(s) \/ RevokeWrite(s)
      PROVE  FALSE
    BY <1>1, <1>7 DEF AuthoriseWrite, RevokeWrite, AuthoriseTool, RevokeTool
<1> QED
    BY <1>1, <1>2, <1>3, <1>4, <1>5, <1>6, <1>7, RolesAndToolsChange

\* Nobody is promoted but by an admin of that organisation, a superadmin or
\* their own creation of it: the authority of the snapshot and the row that
\* was read stay tied to the request that writes.
THEOREM PromotionIsAuthorised == Spec => PromotionByAuthority
<1>1. IndInv /\ [Next]_vars =>
        [\A u \in Users, o \in Orgs, role \in AssignableRoles :
            ~Holds(u, o, role) /\ Holds(u, o, role)' =>
                \E s \in Slots :
                    /\ req[s].pc \in {"create_role", "merge"}
                    /\ req[s].org = o
                    /\ req[s].target = u
                    /\ \/ req[s].op = "update" /\ req[s].authz \in {"ADMIN", "SUPER_ADMIN"}
                       \/ req[s].op = "create_org"]_vars
    BY PromotionStep DEF Promotes
<1> QED  BY <1>1, Invariant, PTL DEF Spec, PromotionByAuthority

LEMMA CallerOfToolWrite ==
    ASSUME NEW authority, CanUpdateToolAuthorisations(authority)
    PROVE  authority \in {"ADMIN", "EDITOR", "SUPER_ADMIN"}
BY DEF CanUpdateToolAuthorisations, Permissions

LEMMA ToolChangeStep ==
    ASSUME IndInv, [Next]_vars, NEW t \in Tools, NEW o \in Orgs,
           (t \in ToolsOf(o)) # (t \in ToolsOf(o))'
    PROVE  \E s \in Slots : /\ req[s].pc = "write_tool"
                            /\ req[s].org = o
                            /\ req[s].tool = t
                            /\ req[s].authz \in {"ADMIN", "EDITOR", "SUPER_ADMIN"}
<1>1. toolAuth'[t][o] # toolAuth[t][o]
    BY DEF ToolsOf
<1>2. PICK s \in Slots : AuthoriseWrite(s) \/ RevokeWrite(s)
    BY <1>1, RolesAndToolsChange DEF JoinCreateRole, UpdateCreateRole, UpdateMerge, RemoveDelete,
       CreateOrgRole, CreateRow, MergeRow, DeleteRole, fgaVars
<1>3. GoodRequest(req[s]) /\ req[s].pc = "write_tool"
    BY <1>2, BusySlot DEF AuthoriseWrite, RevokeWrite, At
<1>4. req[s].tool = t /\ req[s].org = o
    BY <1>1, <1>2 DEF AuthoriseWrite, RevokeWrite, AuthoriseTool, RevokeTool, IndInv, TypeOK, FgaTypeOK
<1>5. req[s].authz \in {"ADMIN", "EDITOR", "SUPER_ADMIN"}
    BY <1>3, CallerOfToolWrite DEF GoodRequest, SoundRequest, SoundCaller
<1> QED  BY <1>3, <1>4, <1>5 DEF Idle

\* A provider admin never changes which tools act for an organisation, though
\* update-org is among their permissions; nor does anyone else but its admins
\* and editors and the superadmins.
THEOREM ToolChangeIsAuthorised == Spec => ToolsByAuthority
<1>1. IndInv /\ [Next]_vars =>
        [\A t \in Tools, o \in Orgs :
            (t \in ToolsOf(o)) # (t \in ToolsOf(o))' =>
                \E s \in Slots :
                    /\ req[s].pc = "write_tool"
                    /\ req[s].org = o
                    /\ req[s].tool = t
                    /\ req[s].authz \in {"ADMIN", "EDITOR", "SUPER_ADMIN"}]_vars
    BY ToolChangeStep
<1> QED  BY <1>1, Invariant, PTL DEF Spec, ToolsByAuthority

-----------------------------------------------------------------------------
(* Users with roles of both kinds.  Joining and changing a role look for   *)
(* tool admins, creating an organisation does not.                         *)

NoToolAdmin(r) == r.op # "create_org" /\ GivesRole(r) => ~IsToolAdmin(r.target)

LockInv ==
    /\ \A r \in fga : ~IsToolAdmin(r.user)
    /\ \A s \in Slots : req[s] # Idle => NoToolAdmin(req[s])

LEMMA SlotKeepsLock ==
    ASSUME IndInv, LockInv, NEW s \in Slots, UNCHANGED fga,
           NEW r, req' = [req EXCEPT ![s] = r], r = Idle \/ NoToolAdmin(r)
    PROVE  LockInv'
<1>1. \A t \in Slots : req'[t] = IF t = s THEN r ELSE req[t]
    BY DEF IndInv, TypeOK, RequestsTypeOK
<1>2. ASSUME NEW t \in Slots, req'[t] # Idle
      PROVE  NoToolAdmin(req'[t])
    BY <1>1, <1>2 DEF LockInv
<1>3. \A t \in Slots : req'[t] # Idle => NoToolAdmin(req[t])'
    BY <1>2 DEF NoToolAdmin, GivesRole, IsToolAdmin
<1> QED  BY <1>3 DEF LockInv, IsToolAdmin

LEMMA AnswerKeepsLock ==
    ASSUME IndInv, LockInv, NEW s \in Slots, Answer(s), UNCHANGED fga
    PROVE  LockInv'
BY SlotKeepsLock DEF Answer

\* On from one label to another, with the check for tool admins on the way.
LEMMA GotoKeepsLock ==
    ASSUME IndInv, LockInv, NEW s \in Slots, req[s].pc # "idle", NEW label, NEW kept, NEW list,
           req' = [req EXCEPT ![s] = [req[s] EXCEPT !.pc = label, !.held = kept, !.undo = list]],
           UNCHANGED fga,
           \/ req[s].op \in {"create_org", "remove"}
           \/ GivesRole(req[s])
           \/ ~IsToolAdmin(req[s].target)
           \/ label \in {"notify", "undo", "write_tool"}
    PROVE  LockInv'
<1> DEFINE r == [req[s] EXCEPT !.pc = label, !.held = kept, !.undo = list]
<1>1. req[s] \in Request /\ NoToolAdmin(req[s])
    BY BusySlot DEF GoodRequest, LockInv, Idle
<1>2. r.op = req[s].op /\ r.target = req[s].target /\ r.pc = label
    BY <1>1 DEF Request
<1> HIDE DEF r
<1>3. NoToolAdmin(r)
    BY <1>1, <1>2 DEF NoToolAdmin, GivesRole
<1> QED  BY <1>3, SlotKeepsLock DEF r

LEMMA JustMoved ==
    ASSUME IndInv, NEW s \in Slots, req[s].pc # "idle", NEW label, Goto(s, label)
    PROVE  req' = [req EXCEPT ![s] = [req[s] EXCEPT !.pc = label, !.held = req[s].held, !.undo = req[s].undo]]
<1>1. req[s] \in Request  BY BusySlot DEF GoodRequest
<1>2. [req[s] EXCEPT !.pc = label]
        = [req[s] EXCEPT !.pc = label, !.held = req[s].held, !.undo = req[s].undo]
    BY <1>1 DEF Request
<1> QED  BY <1>2 DEF Goto

LEMMA GoneOnKeepsLock ==
    ASSUME IndInv, LockInv, NEW s \in Slots, req[s].pc # "idle", NEW label, Goto(s, label), UNCHANGED fga,
           \/ req[s].op \in {"create_org", "remove"}
           \/ GivesRole(req[s])
           \/ ~IsToolAdmin(req[s].target)
           \/ label \in {"notify", "undo", "write_tool"}
    PROVE  LockInv'
<1> DEFINE held == req[s].held
           list == req[s].undo
<1>1. req' = [req EXCEPT ![s] = [req[s] EXCEPT !.pc = label, !.held = held, !.undo = list]]
    BY JustMoved
<1> HIDE DEF held, list
<1> QED  BY <1>1, GotoKeepsLock

LEMMA ReceiveKeepsLock ==
    ASSUME IndInv, LockInv, NEW s \in Slots, Receive(s)
    PROVE  LockInv'
<1>1. PICK u, r : /\ Accept(s, u, r)
                  /\ GoodRequest(r)
                  /\ r.pc = "check" /\ r.undo = <<>> /\ r.held = {}
                  /\ UNCHANGED <<fga, toolAuth, accounts, links>>
    BY ReceivedRequest
<1>2. NoToolAdmin(r)
    BY <1>1 DEF NoToolAdmin, GivesRole
<1> QED  BY <1>1, <1>2, SlotKeepsLock DEF Accept

\* The rows that are written are about someone who was found to be no tool
\* admin, or who creates an organisation.
LEMMA WriteKeepsLock ==
    ASSUME IndInv, LockInv, ToolAdminsCreateNothing, NEW s \in Slots,
           JoinCreateRole(s) \/ UpdateCreateRole(s) \/ UpdateMerge(s) \/ RemoveDelete(s)
             \/ CreateOrgRole(s)
    PROVE  \A r \in fga' : ~IsToolAdmin(r.user)
<1>1. CASE RemoveDelete(s)
    BY <1>1 DEF RemoveDelete, DeleteRole, LockInv
<1>2. CASE JoinCreateRole(s) \/ UpdateCreateRole(s) \/ UpdateMerge(s) \/ CreateOrgRole(s)
    <2>1. req[s].pc \in {"create_role", "merge"} /\ req[s].op \in {"join", "update", "create_org"}
        BY <1>2 DEF JoinCreateRole, UpdateCreateRole, UpdateMerge, CreateOrgRole, At
    <2>2. GoodRequest(req[s]) /\ NoToolAdmin(req[s]) /\ req[s] # Idle /\ GivesRole(req[s])
        BY <2>1, BusySlot DEF LockInv, Idle, GivesRole
    <2>3. ~IsSuperAdmin(req[s].target)
        BY <2>2 DEF GoodRequest, SoundRequest, SoundTarget
    <2>4. ~IsToolAdmin(req[s].target)
        BY <2>1, <2>2, <2>3 DEF NoToolAdmin, ToolAdminsCreateNothing
    <2>5. \A h \in req[s].held : h.user = req[s].target
        BY <2>2 DEF GoodRequest, SoundRequest, SoundHeld
    <2>6. \A r \in fga' : r \in fga \/ r.user = req[s].target \/ r \in req[s].held
        BY <1>2 DEF JoinCreateRole, UpdateCreateRole, UpdateMerge, CreateOrgRole, CreateRow,
           MergeRow, fgaVars
    <2> QED  BY <2>4, <2>5, <2>6 DEF LockInv
<1> QED  BY <1>1, <1>2

LEMMA WrittenKeepsLock ==
    ASSUME IndInv, LockInv, ToolAdminsCreateNothing, NEW s \in Slots,
           JoinCreateRole(s) \/ UpdateCreateRole(s) \/ UpdateMerge(s) \/ RemoveDelete(s)
             \/ CreateOrgRole(s)
    PROVE  LockInv'
<1> USE DEF JoinCreateRole, UpdateCreateRole, UpdateMerge, RemoveDelete, CreateOrgRole
<1>1. \A r \in fga' : ~IsToolAdmin(r.user)
    BY WriteKeepsLock
<1>2. req[s].pc # "idle" /\ GoodRequest(req[s]) /\ NoToolAdmin(req[s])
    BY BusySlot DEF At, LockInv, Idle
<1>3. \/ req'[s] = Idle
      \/ \E label \in {"contact", "notify", "undo"} : req'[s] = [req[s] EXCEPT !.pc = label]
    BY DEF Answer, Goto, Fail, IndInv, TypeOK, RequestsTypeOK
<1>4. req'[s] # Idle => req'[s].op = req[s].op /\ req'[s].pc \in {"contact", "notify", "undo"}
    BY <1>2, <1>3 DEF GoodRequest, Request
<1>5. \A t \in Slots : t # s => req'[t] = req[t]
    BY DEF Answer, Goto, Fail, IndInv, TypeOK, RequestsTypeOK
<1>6. req'[s] # Idle => NoToolAdmin(req[s])'
    BY <1>2, <1>4 DEF NoToolAdmin, GivesRole
<1>7. ASSUME NEW t \in Slots, t # s, req'[t] # Idle
      PROVE  NoToolAdmin(req[t])'
    BY <1>5, <1>7 DEF LockInv, NoToolAdmin, GivesRole, IsToolAdmin
<1> QED  BY <1>1, <1>6, <1>7 DEF LockInv, IsToolAdmin

LEMMA JoinKeepsLock ==
    ASSUME IndInv, LockInv, ToolAdminsCreateNothing, NEW s \in Slots, JoinStep(s)
    PROVE  LockInv'
<1>1. req[s].pc # "idle" /\ GoodRequest(req[s]) /\ req[s] # Idle
    BY BusySlot DEF JoinStep, JoinCheck, JoinLink, JoinCreateRole, JoinNotify, At, Idle
<1>2. CASE JoinCheck(s)
    BY <1>1, <1>2, GoneOnKeepsLock, AnswerKeepsLock DEF JoinCheck, MayJoin
<1>3. CASE JoinLink(s)
    <2>1. GivesRole(req[s])
        BY <1>3 DEF JoinLink, At, GivesRole
    <2>2. CASE Fail(s)
        BY <1>1, <1>3, <2>2, GoneOnKeepsLock DEF JoinLink, Fail, fgaVars
    <2>3. CASE req' = [req EXCEPT ![s].pc = "create_role",
                                  ![s].undo = Append(@, "delete_relationship")]
        <3> DEFINE list == Append(req[s].undo, "delete_relationship")
        <3>1. [req[s] EXCEPT !.pc = "create_role", !.undo = list]
                = [req[s] EXCEPT !.pc = "create_role", !.held = req[s].held, !.undo = list]
            BY <1>1 DEF GoodRequest, Request
        <3>2. req' = [req EXCEPT ![s] = [req[s] EXCEPT !.pc = "create_role", !.held = req[s].held, !.undo = list]]
            BY <2>3, <3>1
        <3> HIDE DEF list
        <3> QED  BY <1>1, <1>3, <2>1, <3>2, GotoKeepsLock DEF JoinLink, fgaVars
    <2> QED  BY <1>3, <2>2, <2>3 DEF JoinLink
<1>4. CASE JoinCreateRole(s)
    BY <1>4, WrittenKeepsLock
<1>5. CASE JoinNotify(s)
    BY <1>1, <1>5, GoneOnKeepsLock, AnswerKeepsLock DEF JoinNotify, Fail
<1> QED  BY <1>2, <1>3, <1>4, <1>5 DEF JoinStep

LEMMA UpdateKeepsLock ==
    ASSUME IndInv, LockInv, ToolAdminsCreateNothing, NEW s \in Slots, UpdateStep(s)
    PROVE  LockInv'
<1>1. req[s].pc # "idle" /\ GoodRequest(req[s]) /\ req[s] # Idle
    BY BusySlot DEF UpdateStep, UpdateCheck, UpdateReadLink, UpdateRepairLink, UpdateReadRole,
       UpdateCreateRole, UpdateMerge, At, Idle
<1>2. CASE UpdateCheck(s)
    BY <1>1, <1>2, GoneOnKeepsLock, AnswerKeepsLock DEF UpdateCheck, MayUpdateRole
<1>3. CASE UpdateReadLink(s)
    BY <1>1, <1>3, GoneOnKeepsLock DEF UpdateReadLink, At, GivesRole
<1>4. CASE UpdateRepairLink(s)
    BY <1>1, <1>4, GoneOnKeepsLock, AnswerKeepsLock DEF UpdateRepairLink, At, GivesRole, fgaVars
<1>5. CASE UpdateReadRole(s)
    <2>1. GivesRole(req[s])
        BY <1>5 DEF UpdateReadRole, At, GivesRole
    <2>2. ASSUME NEW kept, req' = [req EXCEPT ![s].pc = "merge", ![s].held = kept]
          PROVE  LockInv'
        <3>1. [req[s] EXCEPT !.pc = "merge", !.held = kept]
                = [req[s] EXCEPT !.pc = "merge", !.held = kept, !.undo = req[s].undo]
            BY <1>1 DEF GoodRequest, Request
        <3>2. req' = [req EXCEPT ![s] = [req[s] EXCEPT !.pc = "merge", !.held = kept, !.undo = req[s].undo]]
            BY <2>2, <3>1
        <3> QED  BY <1>1, <1>5, <2>1, <3>2, GotoKeepsLock DEF UpdateReadRole
    <2> QED
        BY <1>1, <1>5, <2>1, <2>2, GoneOnKeepsLock, AnswerKeepsLock DEF UpdateReadRole
<1>6. CASE UpdateCreateRole(s) \/ UpdateMerge(s)
    BY <1>6, WrittenKeepsLock
<1> QED  BY <1>2, <1>3, <1>4, <1>5, <1>6 DEF UpdateStep

LEMMA RemoveKeepsLock ==
    ASSUME IndInv, LockInv, ToolAdminsCreateNothing, NEW s \in Slots, RemoveStep(s)
    PROVE  LockInv'
<1>1. req[s].pc # "idle" /\ GoodRequest(req[s]) /\ req[s].op = "remove"
    BY BusySlot DEF RemoveStep, RemoveCheck, RemoveReadRole, RemoveReadOrg, RemoveDelete, At
<1>2. CASE RemoveReadRole(s)
    <2>1. ASSUME NEW kept, req' = [req EXCEPT ![s].pc = "read_org", ![s].held = kept]
          PROVE  LockInv'
        <3>1. [req[s] EXCEPT !.pc = "read_org", !.held = kept]
                = [req[s] EXCEPT !.pc = "read_org", !.held = kept, !.undo = req[s].undo]
            BY <1>1 DEF GoodRequest, Request
        <3>2. req' = [req EXCEPT ![s] = [req[s] EXCEPT !.pc = "read_org", !.held = kept, !.undo = req[s].undo]]
            BY <2>1, <3>1
        <3> QED  BY <1>1, <1>2, <3>2, GotoKeepsLock DEF RemoveReadRole
    <2> QED  BY <1>2, <2>1, AnswerKeepsLock DEF RemoveReadRole
<1>3. CASE RemoveCheck(s) \/ RemoveReadOrg(s)
    BY <1>1, <1>3, GoneOnKeepsLock, AnswerKeepsLock DEF RemoveCheck, RemoveReadOrg
<1>4. CASE RemoveDelete(s)
    BY <1>4, WrittenKeepsLock
<1> QED  BY <1>2, <1>3, <1>4 DEF RemoveStep

LEMMA CreateOrgKeepsLock ==
    ASSUME IndInv, LockInv, ToolAdminsCreateNothing, NEW s \in Slots, CreateOrgStep(s)
    PROVE  LockInv'
<1>1. req[s].pc # "idle" /\ GoodRequest(req[s]) /\ req[s].op = "create_org"
    BY BusySlot DEF CreateOrgStep, CreateOrgCheck, CreateOrgAccount, CreateOrgLink,
       CreateOrgRole, CreateOrgContact, At
<1>2. CASE CreateOrgRole(s)
    BY <1>2, WrittenKeepsLock
<1>3. CASE CreateOrgCheck(s) \/ CreateOrgContact(s)
    BY <1>1, <1>3, GoneOnKeepsLock, AnswerKeepsLock DEF CreateOrgCheck, CreateOrgContact, Fail
<1>4. CASE CreateOrgAccount(s) \/ CreateOrgLink(s)
    <2>1. UNCHANGED fga
        BY <1>4 DEF CreateOrgAccount, CreateOrgLink, fgaVars
    <2>2. CASE Fail(s)
        BY <1>1, <2>1, <2>2, GoneOnKeepsLock DEF Fail
    <2>3. ASSUME NEW r, req' = [req EXCEPT ![s] = r], r.op = "create_org"
          PROVE  LockInv'
        BY <2>1, <2>3, SlotKeepsLock DEF NoToolAdmin
    <2>4. ASSUME NEW label, NEW o, NEW list,
                 req' = [req EXCEPT ![s].pc = label, ![s].org = o, ![s].undo = list]
          PROVE  LockInv'
        <3> DEFINE r == [req[s] EXCEPT !.pc = label, !.org = o, !.undo = list]
        <3>1. req' = [req EXCEPT ![s] = r]
            BY <2>4
        <3>2. r.op = "create_org"
            BY <1>1 DEF GoodRequest, Request
        <3> HIDE DEF r
        <3> QED  BY <2>3, <3>1, <3>2
    <2>5. ASSUME NEW label, NEW list,
                 req' = [req EXCEPT ![s].pc = label, ![s].undo = list]
          PROVE  LockInv'
        <3> DEFINE r == [req[s] EXCEPT !.pc = label, !.undo = list]
        <3>1. req' = [req EXCEPT ![s] = r]
            BY <2>5
        <3>2. r.op = "create_org"
            BY <1>1 DEF GoodRequest, Request
        <3> HIDE DEF r
        <3> QED  BY <2>3, <3>1, <3>2
    <2>6. CASE CreateOrgAccount(s)
        <3>1. CASE ~Fail(s)
            <4>1. PICK o \in Orgs :
                    req' = [req EXCEPT ![s].pc = AfterAccount(req[s]), ![s].org = o,
                                       ![s].undo = Append(req[s].undo, "delete_account")]
                BY <2>6, <3>1 DEF CreateOrgAccount
            <4> QED  BY <2>4, <4>1
        <3> QED  BY <2>2, <3>1
    <2>7. CASE CreateOrgLink(s)
        <3>1. CASE ~Fail(s)
            <4>1. req' = [req EXCEPT ![s].pc = "create_role",
                                     ![s].undo = Append(req[s].undo, "delete_relationship")]
                BY <2>7, <3>1 DEF CreateOrgLink
            <4> QED  BY <2>5, <4>1
        <3> QED  BY <2>2, <3>1
    <2> QED  BY <1>4, <2>6, <2>7
<1> QED  BY <1>2, <1>3, <1>4 DEF CreateOrgStep

LEMMA OtherStepsKeepLock ==
    ASSUME IndInv, LockInv, ToolAdminsCreateNothing, NEW s \in Slots,
           OrgStep(s) \/ Undo(s) \/ UserCallRaises(s)
    PROVE  LockInv'
<1>1. CASE CreateOrgStep(s)
    BY <1>1, CreateOrgKeepsLock
<1>2. CASE ToolStep(s)
    <2>1. req[s].pc # "idle" /\ UNCHANGED fga
        BY <1>2 DEF ToolStep, AuthoriseCheck, AuthoriseWrite, RevokeCheck, RevokeWrite, At,
           AuthoriseTool, RevokeTool
    <2> QED
        BY <1>2, <2>1, GoneOnKeepsLock, AnswerKeepsLock
        DEF ToolStep, AuthoriseCheck, AuthoriseWrite, RevokeCheck, RevokeWrite
<1>3. CASE RunUndoAction(s)
    <2> DEFINE r == [req[s] EXCEPT !.undo = Popped(@)]
    <2>1. GoodRequest(req[s]) /\ NoToolAdmin(req[s]) /\ req[s].pc = "undo"
        BY <1>3, BusySlot DEF RunUndoAction, LockInv, Idle
    <2>2. r.op = req[s].op /\ r.pc = "undo" /\ r.target = req[s].target
        BY <2>1 DEF GoodRequest, Request
    <2>3. req' = [req EXCEPT ![s] = r] /\ UNCHANGED fga
        BY <1>3 DEF RunUndoAction, fgaVars
    <2> HIDE DEF r
    <2>4. NoToolAdmin(r)
        BY <2>1, <2>2 DEF NoToolAdmin, GivesRole
    <2> QED  BY <2>3, <2>4, SlotKeepsLock
<1>4. CASE UndoActionRaises(s) \/ UndoEnds(s) \/ OrgCallRaises(s) \/ UserCallRaises(s)
    BY <1>4, AnswerKeepsLock DEF UndoActionRaises, UndoEnds, OrgCallRaises, UserCallRaises
<1> QED  BY <1>1, <1>2, <1>3, <1>4 DEF OrgStep, Undo

LEMMA InitLock == Init => LockInv
<1> SUFFICES ASSUME Init PROVE LockInv  OBVIOUS
<1>1. PICK id \in [Seed -> RowIds] :
        fga = {[id |-> id[x], user |-> x[1], org |-> x[2], role |-> x[3]] : x \in Seed}
    BY DEF Init
<1>2. \A x \in Seed : ~IsToolAdmin(x[1])
    BY SeedAssumption
<1> QED  BY <1>1, <1>2 DEF Init, LockInv

LEMMA NextLock ==
    ASSUME IndInv, LockInv, ToolAdminsCreateNothing, [Next]_vars
    PROVE  LockInv'
<1>1. CASE Crash
    BY <1>1 DEF Crash, LockInv, IsToolAdmin
<1>2. CASE UNCHANGED vars
    BY <1>2 DEF vars, LockInv, NoToolAdmin, GivesRole, IsToolAdmin
<1> QED
    BY <1>1, <1>2, ReceiveKeepsLock, JoinKeepsLock, UpdateKeepsLock, RemoveKeepsLock, OtherStepsKeepLock
    DEF Next, Step, UserStep

\* As long as no tool admin creates an organisation, nobody comes to hold
\* direct and tool-derived roles, for which every request of theirs would be
\* refused: whoever is given a role was found to be no tool admin, however
\* long before.
THEOREM NobodyIsLockedOut == Spec /\ []ToolAdminsCreateNothing => []NobodyLockedOut
<1>1. IndInv /\ LockInv /\ ToolAdminsCreateNothing /\ [Next]_vars => LockInv'
    BY NextLock
<1>2. LockInv => NobodyLockedOut
    BY DEF LockInv, NobodyLockedOut, PermissionsConflict, RowsOfUser, ProviderTools, IsToolAdmin, ToolsOf
<1> QED  BY <1>1, <1>2, InitLock, Invariant, PTL DEF Spec

-----------------------------------------------------------------------------
(* Removals.  A row of the table of direct roles, and every copy of it     *)
(* that a handler holds on to, belongs for ever to one user and one        *)
(* organisation.  That is what keeps a late merge from taking the place of *)
(* someone else's row, and so leaves the removal of a user as the only way *)
(* to lose a role.                                                         *)

\* The associations that handlers have read and hold on to.
Kept == UNION {req[s].held : s \in {t \in Slots : req[t] # Idle}}

Known == fga \cup Kept

SamePair(x, y) == x.user = y.user /\ x.org = y.org

IdsMatch == \A x, y \in Known : x.id = y.id => SamePair(x, y)

\* x is a copy of a row that was known already, up to the role it gives.
Descends(x) == \E y \in Known : y.id = x.id /\ SamePair(x, y)

-----------------------------------------------------------------------------

\* Only copies of what is known: nothing can come to differ.
LEMMA OnlyCopies ==
    ASSUME IdsMatch, \A x \in Known' : Descends(x)
    PROVE  IdsMatch'
BY DEF IdsMatch, Descends, SamePair

\* Copies, and one row with an id that is not known.
LEMMA CopiesAndOne ==
    ASSUME IdsMatch, NEW n, \A y \in Known : y.id # n.id,
           \A x \in Known' : x = n \/ Descends(x)
    PROVE  IdsMatch'
BY DEF IdsMatch, Descends, SamePair

\* What a slot holds on to after a step, unless it has just read it.
KeepsHeld(s) ==
    \/ req'[s] = Idle
    \/ req'[s].held = {}
    \/ req[s] # Idle /\ req'[s].held = req[s].held

LEMMA KeptDescends ==
    ASSUME \A s \in Slots : KeepsHeld(s) \/ \A x \in req'[s].held : Descends(x)
    PROVE  \A x \in Kept' : Descends(x)
<1> SUFFICES ASSUME NEW s \in Slots, req'[s] # Idle, NEW x \in req'[s].held
             PROVE  Descends(x)
    BY DEF Kept
<1>1. CASE req[s] # Idle /\ x \in req[s].held
    <2>1. x \in Known  BY <1>1 DEF Known, Kept
    <2> QED  BY <2>1 DEF Descends, SamePair
<1> QED  BY <1>1 DEF KeepsHeld

LEMMA RowDescends ==
    ASSUME NEW x \in fga
    PROVE  Descends(x)
BY DEF Descends, Known, SamePair

LEMMA HeldDescends ==
    ASSUME NEW s \in Slots, req[s] # Idle, NEW x \in req[s].held
    PROVE  Descends(x)
<1>1. x \in Known  BY DEF Known, Kept
<1> QED  BY <1>1 DEF Descends, SamePair

-----------------------------------------------------------------------------
(* What the steps of a slot do to what it holds.                           *)

\* The two reads that a handler keeps.
Reads(s) == UpdateReadRole(s) \/ RemoveReadRole(s)

\* A slot that changes nothing but its label and its lists keeps what it holds.
LEMMA SlotKeepsHeld ==
    ASSUME IndInv, NEW s \in Slots, NEW r, req' = [req EXCEPT ![s] = r],
           \/ r = Idle
           \/ r.held = {}
           \/ req[s] # Idle /\ r.held = req[s].held
    PROVE  \A t \in Slots : KeepsHeld(t)
<1>1. \A t \in Slots : req'[t] = IF t = s THEN r ELSE req[t]
    BY DEF IndInv, TypeOK, RequestsTypeOK
<1> QED  BY <1>1 DEF KeepsHeld

LEMMA GotoKeepsHeld ==
    ASSUME IndInv, NEW s \in Slots, req[s].pc # "idle", NEW label, Goto(s, label)
    PROVE  \A t \in Slots : KeepsHeld(t)
<1>1. req[s] \in Request /\ req[s] # Idle
    BY BusySlot DEF GoodRequest, Idle
<1>2. [req[s] EXCEPT !.pc = label].held = req[s].held
    BY <1>1 DEF Request
<1> QED  BY <1>1, <1>2, SlotKeepsHeld DEF Goto

LEMMA AnswerKeepsHeld ==
    ASSUME IndInv, NEW s \in Slots, Answer(s)
    PROVE  \A t \in Slots : KeepsHeld(t)
BY SlotKeepsHeld DEF Answer

LEMMA StepKeepsHeld ==
    ASSUME IndInv, NEW s \in Slots, Step(s), ~Reads(s)
    PROVE  \A t \in Slots : KeepsHeld(t)
<1>1. CASE Answer(s) \/ (\E label : Goto(s, label) /\ req[s].pc # "idle")
    BY <1>1, GotoKeepsHeld, AnswerKeepsHeld
<1>2. CASE JoinLink(s) \/ CreateOrgLink(s)
    <2>1. req[s].pc # "idle"
        BY <1>2 DEF JoinLink, CreateOrgLink, At
    <2>2. CASE req' = [req EXCEPT ![s].pc = "create_role",
                                  ![s].undo = Append(@, "delete_relationship")]
        <3> DEFINE r == [req[s] EXCEPT !.pc = "create_role", !.undo = Append(@, "delete_relationship")]
        <3>1. r.held = req[s].held /\ req[s] # Idle
            BY <2>1, BusySlot DEF GoodRequest, Request, Idle
        <3>2. req' = [req EXCEPT ![s] = r]
            BY <2>2
        <3> HIDE DEF r
        <3> QED  BY <3>1, <3>2, SlotKeepsHeld
    <2> QED  BY <1>1, <1>2, <2>1, <2>2 DEF JoinLink, CreateOrgLink, Fail
<1>3. CASE CreateOrgAccount(s)
    <2>1. req[s].pc # "idle"
        BY <1>3 DEF CreateOrgAccount, At
    <2>2. ASSUME NEW o \in Orgs,
                 req' = [req EXCEPT ![s].pc = AfterAccount(req[s]),
                                    ![s].org = o,
                                    ![s].undo = Append(@, "delete_account")]
          PROVE  \A t \in Slots : KeepsHeld(t)
        <3> DEFINE r == [req[s] EXCEPT !.pc = AfterAccount(req[s]), !.org = o,
                                       !.undo = Append(@, "delete_account")]
        <3>1. r.held = req[s].held /\ req[s] # Idle
            BY <2>1, BusySlot DEF GoodRequest, Request, Idle
        <3>2. req' = [req EXCEPT ![s] = r]
            BY <2>2
        <3> HIDE DEF r
        <3> QED  BY <3>1, <3>2, SlotKeepsHeld
    <2> QED  BY <1>1, <1>3, <2>1, <2>2 DEF CreateOrgAccount, Fail
<1>4. CASE RunUndoAction(s)
    <2> DEFINE r == [req[s] EXCEPT !.undo = Popped(@)]
    <2>1. r.held = req[s].held /\ req[s] # Idle
        BY <1>4, BusySlot DEF RunUndoAction, GoodRequest, Request, Idle
    <2>2. req' = [req EXCEPT ![s] = r]
        BY <1>4 DEF RunUndoAction
    <2> HIDE DEF r
    <2> QED  BY <2>1, <2>2, SlotKeepsHeld
<1>5. CASE JoinStep(s) /\ ~JoinLink(s)
    BY <1>1, <1>5 DEF JoinStep, JoinCheck, JoinCreateRole, JoinNotify, Fail, At
<1>6. CASE UpdateStep(s) /\ ~UpdateReadRole(s)
    BY <1>1, <1>6 DEF UpdateStep, UpdateCheck, UpdateReadLink, UpdateRepairLink, UpdateCreateRole,
       UpdateMerge, At
<1>7. CASE RemoveStep(s) /\ ~RemoveReadRole(s)
    BY <1>1, <1>7 DEF RemoveStep, RemoveCheck, RemoveReadOrg, RemoveDelete, At
<1>8. CASE CreateOrgStep(s) /\ ~CreateOrgAccount(s) /\ ~CreateOrgLink(s)
    BY <1>1, <1>8 DEF CreateOrgStep, CreateOrgCheck, CreateOrgRole, CreateOrgContact, Fail, At
<1>9. CASE ToolStep(s)
    BY <1>1, <1>9 DEF ToolStep, AuthoriseCheck, AuthoriseWrite, RevokeCheck, RevokeWrite, At
<1>10. CASE UserCallRaises(s) \/ OrgCallRaises(s) \/ UndoActionRaises(s) \/ UndoEnds(s)
    BY <1>1, <1>10 DEF UserCallRaises, OrgCallRaises, UndoActionRaises, UndoEnds
<1> QED
    BY <1>2, <1>3, <1>4, <1>5, <1>6, <1>7, <1>8, <1>9, <1>10
    DEF Reads, Step, UserStep, OrgStep, Undo

\* The reads keep copies of rows of the table.
LEMMA ReadsDescend ==
    ASSUME IndInv, NEW s \in Slots, Reads(s)
    PROVE  \A t \in Slots : KeepsHeld(t) \/ \A x \in req'[t].held : Descends(x)
<1> DEFINE rows == RowsFor(req[s].target, req[s].org)
<1>1. req[s].pc # "idle" /\ req[s] \in Request /\ req[s] # Idle
    BY BusySlot DEF Reads, UpdateReadRole, RemoveReadRole, At, GoodRequest, Idle
<1>2. CASE Answer(s) \/ Goto(s, "create_role")
    BY <1>1, <1>2, GotoKeepsHeld, AnswerKeepsHeld
<1>3. CASE req' = [req EXCEPT ![s].pc = "read_org", ![s].held = rows]
    <2>1. req'[s].held = rows /\ \A t \in Slots : t # s => req'[t] = req[t]
        BY <1>1, <1>3 DEF IndInv, TypeOK, RequestsTypeOK, Request
    <2>2. \A x \in rows : Descends(x)
        BY RowDescends DEF RowsFor
    <2> QED  BY <2>1, <2>2 DEF KeepsHeld
<1>4. ASSUME NEW row \in rows,
             req' = [req EXCEPT ![s].pc = "merge", ![s].held = {[row EXCEPT !.role = req[s].role]}]
      PROVE  \A t \in Slots : KeepsHeld(t) \/ \A x \in req'[t].held : Descends(x)
    <2> DEFINE kept == [row EXCEPT !.role = req[s].role]
    <2>1. row \in fga /\ row \in Rows
        BY DEF RowsFor, IndInv, TypeOK, FgaTypeOK
    <2>2. kept.id = row.id /\ kept.user = row.user /\ kept.org = row.org
        BY <2>1 DEF Rows
    <2>3. Descends(kept)
        <3> HIDE DEF kept
        <3> QED  BY <2>1, <2>2 DEF Descends, Known, SamePair
    <2>4. req'[s].held = {kept} /\ \A t \in Slots : t # s => req'[t] = req[t]
        BY <1>1, <1>4 DEF IndInv, TypeOK, RequestsTypeOK, Request
    <2> HIDE DEF kept
    <2> QED  BY <2>3, <2>4 DEF KeepsHeld
<1> QED  BY <1>2, <1>3, <1>4 DEF Reads, UpdateReadRole, RemoveReadRole

-----------------------------------------------------------------------------
(* The invariant.                                                          *)

LEMMA InitIds == Init => IdsMatch
<1> SUFFICES ASSUME Init PROVE IdsMatch  OBVIOUS
<1>1. PICK id \in [Seed -> RowIds] :
        /\ \A x, y \in Seed : id[x] = id[y] => x = y
        /\ fga = {[id |-> id[x], user |-> x[1], org |-> x[2], role |-> x[3]] : x \in Seed}
    BY DEF Init
<1>2. Kept = {}
    BY DEF Init, Kept
<1>3. ASSUME NEW x \in Seed, NEW y \in Seed, id[x] = id[y]
      PROVE  x = y
    BY <1>1, <1>3
<1> QED  BY <1>1, <1>2, <1>3 DEF IdsMatch, Known, SamePair

\* Rows only disappear, change their role, or get an id nobody knows.
LEMMA CreatedIds ==
    ASSUME IndInv, IdsMatch, NEW i \in FreshIds, NEW u, NEW o, NEW role, CreateRow(i, u, o, role),
           \A x \in Kept' : Descends(x)
    PROVE  IdsMatch'
<1> DEFINE n == [id |-> i, user |-> u, org |-> o, role |-> role]
<1>1. \A y \in Known : y.id # n.id
    BY DEF FreshIds, Known, Kept
<1>2. \A x \in Known' : x = n \/ Descends(x)
    BY RowDescends DEF Known, CreateRow
<1> HIDE DEF n
<1> QED  BY <1>1, <1>2, CopiesAndOne

LEMMA SameOrFewerIds ==
    ASSUME IdsMatch, \A x \in Kept' : Descends(x), \A x \in fga' : Descends(x)
    PROVE  IdsMatch'
BY OnlyCopies DEF Known

LEMMA StepIds ==
    ASSUME IndInv, IdsMatch, NEW s \in Slots, Step(s)
    PROVE  IdsMatch'
<1>1. \A x \in Kept' : Descends(x)
    BY StepKeepsHeld, ReadsDescend, KeptDescends
<1>2. CASE UNCHANGED fga
    BY <1>1, <1>2, RowDescends, SameOrFewerIds
<1>3. CASE JoinCreateRole(s) \/ UpdateCreateRole(s) \/ CreateOrgRole(s)
    BY <1>1, <1>2, <1>3, CreatedIds DEF JoinCreateRole, UpdateCreateRole, CreateOrgRole, fgaVars
<1>4. CASE RemoveDelete(s)
    <2>1. fga' \subseteq fga
        BY <1>4 DEF RemoveDelete, DeleteRole
    <2> QED  BY <1>1, <2>1, RowDescends, SameOrFewerIds
<1>5. CASE UpdateMerge(s)
    <2>1. req[s] # Idle
        BY <1>5 DEF UpdateMerge, At, Idle
    <2>2. \A x \in fga' : x \in fga \/ x \in req[s].held
        BY <1>5 DEF UpdateMerge, MergeRow
    <2> QED  BY <1>1, <2>1, <2>2, RowDescends, HeldDescends, SameOrFewerIds
<1>6. CASE AuthoriseWrite(s) \/ RevokeWrite(s)
    BY <1>2, <1>6 DEF AuthoriseWrite, RevokeWrite, AuthoriseTool, RevokeTool
<1>7. CASE JoinStep(s) /\ ~JoinCreateRole(s)
    BY <1>2, <1>7 DEF JoinStep, JoinCheck, JoinLink, JoinNotify, fgaVars
<1>8. CASE UpdateStep(s) /\ ~UpdateCreateRole(s) /\ ~UpdateMerge(s)
    BY <1>2, <1>8 DEF UpdateStep, UpdateCheck, UpdateReadLink, UpdateRepairLink, UpdateReadRole, fgaVars
<1>9. CASE RemoveStep(s) /\ ~RemoveDelete(s)
    BY <1>2, <1>9 DEF RemoveStep, RemoveCheck, RemoveReadRole, RemoveReadOrg
<1>10. CASE CreateOrgStep(s) /\ ~CreateOrgRole(s)
    BY <1>2, <1>10 DEF CreateOrgStep, CreateOrgCheck, CreateOrgAccount, CreateOrgLink, CreateOrgContact, fgaVars
<1>11. CASE ToolStep(s) /\ ~AuthoriseWrite(s) /\ ~RevokeWrite(s)
    BY <1>2, <1>11 DEF ToolStep, AuthoriseCheck, RevokeCheck
<1>12. CASE Undo(s) \/ UserCallRaises(s) \/ OrgCallRaises(s)
    BY <1>2, <1>12 DEF Undo, RunUndoAction, UndoActionRaises, UndoEnds, UserCallRaises, OrgCallRaises, fgaVars
<1> QED
    BY <1>3, <1>4, <1>5, <1>6, <1>7, <1>8, <1>9, <1>10, <1>11, <1>12 DEF Step, UserStep, OrgStep

LEMMA NextIds == IndInv /\ IdsMatch /\ [Next]_vars => IdsMatch'
<1> SUFFICES ASSUME IndInv, IdsMatch, [Next]_vars PROVE IdsMatch'  OBVIOUS
<1>1. ASSUME NEW s \in Slots, Step(s)
      PROVE  IdsMatch'
    BY <1>1, StepIds
<1>2. ASSUME NEW s \in Slots, Receive(s)
      PROVE  IdsMatch'
    <2>1. PICK u, r : /\ Accept(s, u, r)
                      /\ GoodRequest(r)
                      /\ r.pc = "check" /\ r.undo = <<>> /\ r.held = {}
                      /\ UNCHANGED <<fga, toolAuth, accounts, links>>
        BY <1>2, ReceivedRequest
    <2>2. \A x \in Kept' : Descends(x)
        BY <2>1, SlotKeepsHeld, KeptDescends DEF Accept
    <2> QED  BY <2>1, <2>2, RowDescends, SameOrFewerIds
<1>3. CASE Crash
    <2>1. \A s \in Slots : KeepsHeld(s)
        BY <1>3 DEF Crash, KeepsHeld
    <2> QED  BY <1>3, <2>1, KeptDescends, RowDescends, SameOrFewerIds DEF Crash
<1>4. CASE UNCHANGED vars
    BY <1>4 DEF vars, IdsMatch, Known, Kept, SamePair
<1> QED  BY <1>1, <1>2, <1>3, <1>4 DEF Next

-----------------------------------------------------------------------------
(* Who takes roles away.                                                   *)

LEMMA RemovalStep ==
    ASSUME IndInv, IdsMatch, [Next]_vars, NEW u \in Users, NEW o \in Orgs,
           RowsFor(u, o) # {}, RowsFor(u, o)' = {}
    PROVE  \E s \in Slots : /\ At(s, "remove", "delete")
                            /\ req[s].org = o
                            /\ req[s].target = u
                            /\ req[s].authz \in {"ADMIN", "SUPER_ADMIN"}
<1>1. PICK x \in fga : x.user = u /\ x.org = o /\ x \notin fga'
    BY DEF RowsFor
<1>2. PICK s \in Slots : \/ JoinCreateRole(s) \/ UpdateCreateRole(s) \/ UpdateMerge(s) \/ RemoveDelete(s)
                         \/ CreateOrgRole(s) \/ AuthoriseWrite(s) \/ RevokeWrite(s)
    BY <1>1, RolesAndToolsChange
<1>3. ~(JoinCreateRole(s) \/ UpdateCreateRole(s) \/ CreateOrgRole(s))
    BY <1>1 DEF JoinCreateRole, UpdateCreateRole, CreateOrgRole, CreateRow, fgaVars
<1>4. ~(AuthoriseWrite(s) \/ RevokeWrite(s))
    BY <1>1 DEF AuthoriseWrite, RevokeWrite, AuthoriseTool, RevokeTool
<1>5. ~UpdateMerge(s)
    <2> SUFFICES ASSUME UpdateMerge(s) PROVE FALSE  OBVIOUS
    <2>1. PICK row \in req[s].held : fga' = {r \in fga : r.id # row.id} \cup {row}
        BY DEF UpdateMerge, MergeRow
    <2>2. row \in Known /\ x \in Known
        BY DEF UpdateMerge, At, Idle, Known, Kept
    <2>3. row.user = u /\ row.org = o
        BY <1>1, <2>1, <2>2 DEF IdsMatch, SamePair
    <2>4. row \in RowsFor(u, o)'
        BY <2>1, <2>3 DEF RowsFor
    <2> QED  BY <2>4
<1>6. At(s, "remove", "delete") /\ DeleteRole(req[s].target, req[s].org)
    BY <1>2, <1>3, <1>4, <1>5 DEF RemoveDelete
<1>7. req[s].target = u /\ req[s].org = o
    BY <1>1, <1>6 DEF DeleteRole, RowsFor
<1>8. CanModifyUserRoles(req[s].authz)
    BY <1>6, RemoveUnderWay
<1> QED  BY <1>6, <1>7, <1>8, CallerOfUpdate

\* Nobody is left without a role but by the removal that an admin of that
\* organisation or a superadmin asked for: a late merge rewrites a row of the
\* user and the organisation it was read for, and of nobody else.
THEOREM RemovalIsAuthorised == Spec => RemovalByAuthority
<1>1. Spec => []IdsMatch
    BY InitIds, NextIds, Invariant, PTL DEF Spec
<1>2. IndInv /\ IdsMatch /\ [Next]_vars =>
        [\A u \in Users, o \in Orgs :
            RowsFor(u, o) # {} /\ RowsFor(u, o)' = {} =>
                \E s \in Slots :
                    /\ At(s, "remove", "delete")
                    /\ req[s].org = o
                    /\ req[s].target = u
                    /\ req[s].authz \in {"ADMIN", "SUPER_ADMIN"}]_vars
    BY RemovalStep
<1> QED  BY <1>1, <1>2, Invariant, PTL DEF Spec, RemovalByAuthority

-----------------------------------------------------------------------------
(* What a step of one request leaves alone: the other requests, and the    *)
(* roles and the tools of every organisation but its own.                  *)

LEMMA ReceiveOneSlot ==
    ASSUME IndInv, NEW s \in Slots, Receive(s), NEW t \in Slots, t # s
    PROVE  req'[t] = req[t]
BY ReceivedRequest DEF Accept, IndInv, TypeOK, RequestsTypeOK

LEMMA StepOneSlot ==
    ASSUME IndInv, NEW s \in Slots, Step(s), NEW t \in Slots, t # s
    PROVE  req'[t] = req[t]
<1> USE DEF Goto, Answer, Fail, IndInv, TypeOK, RequestsTypeOK
<1>1. JoinStep(s) => req'[t] = req[t]
    BY DEF JoinStep, JoinCheck, JoinLink, JoinCreateRole, JoinNotify
<1>2. UpdateStep(s) => req'[t] = req[t]
    BY DEF UpdateStep, UpdateCheck, UpdateReadLink, UpdateRepairLink, UpdateReadRole, UpdateCreateRole,
       UpdateMerge
<1>3. RemoveStep(s) \/ ToolStep(s) => req'[t] = req[t]
    BY DEF RemoveStep, RemoveCheck, RemoveReadRole, RemoveReadOrg, RemoveDelete,
       ToolStep, AuthoriseCheck, AuthoriseWrite, RevokeCheck, RevokeWrite
<1>4. CreateOrgStep(s) => req'[t] = req[t]
    BY DEF CreateOrgStep, CreateOrgCheck, CreateOrgAccount, CreateOrgLink, CreateOrgRole, CreateOrgContact
<1>5. UserCallRaises(s) \/ OrgCallRaises(s) \/ Undo(s) => req'[t] = req[t]
    BY DEF UserCallRaises, OrgCallRaises, Undo, RunUndoAction, UndoActionRaises, UndoEnds
<1> QED  BY <1>1, <1>2, <1>3, <1>4, <1>5 DEF Step, UserStep, OrgStep

LEMMA StepIsBusy ==
    ASSUME NEW s \in Slots, Step(s)
    PROVE  req[s].pc # "idle"
BY DEF Step, UserStep, OrgStep, JoinStep, JoinCheck, JoinLink, JoinCreateRole, JoinNotify,
   UpdateStep, UpdateCheck, UpdateReadLink, UpdateRepairLink, UpdateReadRole, UpdateCreateRole, UpdateMerge,
   RemoveStep, RemoveCheck, RemoveReadRole, RemoveReadOrg, RemoveDelete,
   ToolStep, AuthoriseCheck, AuthoriseWrite, RevokeCheck, RevokeWrite,
   CreateOrgStep, CreateOrgCheck, CreateOrgAccount, CreateOrgLink, CreateOrgRole, CreateOrgContact,
   UserCallRaises, OrgCallRaises, Undo, RunUndoAction, UndoActionRaises, UndoEnds, At

\* What a step of a slot does to the accounts.
LEMMA AccountsChange ==
    ASSUME NEW s \in Slots, Step(s) \/ Receive(s)
    PROVE  \/ UNCHANGED accounts
           \/ /\ At(s, "create_org", "create_account")
              /\ \E o \in Orgs : CreateAccount(o, req[s].name)
           \/ req[s].pc = "undo" /\ DropAccount(req[s].org)
<1> USE DEF crmVars, CreateLink, DeleteLink
<1>1. CASE Receive(s)
    BY <1>1 DEF Receive, ReceiveUserRequest, ReceiveJoin, ReceiveUpdate, ReceiveRemove,
       ReceiveOrgRequest, ReceiveCreateOrg, ReceiveToolRequest
<1>2. CASE JoinStep(s)
    BY <1>2 DEF JoinStep, JoinCheck, JoinLink, JoinCreateRole, JoinNotify
<1>3. CASE UpdateStep(s)
    BY <1>3 DEF UpdateStep, UpdateCheck, UpdateReadLink, UpdateRepairLink, UpdateReadRole,
       UpdateCreateRole, UpdateMerge
<1>4. CASE RemoveStep(s)
    BY <1>4 DEF RemoveStep, RemoveCheck, RemoveReadRole, RemoveReadOrg, RemoveDelete
<1>5. CASE CreateOrgStep(s)
    BY <1>5 DEF CreateOrgStep, CreateOrgCheck, CreateOrgAccount, CreateOrgLink, CreateOrgRole,
       CreateOrgContact
<1>6. CASE ToolStep(s)
    BY <1>6 DEF ToolStep, AuthoriseCheck, AuthoriseWrite, RevokeCheck, RevokeWrite
<1>7. CASE Undo(s)
    BY <1>7 DEF Undo, RunUndoAction, UndoActionRaises, UndoEnds
<1>8. CASE UserCallRaises(s) \/ OrgCallRaises(s)
    BY <1>8 DEF UserCallRaises, OrgCallRaises
<1> QED
    BY <1>1, <1>2, <1>3, <1>4, <1>5, <1>6, <1>7, <1>8 DEF Step, UserStep, OrgStep

LEMMA RowsElsewhere ==
    ASSUME IndInv, IdsMatch, NEW s \in Slots, Step(s), NEW r, r.org # req[s].org
    PROVE  r \in fga' <=> r \in fga
<1>1. CASE JoinCreateRole(s) \/ UpdateCreateRole(s) \/ CreateOrgRole(s)
    BY <1>1 DEF JoinCreateRole, UpdateCreateRole, CreateOrgRole, CreateRow, fgaVars
<1>2. CASE UpdateMerge(s)
    <2>1. PICK row \in req[s].held : fga' = {x \in fga : x.id # row.id} \cup {row}
        BY <1>2 DEF UpdateMerge, MergeRow
    <2>2. row.org = req[s].org /\ row \in Known
        BY <1>2, <2>1, BusySlot
        DEF UpdateMerge, At, Idle, GoodRequest, SoundRequest, SoundHeld, Known, Kept
    <2>3. r \in fga => r.id # row.id
        BY <2>2 DEF IdsMatch, SamePair, Known
    <2> QED  BY <2>1, <2>2, <2>3
<1>3. CASE RemoveDelete(s)
    BY <1>3 DEF RemoveDelete, DeleteRole, RowsFor
<1>4. CASE AuthoriseWrite(s) \/ RevokeWrite(s)
    BY <1>4 DEF AuthoriseWrite, RevokeWrite, AuthoriseTool, RevokeTool
<1> QED  BY <1>1, <1>2, <1>3, <1>4, StepWrites

LEMMA ToolsElsewhere ==
    ASSUME IndInv, NEW s \in Slots, Step(s), NEW o \in Orgs, o # req[s].org
    PROVE  ToolsOf(o)' = ToolsOf(o)
<1> SUFFICES \A t \in Tools : toolAuth'[t][o] = toolAuth[t][o]
    BY DEF ToolsOf
<1>1. toolAuth \in [Tools -> [Orgs -> Nat]]
    BY DEF IndInv, TypeOK, FgaTypeOK
<1>2. CASE AuthoriseWrite(s) \/ RevokeWrite(s)
    BY <1>1, <1>2 DEF AuthoriseWrite, RevokeWrite, AuthoriseTool, RevokeTool
<1>3. CASE UNCHANGED toolAuth
    BY <1>3
<1> QED
    BY <1>2, <1>3, StepWrites
    DEF JoinCreateRole, UpdateCreateRole, UpdateMerge, RemoveDelete, CreateOrgRole, CreateRow, MergeRow,
        DeleteRole, fgaVars

\* The organisation of another request, when the two are apart.
LEMMA Bystander ==
    ASSUME IndInv, IdsMatch, Apart, NEW s \in Slots, Step(s),
           NEW t \in Slots, t # s, req[t] # Idle, NEW o \in Orgs, req[t].org = o
    PROVE  /\ o # req[s].org
           /\ \A u : RowsFor(u, o)' = RowsFor(u, o)
           /\ RowsOfOrg(o)' = RowsOfOrg(o)
           /\ AdminRows(o)' = AdminRows(o)
           /\ ToolsOf(o)' = ToolsOf(o)
<1>1. req[s] # Idle
    BY StepIsBusy DEF Idle
<1>2. o # req[s].org
    BY <1>1 DEF Apart, InTheWay
<1>3. \A r : r.org = o => (r \in fga' <=> r \in fga)
    BY <1>2, RowsElsewhere
<1>4. /\ \A u : RowsFor(u, o)' = RowsFor(u, o)
      /\ RowsOfOrg(o)' = RowsOfOrg(o)
      /\ AdminRows(o)' = AdminRows(o)
    BY <1>3 DEF RowsFor, RowsOfOrg, AdminRows
<1> QED  BY <1>2, <1>4, ToolsElsewhere
=============================================================================
