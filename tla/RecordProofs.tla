----------------------------- MODULE RecordProofs ----------------------------
(***************************************************************************)
(* What the handlers that write to both stores leave in the CRM.           *)
(*                                                                         *)
(* Relationships: as long as no call fails and every user has a record in  *)
(* the CRM, whoever holds a direct role has the relationship with the      *)
(* organisation.  The process may stop anywhere.  The handlers get this    *)
(* from their order: the relationship is made before the role, and only an *)
(* undo action deletes it.                                                 *)
(*                                                                         *)
(* Creations: one that fails leaves no account.  From the moment a         *)
(* creation knows its account, deleting it is the first action of its undo *)
(* list, and the list is popped from its end: the list can only become     *)
(* empty by running that action, and an account that is dropped stays so   *)
(* whatever the other slots do.                                            *)
(***************************************************************************)
EXTENDS RydApiProofs, SequenceTheorems

\* The request is about to write a role without looking at the CRM again.
WritesRole(r) == r.op # "remove" /\ r.pc \in {"read_role", "create_role", "merge"}

\* A handler reaches its undo actions only with none registered.
NothingToUndo(r) ==
    /\ r.pc = "undo" => r.undo = <<>>
    /\ r.op = "join" /\ r.pc \in {"check", "link"} => r.undo = <<>>

LinksReady == \A s \in Slots : WritesRole(req[s]) => Linked(req[s].target, req[s].org)

UndosEmpty == \A s \in Slots : req[s] # Idle => NothingToUndo(req[s])

LinkInv == RoleHasRelationship /\ LinksReady /\ UndosEmpty

-----------------------------------------------------------------------------

\* One slot moves to r and no relationship is deleted.
LEMMA SlotMovesLinksGrow ==
    ASSUME IndInv, LinkInv, NEW s \in Slots, NEW r, req' = [req EXCEPT ![s] = r],
           links \subseteq links',
           WritesRole(r) => <<r.target, r.org>> \in links',
           r # Idle => NothingToUndo(r)
    PROVE  LinksReady' /\ UndosEmpty'
<1>1. \A t \in Slots : req'[t] = IF t = s THEN r ELSE req[t]
    BY DEF IndInv, TypeOK, RequestsTypeOK
<1>2. LinksReady'
    BY <1>1 DEF LinkInv, LinksReady, WritesRole, Linked
<1>3. UndosEmpty'
    BY <1>1 DEF LinkInv, UndosEmpty, NothingToUndo
<1> QED  BY <1>2, <1>3

\* No role is added and no relationship is deleted.
LEMMA RolesShrink ==
    ASSUME LinkInv, fga' \subseteq fga, links \subseteq links'
    PROVE  RoleHasRelationship'
BY DEF LinkInv, RoleHasRelationship, Linked

LEMMA AnswerKeepsLinks ==
    ASSUME IndInv, LinkInv, NEW s \in Slots, Answer(s), links \subseteq links'
    PROVE  LinksReady' /\ UndosEmpty'
<1>1. ~WritesRole(Idle)  BY DEF WritesRole, Idle
<1> QED  BY <1>1, SlotMovesLinksGrow DEF Answer

LEMMA GotoKeepsLinks ==
    ASSUME IndInv, LinkInv, NEW s \in Slots, GoodRequest(req[s]), NEW label, Goto(s, label),
           links \subseteq links',
           label \notin {"read_role", "create_role", "merge"} \/ req[s].op = "remove"
                \/ <<req[s].target, req[s].org>> \in links',
           label \notin {"undo", "check", "link"} \/ req[s].undo = <<>>
    PROVE  LinksReady' /\ UndosEmpty'
<1> DEFINE r == [req[s] EXCEPT !.pc = label]
<1>1. req' = [req EXCEPT ![s] = r]  BY DEF Goto
<1>2. /\ r.pc = label /\ r.op = req[s].op /\ r.undo = req[s].undo
      /\ r.target = req[s].target /\ r.org = req[s].org
    BY DEF GoodRequest, Request
<1> HIDE DEF r
<1>3. NothingToUndo(r)  BY <1>2 DEF NothingToUndo
<1>4. WritesRole(r) => <<r.target, r.org>> \in links'
    BY <1>2 DEF WritesRole
<1> QED  BY <1>1, <1>3, <1>4, SlotMovesLinksGrow

\* The rows a new role adds.
LEMMA RoleGivenLinked ==
    ASSUME LinkInv, NEW u, NEW o, Linked(u, o), UNCHANGED links,
           NEW i, NEW role, CreateRow(i, u, o, role)
    PROVE  RoleHasRelationship'
<1> SUFFICES ASSUME NEW r \in fga' PROVE Linked(r.user, r.org)'
    BY DEF RoleHasRelationship
<1>1. CASE r \in fga
    BY <1>1 DEF LinkInv, RoleHasRelationship, Linked
<1>2. CASE r \notin fga
    <2>1. r.user = u /\ r.org = o  BY <1>2 DEF CreateRow
    <2>2. <<r.user, r.org>> = <<u, o>>  BY <2>1
    <2> QED  BY <2>2 DEF Linked
<1> QED  BY <1>1, <1>2

-----------------------------------------------------------------------------
(* The steps of each handler.                                              *)

\* No call fails, and every user has a record in the CRM.
OnlyCrashes == Faults \subseteq {"crash"} /\ Contacts = Users

\* What a step of s has instead, if calls may fail: it does not begin to undo.
Succeeds(s) == OnlyCrashes \/ req'[s].pc # "undo"

LEMMA FailBeginsUndo ==
    ASSUME IndInv, NEW s \in Slots, GoodRequest(req[s]), Fail(s)
    PROVE  req'[s].pc = "undo"
<1>1. req'[s] = [req[s] EXCEPT !.pc = "undo"]
    BY DEF Fail, Goto, IndInv, TypeOK, RequestsTypeOK
<1> QED  BY <1>1 DEF GoodRequest, Request

LEMMA ReceiveKeepsLinks ==
    ASSUME IndInv, LinkInv, NEW s \in Slots, Receive(s)
    PROVE  LinkInv'
<1>1. PICK u, r : Accept(s, u, r) /\ r.pc = "check" /\ r.undo = <<>>
                  /\ UNCHANGED <<fga, toolAuth, accounts, links>>
    BY ReceivedRequest
<1>2. req' = [req EXCEPT ![s] = r] /\ UNCHANGED <<fga, links>>
    BY <1>1 DEF Accept
<1>3. ~WritesRole(r) /\ NothingToUndo(r)
    BY <1>1 DEF WritesRole, NothingToUndo
<1> QED  BY <1>1, <1>2, <1>3, SlotMovesLinksGrow, RolesShrink DEF LinkInv

\* The list that a slot has, and the relationship of one about to write.
LEMMA SlotLinks ==
    ASSUME LinkInv, NEW s \in Slots, req[s].pc # "idle"
    PROVE  /\ req[s].pc = "undo" => req[s].undo = <<>>
           /\ req[s].op = "join" /\ req[s].pc \in {"check", "link"} => req[s].undo = <<>>
           /\ WritesRole(req[s]) => <<req[s].target, req[s].org>> \in links
BY DEF LinkInv, LinksReady, UndosEmpty, NothingToUndo, Linked, Idle

\* The relationship was made and its undo action is recorded.
LEMMA LinkMade ==
    ASSUME IndInv, LinkInv, NEW s \in Slots, GoodRequest(req[s]), req[s].op \in {"join", "create_org"},
           CreateLink(req[s].target, req[s].org),
           req' = [req EXCEPT ![s].pc = "create_role",
                              ![s].undo = Append(@, "delete_relationship")],
           UNCHANGED fga
    PROVE  LinkInv'
<1> DEFINE r == [req[s] EXCEPT !.pc = "create_role", !.undo = Append(@, "delete_relationship")]
<1>1. r.pc = "create_role" /\ r.target = req[s].target /\ r.org = req[s].org
    BY DEF GoodRequest, Request
<1>2. req' = [req EXCEPT ![s] = r]  OBVIOUS
<1>3. links \subseteq links' /\ <<req[s].target, req[s].org>> \in links'
    BY DEF CreateLink
<1> HIDE DEF r
<1>4. NothingToUndo(r) /\ <<r.target, r.org>> \in links'
    BY <1>1, <1>3 DEF NothingToUndo
<1> QED  BY <1>2, <1>3, <1>4, SlotMovesLinksGrow, RolesShrink DEF LinkInv

\* The role of the request is written where its relationship is.
LEMMA RoleWritten ==
    ASSUME IndInv, LinkInv, NEW s \in Slots, req[s].pc = "create_role", req[s].op # "remove",
           NEW i, NEW role, CreateRow(i, req[s].target, req[s].org, role), UNCHANGED links
    PROVE  RoleHasRelationship'
<1>1. <<req[s].target, req[s].org>> \in links
    BY SlotLinks DEF WritesRole
<1> QED  BY <1>1, RoleGivenLinked DEF Linked

LEMMA JoinKeepsLinks ==
    ASSUME IndInv, LinkInv, NEW s \in Slots, JoinStep(s), Succeeds(s)
    PROVE  LinkInv'
<1>0. GoodRequest(req[s]) /\ req[s].op = "join" /\ req[s].pc # "idle"
    BY BusySlot DEF JoinStep, JoinCheck, JoinLink, JoinCreateRole, JoinNotify, At
<1>1. CASE JoinCheck(s)
    <2>1. req[s].undo = <<>>
        BY <1>0, <1>1, SlotLinks DEF JoinCheck, At
    <2> QED  BY <1>0, <1>1, <2>1, GotoKeepsLinks, AnswerKeepsLinks, RolesShrink DEF JoinCheck, LinkInv
<1>2. CASE JoinLink(s)
    <2>1. req[s].undo = <<>> /\ UNCHANGED fga
        BY <1>0, <1>2, SlotLinks DEF JoinLink, At, fgaVars
    <2>2. CASE Fail(s) /\ links \subseteq links'
        BY <1>0, <2>1, <2>2, GotoKeepsLinks, RolesShrink DEF Fail, LinkInv
    <2>3. links \subseteq links'
        BY <1>2 DEF JoinLink, CreateLink, crmVars
    <2> QED  BY <1>0, <1>2, <2>1, <2>2, <2>3, LinkMade DEF JoinLink
<1>3. CASE JoinCreateRole(s)
    <2>1. UNCHANGED links /\ req[s].pc = "create_role"
        BY <1>3 DEF JoinCreateRole, crmVars, At
    <2>2. PICK i \in FreshIds : CreateRow(i, req[s].target, req[s].org, req[s].role) /\ Goto(s, "notify")
        BY <1>0, <1>3, FailBeginsUndo DEF JoinCreateRole, OnlyCrashes, Succeeds
    <2>3. RoleHasRelationship'
        BY <1>0, <2>1, <2>2, RoleWritten
    <2> QED  BY <1>0, <2>1, <2>2, <2>3, GotoKeepsLinks DEF LinkInv
<1>4. CASE JoinNotify(s)
    <2>1. OnlyCrashes => AdminsHaveContacts(req[s].org)
        BY DEF OnlyCrashes, AdminsHaveContacts, AdminRows, IndInv, TypeOK, FgaTypeOK, Rows
    <2>2. Answer(s) /\ UNCHANGED <<fga, links>>
        BY <1>0, <1>4, <2>1, FailBeginsUndo DEF JoinNotify, OnlyCrashes, Succeeds
    <2> QED  BY <2>2, AnswerKeepsLinks, RolesShrink DEF LinkInv
<1> QED  BY <1>1, <1>2, <1>3, <1>4 DEF JoinStep

LEMMA UpdateKeepsLinks ==
    ASSUME IndInv, LinkInv, NEW s \in Slots, UpdateStep(s)
    PROVE  LinkInv'
<1>0. GoodRequest(req[s]) /\ req[s].op = "update" /\ req[s].pc # "idle"
    BY BusySlot DEF UpdateStep, UpdateCheck, UpdateReadLink, UpdateRepairLink, UpdateReadRole,
       UpdateCreateRole, UpdateMerge, At
<1>1. CASE UpdateCheck(s)
    BY <1>0, <1>1, GotoKeepsLinks, AnswerKeepsLinks, RolesShrink DEF UpdateCheck, LinkInv
<1>2. CASE UpdateReadLink(s)
    <2> DEFINE label == AfterReadLink(req[s])
    <2>1. \/ label = "repair_link"
          \/ label = "read_role" /\ <<req[s].target, req[s].org>> \in links
        BY DEF AfterReadLink, Linked
    <2>2. Goto(s, label) /\ UNCHANGED <<fga, links>>
        BY <1>2 DEF UpdateReadLink
    <2> HIDE DEF label
    <2> QED  BY <1>0, <2>1, <2>2, GotoKeepsLinks, RolesShrink DEF LinkInv
<1>3. CASE UpdateRepairLink(s)
    <2>1. links \subseteq links' /\ UNCHANGED fga
        BY <1>3 DEF UpdateRepairLink, CreateLink, crmVars, fgaVars
    <2>2. CASE CreateLink(req[s].target, req[s].org) /\ Goto(s, "read_role")
        <3>1. <<req[s].target, req[s].org>> \in links'
            BY <2>2 DEF CreateLink
        <3> QED  BY <1>0, <2>1, <2>2, <3>1, GotoKeepsLinks, RolesShrink DEF LinkInv
    <2>3. CASE Answer(s)
        BY <2>1, <2>3, AnswerKeepsLinks, RolesShrink DEF LinkInv
    <2> QED  BY <1>3, <2>2, <2>3 DEF UpdateRepairLink
<1>4. CASE UpdateReadRole(s)
    <2>1. <<req[s].target, req[s].org>> \in links
        BY <1>0, <1>4, SlotLinks DEF UpdateReadRole, At, WritesRole
    <2>2. UNCHANGED <<fga, links>>
        BY <1>4 DEF UpdateReadRole
    <2>3. CASE Answer(s)
        BY <2>2, <2>3, AnswerKeepsLinks, RolesShrink DEF LinkInv
    <2>4. CASE Goto(s, "create_role")
        BY <1>0, <2>1, <2>2, <2>4, GotoKeepsLinks, RolesShrink DEF LinkInv
    <2>5. ASSUME NEW row,
                 req' = [req EXCEPT ![s].pc = "merge",
                                    ![s].held = {[row EXCEPT !.role = req[s].role]}]
          PROVE  LinkInv'
        <3> DEFINE r == [req[s] EXCEPT !.pc = "merge", !.held = {[row EXCEPT !.role = req[s].role]}]
        <3>1. r.pc = "merge" /\ r.target = req[s].target /\ r.org = req[s].org
            BY <1>0 DEF GoodRequest, Request
        <3>2. req' = [req EXCEPT ![s] = r]
            BY <2>5
        <3> HIDE DEF r
        <3>3. NothingToUndo(r) /\ <<r.target, r.org>> \in links'
            BY <2>1, <2>2, <3>1 DEF NothingToUndo
        <3> QED  BY <2>2, <3>2, <3>3, SlotMovesLinksGrow, RolesShrink DEF LinkInv
    <2> QED  BY <1>4, <2>3, <2>4, <2>5 DEF UpdateReadRole
<1>5. CASE UpdateCreateRole(s)
    <2>1. UNCHANGED links /\ req[s].pc = "create_role"
        BY <1>5 DEF UpdateCreateRole, crmVars, At
    <2>2. PICK i \in FreshIds : CreateRow(i, req[s].target, req[s].org, req[s].role)
        BY <1>5 DEF UpdateCreateRole
    <2>3. RoleHasRelationship'
        BY <1>0, <2>1, <2>2, RoleWritten
    <2> QED  BY <1>5, <2>1, <2>3, AnswerKeepsLinks DEF UpdateCreateRole, LinkInv
<1>6. CASE UpdateMerge(s)
    <2>1. PICK row \in req[s].held : MergeRow(row)
        BY <1>6 DEF UpdateMerge
    <2>2. UNCHANGED links /\ <<req[s].target, req[s].org>> \in links
        BY <1>0, <1>6, SlotLinks DEF UpdateMerge, crmVars, At, WritesRole
    <2>3. row.user = req[s].target /\ row.org = req[s].org
        BY <1>0, <2>1 DEF GoodRequest, SoundRequest, SoundHeld
    <2>4. RoleHasRelationship'
        <3> SUFFICES ASSUME NEW r \in fga' PROVE <<r.user, r.org>> \in links'
            BY DEF RoleHasRelationship, Linked
        <3>1. r \in fga \/ r = row
            BY <2>1 DEF MergeRow
        <3>2. CASE r \in fga
            BY <2>2, <3>2 DEF LinkInv, RoleHasRelationship, Linked
        <3>3. CASE r = row
            BY <2>2, <2>3, <3>3
        <3> QED  BY <3>1, <3>2, <3>3
    <2> QED  BY <1>6, <2>2, <2>4, AnswerKeepsLinks DEF UpdateMerge, LinkInv
<1> QED  BY <1>1, <1>2, <1>3, <1>4, <1>5, <1>6 DEF UpdateStep

LEMMA RemoveKeepsLinks ==
    ASSUME IndInv, LinkInv, NEW s \in Slots, RemoveStep(s)
    PROVE  LinkInv'
<1>0. GoodRequest(req[s]) /\ req[s].op = "remove" /\ req[s].pc # "idle"
    BY BusySlot DEF RemoveStep, RemoveCheck, RemoveReadRole, RemoveReadOrg, RemoveDelete, At
<1>1. CASE RemoveCheck(s)
    BY <1>0, <1>1, GotoKeepsLinks, AnswerKeepsLinks, RolesShrink DEF RemoveCheck, LinkInv
<1>2. CASE RemoveReadRole(s)
    <2> DEFINE rows == RowsFor(req[s].target, req[s].org)
               r == [req[s] EXCEPT !.pc = "read_org", !.held = rows]
    <2>1. UNCHANGED <<fga, links>>
        BY <1>2 DEF RemoveReadRole
    <2>2. CASE req' = [req EXCEPT ![s].pc = "read_org", ![s].held = rows]
        <3>1. r.pc = "read_org"
            BY <1>0 DEF GoodRequest, Request
        <3>2. req' = [req EXCEPT ![s] = r]
            BY <2>2
        <3> HIDE DEF r
        <3>3. NothingToUndo(r) /\ ~WritesRole(r)
            BY <3>1 DEF NothingToUndo, WritesRole
        <3> QED  BY <2>1, <3>2, <3>3, SlotMovesLinksGrow, RolesShrink DEF LinkInv
    <2>3. CASE Answer(s)
        BY <2>1, <2>3, AnswerKeepsLinks, RolesShrink DEF LinkInv
    <2> QED  BY <1>2, <2>2, <2>3 DEF RemoveReadRole
<1>3. CASE RemoveReadOrg(s)
    BY <1>0, <1>3, GotoKeepsLinks, AnswerKeepsLinks, RolesShrink DEF RemoveReadOrg, LinkInv
<1>4. CASE RemoveDelete(s)
    <2>1. fga' \subseteq fga /\ UNCHANGED links /\ Answer(s)
        BY <1>4 DEF RemoveDelete, DeleteRole, crmVars
    <2> QED  BY <2>1, AnswerKeepsLinks, RolesShrink DEF LinkInv
<1> QED  BY <1>1, <1>2, <1>3, <1>4 DEF RemoveStep

LEMMA CreateOrgKeepsLinks ==
    ASSUME IndInv, LinkInv, NEW s \in Slots, CreateOrgStep(s), Succeeds(s)
    PROVE  LinkInv'
<1>0. GoodRequest(req[s]) /\ req[s].op = "create_org" /\ req[s].pc # "idle"
    BY BusySlot DEF CreateOrgStep, CreateOrgCheck, CreateOrgAccount, CreateOrgLink,
       CreateOrgRole, CreateOrgContact, At
<1>1. CASE CreateOrgCheck(s)
    BY <1>0, <1>1, GotoKeepsLinks, AnswerKeepsLinks, RolesShrink DEF CreateOrgCheck, LinkInv
<1>2. CASE CreateOrgAccount(s)
    <2>1. PICK o \in Orgs :
            /\ CreateAccount(o, req[s].name)
            /\ req' = [req EXCEPT ![s].pc = AfterAccount(req[s]), ![s].org = o,
                                  ![s].undo = Append(@, "delete_account")]
        BY <1>0, <1>2, FailBeginsUndo DEF CreateOrgAccount, OnlyCrashes, Succeeds
    <2> DEFINE label == AfterAccount(req[s])
               r == [req[s] EXCEPT !.pc = label, !.org = o, !.undo = Append(@, "delete_account")]
    <2>2. r.pc \in {"contact", "link"} /\ r.op = "create_org"
        BY <1>0 DEF AfterAccount, GoodRequest, Request
    <2>3. req' = [req EXCEPT ![s] = r]
        BY <2>1
    <2> HIDE DEF r
    <2>4. NothingToUndo(r) /\ ~WritesRole(r)
        BY <2>2 DEF NothingToUndo, WritesRole
    <2>5. UNCHANGED <<fga, links>>
        BY <1>2, <2>1 DEF CreateOrgAccount, CreateAccount, fgaVars
    <2> QED  BY <2>3, <2>4, <2>5, SlotMovesLinksGrow, RolesShrink DEF LinkInv
<1>3. CASE CreateOrgLink(s)
    BY <1>0, <1>3, FailBeginsUndo, LinkMade DEF CreateOrgLink, OnlyCrashes, Succeeds, fgaVars
<1>4. CASE CreateOrgRole(s)
    <2>1. UNCHANGED links /\ req[s].pc = "create_role"
        BY <1>4 DEF CreateOrgRole, crmVars, At
    <2>2. PICK i \in FreshIds : CreateRow(i, req[s].target, req[s].org, req[s].role) /\ Goto(s, "contact")
        BY <1>0, <1>4, FailBeginsUndo DEF CreateOrgRole, OnlyCrashes, Succeeds
    <2>3. RoleHasRelationship'
        BY <1>0, <2>1, <2>2, RoleWritten
    <2> QED  BY <1>0, <2>1, <2>2, <2>3, GotoKeepsLinks DEF LinkInv
<1>5. CASE CreateOrgContact(s)
    <2>1. OnlyCrashes => req[s].target \in Contacts
        BY <1>0 DEF OnlyCrashes, GoodRequest, Request
    <2>2. Answer(s) /\ UNCHANGED <<fga, links>>
        BY <1>0, <1>5, <2>1, FailBeginsUndo DEF CreateOrgContact, OnlyCrashes, Succeeds
    <2> QED  BY <2>2, AnswerKeepsLinks, RolesShrink DEF LinkInv
<1> QED  BY <1>1, <1>2, <1>3, <1>4, <1>5 DEF CreateOrgStep

LEMMA ToolKeepsLinks ==
    ASSUME IndInv, LinkInv, NEW s \in Slots, ToolStep(s)
    PROVE  LinkInv'
<1>1. GoodRequest(req[s])
    BY BusySlot DEF ToolStep, AuthoriseCheck, AuthoriseWrite, RevokeCheck, RevokeWrite, At
<1>2. UNCHANGED <<fga, links>>
    BY DEF ToolStep, AuthoriseCheck, AuthoriseWrite, RevokeCheck, RevokeWrite, AuthoriseTool,
       RevokeTool, crmVars
<1>3. Goto(s, "write_tool") \/ Answer(s)
    BY DEF ToolStep, AuthoriseCheck, AuthoriseWrite, RevokeCheck, RevokeWrite
<1> QED  BY <1>1, <1>2, <1>3, GotoKeepsLinks, AnswerKeepsLinks, RolesShrink DEF LinkInv

LEMMA EndKeepsLinks ==
    ASSUME IndInv, LinkInv, NEW s \in Slots,
           Undo(s) \/ UserCallRaises(s) \/ OrgCallRaises(s)
    PROVE  LinkInv'
<1>1. ~RunUndoAction(s)
    BY SlotLinks DEF RunUndoAction
<1>2. Answer(s) /\ UNCHANGED <<fga, links>>
    BY <1>1 DEF Undo, UndoActionRaises, UndoEnds, UserCallRaises, OrgCallRaises
<1> QED  BY <1>2, AnswerKeepsLinks, RolesShrink DEF LinkInv

LEMMA CrashKeepsLinks ==
    ASSUME LinkInv, Crash
    PROVE  LinkInv'
<1>1. ~WritesRole(Idle)
    BY DEF WritesRole, Idle
<1>2. LinksReady' /\ UndosEmpty'
    BY <1>1 DEF Crash, LinksReady, UndosEmpty
<1> QED  BY <1>2, RolesShrink DEF Crash, LinkInv

-----------------------------------------------------------------------------

LEMMA InitLinks == Init => LinkInv
<1> SUFFICES ASSUME Init PROVE LinkInv  OBVIOUS
<1>1. RoleHasRelationship
    BY DEF Init, RoleHasRelationship, Linked
<1>2. LinksReady /\ UndosEmpty
    BY DEF Init, LinksReady, UndosEmpty, WritesRole, Idle
<1> QED  BY <1>1, <1>2 DEF LinkInv

LEMMA StepKeepsLinks ==
    ASSUME IndInv, LinkInv, NEW s \in Slots, Receive(s) \/ Step(s), Succeeds(s)
    PROVE  LinkInv'
BY ReceiveKeepsLinks, JoinKeepsLinks, UpdateKeepsLinks, RemoveKeepsLinks,
   CreateOrgKeepsLinks, ToolKeepsLinks, EndKeepsLinks DEF Step, UserStep, OrgStep

LEMMA NextLinks ==
    ASSUME OnlyCrashes
    PROVE  IndInv /\ LinkInv /\ [Next]_vars => LinkInv'
<1> SUFFICES ASSUME IndInv, LinkInv, [Next]_vars PROVE LinkInv'  OBVIOUS
<1>1. ASSUME NEW s \in Slots, Receive(s) \/ Step(s)
      PROVE  LinkInv'
    BY <1>1, StepKeepsLinks DEF Succeeds
<1>2. CASE UNCHANGED vars
    <2>1. LinksReady' /\ UndosEmpty'
        BY <1>2 DEF vars, LinkInv, LinksReady, UndosEmpty, Linked
    <2> QED  BY <1>2, <2>1, RolesShrink DEF vars, LinkInv
<1> QED  BY <1>1, <1>2, CrashKeepsLinks DEF Next

\* Without failing calls the process may stop between any two steps of any
\* number of overlapping requests: the CRM still has the relationship of every
\* direct role, so that listing the users of an organisation never fails.
THEOREM RolesHaveRelationships ==
    ASSUME OnlyCrashes
    PROVE  Spec => []RoleHasRelationship
<1>1. IndInv /\ LinkInv /\ [Next]_vars => LinkInv'
    BY NextLinks
<1>2. LinkInv => RoleHasRelationship
    BY DEF LinkInv
<1> QED  BY <1>1, <1>2, InitLinks, Invariant, PTL DEF Spec

-----------------------------------------------------------------------------
(* Creations that fail.                                                    *)

Undoable(r) == Len(r.undo) > 0 /\ r.undo[1] = "delete_account"

IsDropped(o) == accounts[o] = Dropped

CreationUndone(r) ==
    r.op = "create_org" =>
        /\ r.pc \in {"check", "create_account"} => r.undo = <<>>
        /\ r.org = NoOrg \/ Undoable(r) \/ IsDropped(r.org)

CreationInv == \A s \in Slots : req[s] # Idle => CreationUndone(req[s])

-----------------------------------------------------------------------------
(* The undo list.                                                          *)

LEMMA AppendKeepsFirst ==
    ASSUME NEW undo \in Seq(UndoActions), Len(undo) > 0,
           NEW a \in UndoActions
    PROVE  Len(Append(undo, a)) > 0 /\ Append(undo, a)[1] = undo[1]
OBVIOUS

LEMMA AppendToNone ==
    ASSUME NEW undo \in Seq(UndoActions), undo = <<>>, NEW a \in UndoActions
    PROVE  Len(Append(undo, a)) > 0 /\ Append(undo, a)[1] = a
OBVIOUS

\* Popping leaves the first action in the list, unless it was the only one.
LEMMA PoppedKeepsFirst ==
    ASSUME NEW undo \in Seq(UndoActions), undo # <<>>
    PROVE  \/ Len(undo) = 1
           \/ Len(Popped(undo)) > 0 /\ Popped(undo)[1] = undo[1]
<1>1. Len(undo) \in Nat /\ Len(undo) > 0
    OBVIOUS
<1>2. CASE Len(undo) > 1
    <2>1. /\ Len(undo) - 1 \in Int /\ 1 <= Len(undo) - 1
          /\ \A i \in 1 .. Len(undo) - 1 : undo[i] \in UndoActions
        BY <1>1, <1>2
    <2> DEFINE n == Len(undo) - 1
               list == Popped(undo)
    <2>2. /\ Len(list) = n - 1 + 1
          /\ \A i \in 1 .. n - 1 + 1 : list[i] = undo[1 + i - 1]
        <3>1. list = SubSeq(undo, 1, n)  BY DEF Popped
        <3> HIDE DEF n, list
        <3> QED  BY <2>1, <3>1, SubSeqProperties DEF n
    <2>3. 1 \in 1 .. n - 1 + 1 /\ n - 1 + 1 > 0 /\ 1 + 1 - 1 = 1
        BY <2>1
    <2> HIDE DEF n, list
    <2>4. Len(list) > 0 /\ list[1] = undo[1]
        BY <2>2, <2>3
    <2> QED  BY <2>4 DEF list
<1>3. \A k \in Nat : k > 0 => k = 1 \/ k > 1
    OBVIOUS
<1>4. Len(undo) = 1 \/ Len(undo) > 1
    BY <1>1, <1>3
<1> QED  BY <1>2, <1>4

-----------------------------------------------------------------------------
(* The accounts.                                                           *)

LEMMA DroppedForEver ==
    ASSUME TypeOK, NEW o \in Orgs, IsDropped(o),
           \/ UNCHANGED accounts
           \/ \E p \in Orgs : \E n : CreateAccount(p, n)
           \/ \E p : DropAccount(p)
    PROVE  accounts'[o] = Dropped
<1>1. accounts \in [Orgs -> Account] /\ accounts[o] = Dropped
    BY DEF TypeOK, CrmTypeOK, IsDropped
<1>2. ASSUME NEW p \in Orgs, NEW n, CreateAccount(p, n)
      PROVE  accounts'[o] = Dropped
    <2>1. accounts[o].state = "dropped" /\ accounts[p].state = "unused"
        BY <1>1, <1>2 DEF CreateAccount, Dropped
    <2>2. accounts'[o] = accounts[o]
        BY <1>1, <1>2, <2>1 DEF CreateAccount
    <2> QED  BY <1>1, <2>2
<1>3. ASSUME NEW p, DropAccount(p)
      PROVE  accounts'[o] = Dropped
    BY <1>1, <1>3 DEF DropAccount
<1> QED  BY <1>1, <1>2, <1>3

-----------------------------------------------------------------------------
(* Slots.                                                                  *)

\* A step that puts in its slot a request that can still be undone, or empties it.
LEMMA SlotUndone ==
    ASSUME IndInv, CreationInv, NEW s \in Slots, Step(s) \/ Receive(s),
           NEW r, req' = [req EXCEPT ![s] = r],
           \/ r = Idle
           \/ r.op = "create_org" =>
                /\ r.pc \in {"check", "create_account"} => r.undo = <<>>
                /\ r.org = NoOrg \/ Undoable(r) \/ accounts'[r.org] = Dropped
    PROVE  CreationInv'
<1> SUFFICES ASSUME NEW t \in Slots, req'[t] # Idle PROVE CreationUndone(req[t])'
    BY DEF CreationInv
<1>1. req'[t] = IF t = s THEN r ELSE req[t]
    BY DEF IndInv, TypeOK, RequestsTypeOK
<1>2. CASE t = s
    BY <1>1, <1>2 DEF CreationUndone, Undoable, IsDropped
<1>3. CASE t # s
    <2>1. req[t] \in Request /\ CreationUndone(req[t]) /\ req'[t] = req[t]
        BY <1>1, <1>3 DEF CreationInv, IndInv, TypeOK, RequestsTypeOK
    <2>2. req[t].org \in Orgs \cup {NoOrg}
        BY <2>1 DEF Request
    <2>3. req[t].org \in Orgs /\ IsDropped(req[t].org) => accounts'[req[t].org] = Dropped
        BY AccountsChange, DroppedForEver DEF IndInv, IsDropped
    <2> QED  BY <2>1, <2>2, <2>3 DEF CreationUndone, Undoable, IsDropped
<1> QED  BY <1>2, <1>3

LEMMA AnswerUndone ==
    ASSUME IndInv, CreationInv, NEW s \in Slots, Step(s), Answer(s)
    PROVE  CreationInv'
BY SlotUndone DEF Answer

\* Moving on, past the check and with the account as it was or to the next call.
LEMMA GotoUndone ==
    ASSUME IndInv, CreationInv, NEW s \in Slots, Step(s), req[s].pc # "idle",
           NEW label, Goto(s, label),
           label \in {"check", "create_account"} => req[s].pc = "check"
    PROVE  CreationInv'
<1> DEFINE r == [req[s] EXCEPT !.pc = label]
<1>1. req[s] \in Request /\ req[s] # Idle
    BY BusySlot DEF GoodRequest, Idle
<1>2. CreationUndone(req[s])
    BY <1>1 DEF CreationInv
<1>3. /\ r.op = req[s].op /\ r.org = req[s].org /\ r.undo = req[s].undo /\ r.pc = label
      /\ req[s].org \in Orgs \cup {NoOrg}
    BY <1>1 DEF Request
<1>4. req[s].org \in Orgs /\ IsDropped(req[s].org) => accounts'[req[s].org] = Dropped
    BY AccountsChange, DroppedForEver DEF IndInv, IsDropped
<1>5. req' = [req EXCEPT ![s] = r]  BY DEF Goto
<1> HIDE DEF r
<1> QED  BY <1>2, <1>3, <1>4, <1>5, SlotUndone DEF CreationUndone, Undoable

-----------------------------------------------------------------------------
(* Every step.                                                             *)

LEMMA ReceiveUndone ==
    ASSUME IndInv, CreationInv, NEW s \in Slots, Receive(s)
    PROVE  CreationInv'
<1>1. PICK u, r : Accept(s, u, r) /\ GoodRequest(r) /\ r.undo = <<>> /\ r.pc = "check"
    BY ReceivedRequest
<1>2. r.op = "create_org" => r.org = NoOrg
    <2>1. CASE ReceiveCreateOrg(s)
        <3>1. PICK v \in Users, n \in Names :
                req'[s] = [Arrival("create_org", v, IF IsSuperAdmin(v) THEN "SUPER_ADMIN" ELSE "NONE", NoOrg)
                                EXCEPT !.role = "ADMIN", !.name = n]
            BY <2>1 DEF ReceiveCreateOrg, Accept, IndInv, TypeOK, RequestsTypeOK
        <3>2. req'[s] = r
            BY <1>1 DEF Accept, IndInv, TypeOK, RequestsTypeOK
        <3> QED  BY <3>1, <3>2 DEF Arrival
    <2>2. CASE ~ReceiveCreateOrg(s)
        <3>1. req'[s] = r
            BY <1>1 DEF Accept, IndInv, TypeOK, RequestsTypeOK
        <3>2. \A v, n : Accept(s, v, n) => req'[s] = n
            BY DEF Accept, IndInv, TypeOK, RequestsTypeOK
        <3>3. CASE ReceiveJoin(s)
            <4>1. PICK v \in Users, c \in Clients, o \in Orgs :
                    Accept(s, v, [Arrival("join", v, RoleForOrg(v, c, o), o) EXCEPT !.role = "CONTRIBUTOR_PENDING"])
                BY <3>3 DEF ReceiveJoin
            <4>2. req'[s] = [Arrival("join", v, RoleForOrg(v, c, o), o) EXCEPT !.role = "CONTRIBUTOR_PENDING"]
                BY <3>2, <4>1
            <4> QED  BY <3>1, <4>2 DEF Arrival
        <3>4. CASE ReceiveUpdate(s)
            <4>1. PICK v, target \in Users, c \in Clients, o \in Orgs, role \in AssignableRoles :
                    Accept(s, v, [Arrival("update", v, RoleForOrg(v, c, o), o) EXCEPT !.target = target, !.role = role])
                BY <3>4 DEF ReceiveUpdate
            <4>2. req'[s] = [Arrival("update", v, RoleForOrg(v, c, o), o) EXCEPT !.target = target, !.role = role]
                BY <3>2, <4>1
            <4> QED  BY <3>1, <4>2 DEF Arrival
        <3>5. CASE ReceiveRemove(s)
            <4>1. PICK v, target \in Users, c \in Clients, o \in Orgs :
                    Accept(s, v, [Arrival("remove", v, RoleForOrg(v, c, o), o) EXCEPT !.target = target])
                BY <3>5 DEF ReceiveRemove
            <4>2. req'[s] = [Arrival("remove", v, RoleForOrg(v, c, o), o) EXCEPT !.target = target]
                BY <3>2, <4>1
            <4> QED  BY <3>1, <4>2 DEF Arrival
        <3>6. CASE ReceiveToolRequest(s)
            <4>1. PICK op \in {"authorise", "revoke"}, v \in Users, c \in Clients, o \in Orgs, t \in Tools :
                    Accept(s, v, [Arrival(op, v, RoleForOrg(v, c, o), o) EXCEPT !.tool = t])
                BY <3>6 DEF ReceiveToolRequest
            <4>2. req'[s] = [Arrival(op, v, RoleForOrg(v, c, o), o) EXCEPT !.tool = t]
                BY <3>2, <4>1
            <4> QED  BY <3>1, <4>2 DEF Arrival
        <3> QED
            BY <2>2, <3>1, <3>3, <3>4, <3>5, <3>6
            DEF Receive, ReceiveUserRequest, ReceiveOrgRequest
    <2> QED  BY <2>1, <2>2
<1> QED  BY <1>1, <1>2, SlotUndone DEF Accept

\* The relationship is made: its undo action comes after the first one.
LEMMA LinkUndone ==
    ASSUME IndInv, CreationInv, NEW s \in Slots, JoinLink(s) \/ CreateOrgLink(s)
    PROVE  CreationInv'
<1> DEFINE list == Append(req[s].undo, "delete_relationship")
           r == [req[s] EXCEPT !.pc = "create_role", !.undo = Append(@, "delete_relationship")]
<1>1. req[s] \in Request /\ req[s] # Idle /\ req[s].pc = "link" /\ Step(s)
    BY BusySlot DEF GoodRequest, Idle, JoinLink, CreateOrgLink, At, Step, UserStep, OrgStep, JoinStep,
       CreateOrgStep
<1>2. req[s].undo \in Seq(UndoActions) /\ req[s].org \in Orgs \cup {NoOrg} /\ CreationUndone(req[s])
    BY <1>1 DEF Request, CreationInv
<1>3. CASE req' = [req EXCEPT ![s].pc = "create_role",
                              ![s].undo = Append(@, "delete_relationship")]
    <2>1. r.op = req[s].op /\ r.org = req[s].org /\ r.pc = "create_role" /\ r.undo = list
        BY <1>1 DEF Request
    <2>2. Undoable(req[s]) => Undoable(r)
        BY <1>2, <2>1, AppendKeepsFirst DEF Undoable, UndoActions
    <2>3. UNCHANGED accounts
        BY <1>3, <1>1 DEF JoinLink, CreateOrgLink, CreateLink, crmVars
    <2>4. req' = [req EXCEPT ![s] = r]  BY <1>3
    <2> HIDE DEF r, list
    <2> QED  BY <1>1, <1>2, <2>1, <2>2, <2>3, <2>4, SlotUndone DEF CreationUndone, IsDropped
<1>4. CASE Fail(s)
    BY <1>1, <1>4, GotoUndone DEF Fail
<1> QED  BY <1>3, <1>4 DEF JoinLink, CreateOrgLink

\* The account is made: deleting it becomes the first undo action.
LEMMA AccountUndone ==
    ASSUME IndInv, CreationInv, NEW s \in Slots, CreateOrgAccount(s)
    PROVE  CreationInv'
<1>1. /\ req[s] \in Request /\ req[s] # Idle /\ Step(s)
      /\ req[s].pc = "create_account" /\ req[s].op = "create_org"
    <2>1. req[s].pc = "create_account" /\ req[s].op = "create_org"
        BY DEF CreateOrgAccount, At
    <2>2. req[s] \in Request /\ req[s] # Idle
        BY <2>1, BusySlot DEF GoodRequest, Idle
    <2>3. Step(s)
        BY DEF Step, OrgStep, CreateOrgStep
    <2> QED  BY <2>1, <2>2, <2>3
<1>2. req[s].undo \in Seq(UndoActions) /\ req[s].undo = <<>>
    BY <1>1 DEF Request, CreationInv, CreationUndone
<1>3. ASSUME NEW o \in Orgs,
             req' = [req EXCEPT ![s].pc = AfterAccount(req[s]),
                                ![s].org = o,
                                ![s].undo = Append(@, "delete_account")]
      PROVE  CreationInv'
    <2> DEFINE list == Append(req[s].undo, "delete_account")
               r == [req[s] EXCEPT !.pc = AfterAccount(req[s]), !.org = o,
                                   !.undo = Append(@, "delete_account")]
    <2>1. r.pc = AfterAccount(req[s]) /\ r.undo = list
        BY <1>1 DEF Request
    <2>2. r.pc \notin {"check", "create_account"}
        BY <2>1 DEF AfterAccount
    <2>3. Undoable(r)
        BY <1>2, <2>1, AppendToNone DEF Undoable, UndoActions
    <2>4. req' = [req EXCEPT ![s] = r]  BY <1>3
    <2> HIDE DEF r, list
    <2> QED  BY <1>1, <2>2, <2>3, <2>4, SlotUndone
<1>4. CASE Fail(s)
    BY <1>1, <1>4, GotoUndone DEF Fail
<1> QED  BY <1>3, <1>4 DEF CreateOrgAccount

\* An undo action leaves the first one in the list, or is that one.
LEMMA UndoUndone ==
    ASSUME IndInv, CreationInv, NEW s \in Slots, RunUndoAction(s)
    PROVE  CreationInv'
<1> DEFINE list == Popped(req[s].undo)
           r == [req[s] EXCEPT !.undo = Popped(@)]
<1>1. req[s] \in Request /\ req[s] # Idle /\ req[s].pc = "undo" /\ Step(s)
    BY BusySlot DEF GoodRequest, Idle, RunUndoAction, Step, Undo
<1>2. /\ req[s].undo \in Seq(UndoActions) /\ req[s].undo # <<>>
      /\ req[s].org \in Orgs \cup {NoOrg} /\ CreationUndone(req[s])
    BY <1>1 DEF Request, CreationInv, RunUndoAction
<1>3. r.op = req[s].op /\ r.org = req[s].org /\ r.pc = "undo" /\ r.undo = list
    BY <1>1 DEF Request
<1>4. ASSUME Undoable(req[s]), req[s].org \in Orgs
      PROVE  Undoable(r) \/ accounts'[req[s].org] = Dropped
    <2>1. CASE Len(req[s].undo) = 1
        <3>1. req[s].undo[Len(req[s].undo)] = "delete_account"
            BY <2>1, <1>4 DEF Undoable
        <3>2. DropAccount(req[s].org)
            BY <3>1 DEF RunUndoAction
        <3> QED  BY <3>2, <1>4 DEF DropAccount, IndInv, TypeOK, CrmTypeOK
    <2>2. CASE Len(list) > 0 /\ list[1] = req[s].undo[1]
        BY <2>2, <1>3, <1>4 DEF Undoable
    <2> QED  BY <1>2, <2>1, <2>2, PoppedKeepsFirst
<1>5. req[s].org \in Orgs /\ IsDropped(req[s].org) => accounts'[req[s].org] = Dropped
    BY <1>1, AccountsChange, DroppedForEver DEF IndInv, IsDropped
<1>6. req' = [req EXCEPT ![s] = r]
    BY DEF RunUndoAction
<1> HIDE DEF r, list
<1> QED  BY <1>1, <1>2, <1>3, <1>4, <1>5, <1>6, SlotUndone DEF CreationUndone

LEMMA StepUndone ==
    ASSUME IndInv, CreationInv, NEW s \in Slots, Step(s)
    PROVE  CreationInv'
<1>1. CASE \/ Answer(s)
           \/ \E label : /\ Goto(s, label) /\ req[s].pc # "idle"
                         /\ label \in {"check", "create_account"} => req[s].pc = "check"
    BY <1>1, GotoUndone, AnswerUndone
<1>2. CASE JoinLink(s) \/ CreateOrgLink(s)
    BY <1>2, LinkUndone
<1>3. CASE CreateOrgAccount(s)
    BY <1>3, AccountUndone
<1>4. CASE RunUndoAction(s)
    BY <1>4, UndoUndone
<1>5. CASE UpdateReadRole(s) \/ RemoveReadRole(s)
    <2>1. req[s] \in Request /\ req[s].op # "create_org"
        BY <1>5, BusySlot DEF UpdateReadRole, RemoveReadRole, At, GoodRequest
    <2>2. CASE \E label, kept : req' = [req EXCEPT ![s].pc = label, ![s].held = kept]
        <3>1. PICK label, kept : req' = [req EXCEPT ![s].pc = label, ![s].held = kept]
            BY <2>2
        <3> DEFINE r == [req[s] EXCEPT !.pc = label, !.held = kept]
        <3>2. req' = [req EXCEPT ![s] = r] /\ r.op # "create_org"
            BY <2>1, <3>1 DEF Request
        <3> HIDE DEF r
        <3> QED  BY <3>2, SlotUndone
    <2> QED  BY <1>1, <1>5, <2>2 DEF UpdateReadRole, RemoveReadRole, At
<1>6. CASE JoinStep(s) /\ ~JoinLink(s)
    BY <1>1, <1>6 DEF JoinStep, JoinCheck, JoinCreateRole, JoinNotify, Fail, At
<1>7. CASE UpdateStep(s) /\ ~UpdateReadRole(s)
    BY <1>1, <1>7 DEF UpdateStep, UpdateCheck, UpdateReadLink, AfterReadLink, UpdateRepairLink,
       UpdateCreateRole, UpdateMerge, At
<1>8. CASE RemoveStep(s) /\ ~RemoveReadRole(s)
    BY <1>1, <1>8 DEF RemoveStep, RemoveCheck, RemoveReadOrg, RemoveDelete, At
<1>9. CASE CreateOrgStep(s) /\ ~CreateOrgAccount(s) /\ ~CreateOrgLink(s)
    BY <1>1, <1>9 DEF CreateOrgStep, CreateOrgCheck, CreateOrgRole, CreateOrgContact, Fail, At
<1>10. CASE ToolStep(s)
    BY <1>1, <1>10 DEF ToolStep, AuthoriseCheck, AuthoriseWrite, RevokeCheck, RevokeWrite, At
<1>11. CASE UserCallRaises(s) \/ OrgCallRaises(s) \/ UndoActionRaises(s) \/ UndoEnds(s)
    BY <1>1, <1>11 DEF UserCallRaises, OrgCallRaises, UndoActionRaises, UndoEnds
<1> QED
    BY <1>2, <1>3, <1>4, <1>5, <1>6, <1>7, <1>8, <1>9, <1>10, <1>11
    DEF Step, UserStep, OrgStep, Undo

-----------------------------------------------------------------------------
(* The invariant, and what follows when the list has run out.              *)

LEMMA InitUndone == Init => CreationInv
BY DEF Init, CreationInv

LEMMA NextUndone == IndInv /\ CreationInv /\ [Next]_vars => CreationInv'
<1> SUFFICES ASSUME IndInv, CreationInv, [Next]_vars PROVE CreationInv'  OBVIOUS
<1>1. CASE Crash
    BY <1>1 DEF Crash, CreationInv
<1>2. CASE UNCHANGED vars
    BY <1>2 DEF vars, CreationInv, CreationUndone, Undoable, IsDropped
<1> QED  BY <1>1, <1>2, ReceiveUndone, StepUndone DEF Next

LEMMA FailedCreationStep ==
    ASSUME IndInv, CreationInv, [Next]_vars, NEW s \in Slots,
           At(s, "create_org", "undo"), req[s].undo = <<>>, req[s].org # NoOrg,
           req'[s] = Idle
    PROVE  accounts'[req[s].org] = Dropped
<1>1. req[s] \in Request /\ req[s] # Idle
    BY BusySlot DEF GoodRequest, At, Idle
<1>2. req[s].org \in Orgs /\ IsDropped(req[s].org)
    BY <1>1 DEF Request, CreationInv, CreationUndone, Undoable, At
<1>3. \/ UNCHANGED accounts
      \/ \E p \in Orgs : \E n : CreateAccount(p, n)
      \/ \E p : DropAccount(p)
    BY AccountsChange DEF Next, Crash, vars
<1> QED  BY <1>2, <1>3, DroppedForEver DEF IndInv

\* However a creation fails once it knows its account, and whatever the other
\* requests do, when all its undo actions have run the account is gone.
THEOREM FailedCreationIsUndone == Spec => FailedCreationLeavesNoAccount
<1>1. Spec => []CreationInv
    BY InitUndone, NextUndone, Invariant, PTL DEF Spec
<1>2. IndInv /\ CreationInv /\ [Next]_vars =>
        [\A s \in Slots :
            /\ At(s, "create_org", "undo")
            /\ req[s].undo = <<>>
            /\ req[s].org # NoOrg
            /\ req'[s] = Idle
            => accounts'[req[s].org] = Dropped]_vars
    BY FailedCreationStep
<1> QED  BY <1>1, <1>2, Invariant, PTL DEF Spec, FailedCreationLeavesNoAccount
=============================================================================
