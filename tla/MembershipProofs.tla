--------------------------- MODULE MembershipProofs --------------------------
(***************************************************************************)
(* Theorems about Membership: a join that fails tells nobody, a listing of *)
(* users fails only when something was given or undone in between, and     *)
(* while requests are apart the loop over the admins is the one step of    *)
(* RydApi.                                                                 *)
(*                                                                         *)
(* When they are not, Membership is no refinement of RydApi: an admin may  *)
(* come or go while the loop runs.  The invariants of RydApi carry over    *)
(* all the same, since the steps that are new write no table.              *)
(***************************************************************************)
EXTENDS Membership, RecordProofs

\* The steps that RydApi may not have: the end of the loop over the admins.
LoopEnds(s) ==
    /\ At(s, "join", "notify")
    /\ Answer(s) \/ Fail(s)
    /\ UNCHANGED <<fga, toolAuth, accounts, links>>

\* What Membership leaves as it is in RydApi.
LEMMA HandlerSteps ==
    ASSUME NEW s \in Slots, OtherStep(s) \/ JoinReadAdminsRaises(s) \/ CreateOrgAnswer(s)
    PROVE  Step(s)
BY DEF OtherStep, JoinReadAdminsRaises, CreateOrgAnswer, Step, UserStep, OrgStep, JoinStep, CreateOrgStep

\* Every other step is a step of RydApi, or touches none of its variables.
LEMMA MembershipSteps ==
    ASSUME MNext
    PROVE  \/ UNCHANGED vars
           \/ Crash
           \/ \E s \in Slots : Receive(s) \/ Step(s) \/ LoopEnds(s)
<1>1. ASSUME NEW s \in Slots, JoinQueueNotice(s) \/ JoinAnswer(s)
      PROVE  UNCHANGED vars \/ LoopEnds(s)
    BY <1>1 DEF JoinQueueNotice, JoinAnswer, LoopEnds, vars
<1>2. ASSUME NEW s \in Slots, JoinReadAdmins(s) \/ RunTask(s)
      PROVE  UNCHANGED vars
    BY <1>2 DEF JoinReadAdmins, RunTask, SendNotice, SendRaises
<1>3. List => UNCHANGED vars
    BY DEF List, ListingReadLinks, ListingReadRows
<1> QED
    BY <1>1, <1>2, <1>3, HandlerSteps DEF MNext, MCrash, MReceive, MStep

LEMMA LoopEndsKeepsInv ==
    ASSUME IndInv, NEW s \in Slots, LoopEnds(s)
    PROVE  IndInv'
<1>1. GoodRequest(req[s]) /\ req[s].op = "join"
    BY BusySlot DEF LoopEnds, At
<1>2. RequestsTypeOK' /\ RequestsSound'
    BY <1>1, FailKeepsRequest, AnswerKeepsSlots DEF LoopEnds
<1> QED  BY <1>2, OnlySlotsChange DEF LoopEnds

LEMMA RydApiInvKept == IndInv /\ [MNext]_mvars => IndInv'
<1> SUFFICES ASSUME IndInv, [MNext]_mvars PROVE IndInv'  OBVIOUS
<1>1. CASE UNCHANGED vars
    BY <1>1, NextInv
<1>2. CASE Crash
    BY <1>2, NextInv DEF Next
<1>3. ASSUME NEW s \in Slots, Receive(s) \/ Step(s)
      PROVE  IndInv'
    BY <1>3, NextInv DEF Next
<1> QED  BY <1>1, <1>2, <1>3, MembershipSteps, LoopEndsKeepsInv DEF mvars

LEMMA RydApiInvariant == MSpec => []IndInv
<1>1. MInit => IndInv
    BY InitInv DEF MInit
<1> QED  BY <1>1, RydApiInvKept, PTL DEF MSpec

-----------------------------------------------------------------------------
(* Types.                                                                  *)

NoticeTypeOK ==
    /\ notify \in [Slots -> Loop \cup {NotRead}]
    /\ mail \in [Slots -> SUBSET Notices]
    /\ owed \in [Slots -> SUBSET Notices]

HistoryTypeOK == listing \in Reading \cup Listed /\ undone \in BOOLEAN

\* A notice about the request in slot s.
LEMMA NoticeType ==
    ASSUME IndInv, NEW s \in Slots, req[s].pc # "idle", req[s].org \in Orgs, NEW to \in Users \cup {Support}
    PROVE  Notice(s, to) \in Notices
BY BusySlot DEF Notice, Notices, GoodRequest, Request

LEMMA JoinNoticeTypes ==
    ASSUME IndInv, NoticeTypeOK, NEW s \in Slots, At(s, "join", "notify"),
           JoinReadAdmins(s) \/ JoinQueueNotice(s) \/ JoinAnswer(s)
    PROVE  NoticeTypeOK'
<1>1. req[s].pc # "idle" /\ req[s].org \in Orgs
    BY BusySlot DEF At, GoodRequest, SoundRequest, SoundArrival
<1>2. CASE JoinReadAdmins(s)
    <2> DEFINE admins == AdminsToTell(req[s].org)
    <2>1. admins \subseteq Users
        BY DEF AdminsToTell, AdminRows, IndInv, TypeOK, FgaTypeOK, Rows
    <2>2. {Notice(s, admin) : admin \in admins} \subseteq Notices
        BY <1>1, <2>1, NoticeType
    <2>3. [pc |-> "loop", todo |-> admins, queued |-> {}] \in Loop
        BY <2>1 DEF Loop
    <2> QED  BY <1>2, <2>2, <2>3 DEF JoinReadAdmins, NoticeTypeOK
<1>3. CASE JoinQueueNotice(s)
    <2>1. notify[s] \in Loop
        BY <1>3 DEF JoinQueueNotice, NoticeTypeOK
    <2>2. \A admin \in notify[s].todo : Notice(s, admin) \in Notices
        BY <1>1, <2>1, NoticeType DEF Loop
    <2>3. ASSUME NEW admin \in notify[s].todo, NEW queued, queued = notify[s].queued \cup {Notice(s, admin)},
                 notify' = [notify EXCEPT ![s].todo = @ \ {admin}, ![s].queued = queued]
          PROVE  notify' \in [Slots -> Loop \cup {NotRead}]
        <3>1. [notify[s] EXCEPT !.todo = @ \ {admin}, !.queued = queued] \in Loop
            BY <2>1, <2>2, <2>3 DEF Loop
        <3> QED  BY <2>3, <3>1 DEF NoticeTypeOK
    <2> QED  BY <1>3, <2>3 DEF JoinQueueNotice, Enqueued, NoticeTypeOK
<1>4. CASE JoinAnswer(s)
    <2>1. notify[s] \in Loop
        BY <1>4 DEF JoinAnswer, NoticeTypeOK
    <2> QED  BY <1>4, <2>1 DEF JoinAnswer, NoticeTypeOK, Loop
<1> QED  BY <1>2, <1>3, <1>4

LEMMA NoticeTypesKept == IndInv /\ NoticeTypeOK /\ [MNext]_mvars => NoticeTypeOK'
<1> SUFFICES ASSUME IndInv, NoticeTypeOK, [MNext]_mvars PROVE NoticeTypeOK'  OBVIOUS
<1>1. ASSUME UNCHANGED noticeVars
      PROVE  NoticeTypeOK'
    BY <1>1 DEF noticeVars, NoticeTypeOK
<1>2. CASE MCrash
    BY <1>2 DEF MCrash, NoticeTypeOK
<1>3. ASSUME NEW s \in Slots, MStep(s)
      PROVE  NoticeTypeOK'
    <2>1. CASE CreateOrgAnswer(s)
        <3>1. req[s].pc # "idle" /\ req[s].org \in Orgs
            BY <2>1, BusySlot DEF CreateOrgAnswer, CreateOrgContact, At, GoodRequest, SoundRequest, SoundArrival
        <3>2. Notice(s, Support) \in Notices
            BY <3>1, NoticeType
        <3> QED  BY <2>1, <3>2 DEF CreateOrgAnswer, NoticeTypeOK
    <2>2. CASE JoinReadAdmins(s) \/ JoinQueueNotice(s) \/ JoinAnswer(s)
        BY <2>2, JoinNoticeTypes DEF JoinReadAdmins, JoinQueueNotice, JoinAnswer
    <2> QED
        BY <1>1, <1>3, <2>1, <2>2 DEF MStep, OtherStep, JoinReadAdminsRaises
<1>4. ASSUME NEW s \in Slots, RunTask(s)
      PROVE  NoticeTypeOK'
    BY <1>4 DEF RunTask, SendNotice, SendRaises, LeftAfterError, NoticeTypeOK
<1>5. List \/ (\E s \in Slots : MReceive(s)) \/ UNCHANGED mvars => UNCHANGED noticeVars
    BY DEF List, ListingReadLinks, ListingReadRows, MReceive, mvars, noticeVars
<1> QED  BY <1>1, <1>2, <1>3, <1>4, <1>5 DEF MNext

LEMMA HistoryTypesKept == HistoryTypeOK /\ [MNext]_mvars => HistoryTypeOK'
<1> SUFFICES ASSUME HistoryTypeOK, [MNext]_mvars PROVE HistoryTypeOK'  OBVIOUS
<1>1. CASE Observed
    <2>1. CASE listing.pc = "reading"
        <3>1. listing \in Reading
            BY <2>1 DEF HistoryTypeOK, Listed
        <3>2. (listing.given \/ Given(listing.org)) \in BOOLEAN
            OBVIOUS
        <3>3. [listing EXCEPT !.given = @ \/ Given(listing.org)] \in Reading
            BY <3>1, <3>2 DEF Reading
        <3> QED  BY <1>1, <2>1, <3>3 DEF Observed, HistoryTypeOK
    <2> QED  BY <1>1, <2>1 DEF Observed, HistoryTypeOK
<1>2. CASE ListingReadLinks
    <2>1. PICK u \in Users, o \in Orgs :
            listing' = [pc |-> "reading", org |-> o, superadmin |-> IsSuperAdmin(u),
                        linked |-> UsersLinked(o), given |-> FALSE]
        BY <1>2 DEF ListingReadLinks
    <2>2. IsSuperAdmin(u) \in BOOLEAN /\ UsersLinked(o) \subseteq Users
        BY DEF IsSuperAdmin, UsersLinked
    <2>3. listing' \in Reading
        BY <2>1, <2>2 DEF Reading
    <2> QED  BY <1>2, <2>3 DEF ListingReadLinks, HistoryTypeOK
<1>3. CASE ListingReadRows
    <2>1. listing.given \in BOOLEAN
        BY <1>3 DEF ListingReadRows, HistoryTypeOK, Reading, Listed
    <2> QED  BY <1>3, <2>1 DEF ListingReadRows, HistoryTypeOK, Listed
<1>4. CASE UNCHANGED mvars
    BY <1>4 DEF mvars, HistoryTypeOK
<1> QED  BY <1>1, <1>2, <1>3, <1>4 DEF MNext, List

\* The variables of Membership keep to their types, for any overlap and fault.
THEOREM MembershipTypes == MSpec => []MembershipTypeOK
<1>1. MInit => NoticeTypeOK /\ HistoryTypeOK
    <2> SUFFICES ASSUME MInit PROVE NoticeTypeOK /\ HistoryTypeOK  OBVIOUS
    <2>1. NoticeTypeOK
        BY DEF MInit, NoticeTypeOK
    <2>2. [pc |-> "listed", given |-> FALSE] \in Listed
        BY DEF Listed
    <2> QED  BY <2>1, <2>2 DEF MInit, HistoryTypeOK
<1>2. IndInv /\ NoticeTypeOK /\ HistoryTypeOK => MembershipTypeOK
    BY DEF IndInv, NoticeTypeOK, HistoryTypeOK, MembershipTypeOK
<1> QED  BY <1>1, <1>2, RydApiInvariant, NoticeTypesKept, HistoryTypesKept, PTL DEF MSpec

-----------------------------------------------------------------------------
(* Emails.                                                                 *)

\* While a slot has a request, no task of its last response is left.
NothingSentYet == \A s \in Slots : req[s].pc # "idle" => mail[s] = {}

LEMMA HandlerIsBusy ==
    ASSUME NEW s \in Slots, MStep(s)
    PROVE  req[s].pc # "idle"
BY DEF MStep, OtherStep, JoinReadAdmins, JoinReadAdminsRaises, JoinQueueNotice, JoinAnswer, CreateOrgAnswer,
   JoinCheck, JoinLink, JoinCreateRole, JoinNotify,
   UpdateStep, UpdateCheck, UpdateReadLink, UpdateRepairLink, UpdateReadRole, UpdateCreateRole, UpdateMerge,
   RemoveStep, RemoveCheck, RemoveReadRole, RemoveReadOrg, RemoveDelete,
   ToolStep, AuthoriseCheck, AuthoriseWrite, RevokeCheck, RevokeWrite,
   CreateOrgCheck, CreateOrgAccount, CreateOrgLink, CreateOrgRole, CreateOrgContact,
   UserCallRaises, OrgCallRaises, Undo, RunUndoAction, UndoActionRaises, UndoEnds, At

LEMMA MailKept == IndInv /\ NoticeTypeOK /\ NothingSentYet /\ [MNext]_mvars => NothingSentYet'
<1> SUFFICES ASSUME IndInv, NoticeTypeOK, NothingSentYet, [MNext]_mvars PROVE NothingSentYet'  OBVIOUS
<1>1. CASE MCrash
    BY <1>1 DEF MCrash, Crash, NothingSentYet, Idle
<1>2. ASSUME NEW s \in Slots, MReceive(s)
      PROVE  NothingSentYet'
    BY <1>2, ReceiveOneSlot DEF MReceive, noticeVars, NothingSentYet
<1>3. ASSUME NEW s \in Slots, OtherStep(s) \/ JoinReadAdminsRaises(s)
      PROVE  NothingSentYet'
    <2>1. \A t \in Slots : t # s => req'[t] = req[t]
        BY <1>3, HandlerSteps, StepOneSlot
    <2> QED
        BY <1>3, <2>1, HandlerIsBusy DEF MStep, OtherStep, JoinReadAdminsRaises, noticeVars, NothingSentYet
<1>4. ASSUME NEW s \in Slots, JoinReadAdmins(s) \/ JoinQueueNotice(s)
      PROVE  NothingSentYet'
    <2>1. mail' = mail /\ req[s].pc # "idle"
        BY <1>4, HandlerIsBusy DEF MStep, JoinReadAdmins, JoinQueueNotice, Enqueued
    <2>2. \A t \in Slots : t # s => req'[t] = req[t]
        BY <1>4 DEF JoinReadAdmins, JoinQueueNotice, Fail, Goto, vars, IndInv, TypeOK, RequestsTypeOK
    <2> QED  BY <2>1, <2>2 DEF NothingSentYet
<1>5. ASSUME NEW s \in Slots, JoinAnswer(s)
      PROVE  NothingSentYet'
    BY <1>5 DEF JoinAnswer, Answer, NothingSentYet, NoticeTypeOK, IndInv, TypeOK, RequestsTypeOK, Idle
<1>6. ASSUME NEW s \in Slots, CreateOrgAnswer(s)
      PROVE  NothingSentYet'
    <2>1. \A t \in Slots : t # s => req'[t] = req[t] /\ mail'[t] = mail[t]
        BY <1>6, HandlerSteps, StepOneSlot DEF CreateOrgAnswer, NoticeTypeOK
    <2>2. req'[s].pc # "idle" => mail'[s] = {}
        BY <1>6 DEF CreateOrgAnswer, NoticeTypeOK, Idle
    <2> QED  BY <2>1, <2>2 DEF NothingSentYet
<1>7. ASSUME NEW s \in Slots, RunTask(s)
      PROVE  NothingSentYet'
    BY <1>7 DEF RunTask, SendNotice, SendRaises, LeftAfterError, vars, NothingSentYet, NoticeTypeOK
<1>8. List \/ UNCHANGED mvars => NothingSentYet'
    BY DEF List, ListingReadLinks, ListingReadRows, mvars, vars, noticeVars, NothingSentYet
<1> QED  BY <1>1, <1>2, <1>3, <1>4, <1>5, <1>6, <1>7, <1>8 DEF MNext, MStep

\* A join that is undone has told no admin: its emails are tasks of a response
\* that is never sent.
THEOREM FailedJoinIsSilent == MSpec => []FailedJoinTellsNobody
<1>1. MInit => NoticeTypeOK /\ NothingSentYet
    BY DEF MInit, NoticeTypeOK, NothingSentYet
<1>2. NothingSentYet => FailedJoinTellsNobody
    BY DEF NothingSentYet, FailedJoinTellsNobody, At
<1> QED  BY <1>1, <1>2, RydApiInvariant, NoticeTypesKept, MailKept, PTL DEF MSpec

-----------------------------------------------------------------------------
(* Listings.                                                               *)

\* Whoever authenticates for a tool as its admin is known to the CRM.
ToolAdminsOnRecord == \A x \in ToolAdmins : x[2] \in Contacts

\* Everybody with a role had the relationship when the CRM was asked.
LinksRead ==
    listing.pc = "reading" =>
        listing.given \/ \A r \in fga : r.org = listing.org => r.user \in listing.linked

ListingInv == ListingFailsOnlyOnJoins /\ (undone \/ (LinkInv /\ LinksRead))

LEMMA LinksKept ==
    ASSUME IndInv, LinkInv, MNext, ~undone'
    PROVE  LinkInv'
<1>1. \A s \in Slots : Observed => req'[s].pc # "undo"
    BY DEF Observed
<1>2. CASE UNCHANGED vars
    <2>1. LinksReady' /\ UndosEmpty'
        BY <1>2 DEF vars, LinkInv, LinksReady, UndosEmpty, Linked
    <2> QED  BY <1>2, <2>1, RolesShrink DEF vars, LinkInv
<1>3. ASSUME NEW s \in Slots, Receive(s) \/ Step(s), Observed
      PROVE  LinkInv'
    BY <1>1, <1>3, StepKeepsLinks DEF Succeeds
<1>4. ASSUME NEW s \in Slots, LoopEnds(s), Observed
      PROVE  LinkInv'
    <2>1. GoodRequest(req[s])
        BY <1>4, BusySlot DEF LoopEnds, At
    <2>2. Answer(s) /\ UNCHANGED <<fga, links>>
        BY <1>1, <1>4, <2>1, FailBeginsUndo DEF LoopEnds
    <2> QED  BY <2>2, AnswerKeepsLinks, RolesShrink DEF LinkInv
<1>5. CASE List
    BY <1>2, <1>5 DEF List, ListingReadLinks, ListingReadRows
<1>6. ~List => Observed
    BY DEF MNext
<1> QED  BY <1>2, <1>3, <1>4, <1>5, <1>6, CrashKeepsLinks, MembershipSteps

LEMMA ListingKept ==
    ASSUME ToolAdminsOnRecord
    PROVE  IndInv /\ HistoryTypeOK /\ ListingInv /\ [MNext]_mvars => ListingInv'
<1> SUFFICES ASSUME IndInv, HistoryTypeOK, ListingInv, [MNext]_mvars PROVE ListingInv'  OBVIOUS
<1>1. CASE UNCHANGED mvars
    <2>1. LinkInv => LinksReady' /\ UndosEmpty' /\ RoleHasRelationship'
        BY <1>1, RolesShrink DEF mvars, vars, LinkInv, LinksReady, UndosEmpty, Linked
    <2> QED  BY <1>1, <2>1 DEF mvars, vars, ListingInv, ListingFailsOnlyOnJoins, LinksRead, LinkInv
<1>2. CASE MNext
    <2>1. undone => undone'
        BY <1>2 DEF MNext, Observed, List, ListingReadLinks, ListingReadRows
    <2>2. undone' \/ LinkInv'
        BY <1>2, <2>1, LinksKept DEF ListingInv
    <2>3. CASE Observed
        <3>1. listing'.pc = listing.pc
            BY <2>3 DEF Observed, HistoryTypeOK, Reading, Listed
        <3>2. CASE listing.pc = "reading"
            <4>1. /\ listing'.org = listing.org /\ listing'.linked = listing.linked
                  /\ listing'.given <=> listing.given \/ Given(listing.org)
                BY <2>3, <3>2 DEF Observed, HistoryTypeOK, Reading, Listed
            <4>2. ~Given(listing.org) => \A r \in fga' : r.org = listing.org => r \in fga
                BY DEF Given
            <4>3. undone \/ LinksRead'
                BY <3>2, <4>1, <4>2 DEF ListingInv, LinksRead
            <4>4. ListingFailsOnlyOnJoins'
                BY <3>1, <3>2 DEF ListingFailsOnlyOnJoins
            <4> QED  BY <2>1, <2>2, <4>3, <4>4 DEF ListingInv
        <3>3. CASE listing.pc # "reading"
            <4>1. listing' = listing
                BY <2>3, <3>3 DEF Observed
            <4> QED  BY <2>1, <2>2, <3>3, <4>1 DEF ListingInv, ListingFailsOnlyOnJoins, LinksRead
        <3> QED  BY <3>2, <3>3
    <2>4. CASE ListingReadLinks
        <3>1. PICK u \in Users, o \in Orgs :
                listing' = [pc |-> "reading", org |-> o, superadmin |-> IsSuperAdmin(u),
                            linked |-> UsersLinked(o), given |-> FALSE]
            BY <2>4 DEF ListingReadLinks
        <3>2. UNCHANGED <<fga, undone>>
            BY <2>4 DEF ListingReadLinks, vars
        <3>3. undone \/ \A r \in fga : r.org = o => r.user \in UsersLinked(o)
            BY DEF ListingInv, LinkInv, RoleHasRelationship, UsersLinked, IndInv, TypeOK, FgaTypeOK, Rows
        <3>4. /\ listing'.pc = "reading" /\ listing'.org = o
              /\ listing'.linked = UsersLinked(o)
            BY <3>1
        <3>5. ListingFailsOnlyOnJoins'
            BY <3>4 DEF ListingFailsOnlyOnJoins
        <3>6. undone' \/ LinksRead'
            BY <3>2, <3>3, <3>4 DEF LinksRead
        <3> QED  BY <2>2, <3>5, <3>6 DEF ListingInv
    <2>5. CASE ListingReadRows
        <3>1. /\ listing'.pc \in {"conflict", "missing", "listed"} /\ listing'.given = listing.given
              /\ listing'.pc = "missing" => Nameless(listing.org) # {}
              /\ listing.pc = "reading" /\ UNCHANGED undone
            BY <2>5 DEF ListingReadRows
        <3>2. \A u \in Users : ProviderTools(u, listing.org) # {} => u \in Contacts
            BY DEF ToolAdminsOnRecord, ProviderTools
        <3>3. Nameless(listing.org) # {} => listing.given \/ undone
            BY <3>1, <3>2 DEF Nameless, RowsFor, ListingInv, LinksRead
        <3> QED  BY <2>2, <3>1, <3>3 DEF ListingInv, ListingFailsOnlyOnJoins, LinksRead
    <2> QED  BY <1>2, <2>3, <2>4, <2>5 DEF MNext, List
<1> QED  BY <1>1, <1>2

\* A listing finds a member without a record only if somebody got a role or a
\* tool between its two reads, or a handler has begun to undo:
\* for any overlap of the other requests and any fault.
THEOREM ListingFailsOnlyThen ==
    ASSUME ToolAdminsOnRecord
    PROVE  MSpec => []ListingFailsOnlyOnJoins
<1>1. MInit => HistoryTypeOK /\ ListingInv
    <2> SUFFICES ASSUME MInit PROVE HistoryTypeOK /\ ListingInv  OBVIOUS
    <2>1. listing \in Listed /\ listing.pc = "listed"
        BY DEF MInit, Listed
    <2> QED
        BY <2>1, InitLinks DEF MInit, HistoryTypeOK, ListingInv, ListingFailsOnlyOnJoins, LinksRead
<1>2. ListingInv => ListingFailsOnlyOnJoins
    BY DEF ListingInv
<1> QED  BY <1>1, <1>2, RydApiInvariant, HistoryTypesKept, ListingKept, PTL DEF MSpec

-----------------------------------------------------------------------------
(* The loop over the admins.                                               *)

LEMMA LoopEndsKeepsIds ==
    ASSUME IndInv, IdsMatch, NEW s \in Slots, LoopEnds(s)
    PROVE  IdsMatch'
<1>1. req[s].pc # "idle"
    BY DEF LoopEnds, At
<1>2. \A t \in Slots : KeepsHeld(t)
    BY <1>1, GotoKeepsHeld, AnswerKeepsHeld DEF LoopEnds, Fail
<1> QED  BY <1>2, KeptDescends, RowDescends, SameOrFewerIds DEF LoopEnds

\* In Membership too, one id is one user and one organisation.
LEMMA IdsKept == IndInv /\ IdsMatch /\ [MNext]_mvars => IdsMatch'
<1> SUFFICES ASSUME IndInv, IdsMatch, [MNext]_mvars PROVE IdsMatch'  OBVIOUS
<1>1. [Next]_vars \/ \E s \in Slots : LoopEnds(s)
    BY MembershipSteps DEF Next, mvars
<1> QED  BY <1>1, NextIds, LoopEndsKeepsIds

\* Whoever is left in the loop is an admin, and whoever is not was found.
LoopSound(s) ==
    notify[s] # NotRead =>
        /\ At(s, "join", "notify")
        /\ notify[s].todo \subseteq AdminsToTell(req[s].org)
        /\ AdminsToTell(req[s].org) \ notify[s].todo \subseteq Contacts

LoopInv == \A s \in Slots : LoopSound(s)

\* The loops of the other slots.
OtherLoops(s) == \A t \in Slots : t # s => LoopSound(t)'

LEMMA TheLoop ==
    ASSUME NEW s \in Slots, OtherLoops(s), LoopSound(s)'
    PROVE  LoopInv'
BY DEF LoopInv, OtherLoops

LEMMA OneSlotLoops ==
    ASSUME IndInv, NoticeTypeOK, NEW s \in Slots, MReceive(s) \/ MStep(s), NEW t \in Slots, t # s
    PROVE  req'[t] = req[t] /\ notify'[t] = notify[t]
<1>1. CASE MReceive(s)
    BY <1>1, ReceiveOneSlot DEF MReceive, noticeVars
<1>2. CASE OtherStep(s) \/ JoinReadAdminsRaises(s) \/ CreateOrgAnswer(s)
    BY <1>2, HandlerSteps, StepOneSlot DEF OtherStep, JoinReadAdminsRaises, CreateOrgAnswer, noticeVars
<1>3. CASE JoinReadAdmins(s) \/ JoinQueueNotice(s) \/ JoinAnswer(s)
    BY <1>3
    DEF JoinReadAdmins, JoinQueueNotice, JoinAnswer, Answer, Fail, Goto, vars, NoticeTypeOK, IndInv, TypeOK,
        RequestsTypeOK
<1> QED  BY <1>1, <1>2, <1>3 DEF MStep

\* Nobody writes about an organisation while the loop of another request runs
\* over its admins.
LEMMA OtherLoopsSound ==
    ASSUME IndInv, IdsMatch, Apart, NoticeTypeOK, LoopInv, NEW s \in Slots, MReceive(s) \/ MStep(s)
    PROVE  OtherLoops(s)
<1> SUFFICES ASSUME NEW t \in Slots, t # s, notify'[t] # NotRead PROVE LoopSound(t)'
    BY DEF OtherLoops, LoopSound
<1>1. req'[t] = req[t] /\ notify'[t] = notify[t]
    BY OneSlotLoops
<1>2. LoopSound(t) /\ At(t, "join", "notify")
    BY <1>1 DEF LoopInv, LoopSound
<1>3. req[t] # Idle /\ req[t].org \in Orgs
    BY <1>2, BusySlot DEF At, Idle, GoodRequest, SoundRequest, SoundArrival
<1>4. CASE Step(s)
    <2>1. AdminRows(req[t].org)' = AdminRows(req[t].org)
        BY <1>1, <1>3, <1>4, Bystander
    <2> QED  BY <1>1, <1>2, <2>1 DEF LoopSound, At, AdminsToTell
<1>5. CASE UNCHANGED fga
    BY <1>1, <1>2, <1>5 DEF LoopSound, At, AdminsToTell, AdminRows
<1>6. Step(s) \/ UNCHANGED fga
    BY HandlerSteps, ReceivedRequest
    DEF MReceive, MStep, JoinReadAdmins, JoinQueueNotice, JoinAnswer, vars
<1> QED  BY <1>4, <1>5, <1>6

\* Only the steps of the loop run while it does.
LEMMA LoopAlone ==
    ASSUME LoopInv, NEW s \in Slots, MReceive(s) \/ OtherStep(s) \/ JoinReadAdminsRaises(s) \/ CreateOrgAnswer(s)
    PROVE  notify[s] = NotRead
<1>1. CASE JoinReadAdminsRaises(s)
    BY <1>1 DEF JoinReadAdminsRaises
<1>2. CASE MReceive(s)
    <2>1. req[s] = Idle
        BY <1>2 DEF MReceive, Receive, ReceiveUserRequest, ReceiveOrgRequest, ReceiveJoin, ReceiveUpdate,
           ReceiveRemove, ReceiveCreateOrg, ReceiveToolRequest, Accept
    <2> QED  BY <2>1 DEF LoopInv, LoopSound, At, Idle
<1>3. CASE OtherStep(s) \/ CreateOrgAnswer(s)
    <2>1. ~At(s, "join", "notify")
        BY <1>3
        DEF OtherStep, CreateOrgAnswer, JoinCheck, JoinLink, JoinCreateRole,
            UpdateStep, UpdateCheck, UpdateReadLink, UpdateRepairLink, UpdateReadRole, UpdateCreateRole,
            UpdateMerge, RemoveStep, RemoveCheck, RemoveReadRole, RemoveReadOrg, RemoveDelete,
            ToolStep, AuthoriseCheck, AuthoriseWrite, RevokeCheck, RevokeWrite,
            CreateOrgCheck, CreateOrgAccount, CreateOrgLink, CreateOrgRole, CreateOrgContact,
            UserCallRaises, OrgCallRaises, Undo, RunUndoAction, UndoActionRaises, UndoEnds, At
    <2> QED  BY <2>1 DEF LoopInv, LoopSound
<1> QED  BY <1>1, <1>2, <1>3

LEMMA LoopKept == IndInv /\ IdsMatch /\ Apart /\ NoticeTypeOK /\ LoopInv /\ [MNext]_mvars => LoopInv'
<1> SUFFICES ASSUME IndInv, IdsMatch, Apart, NoticeTypeOK, LoopInv, [MNext]_mvars PROVE LoopInv'  OBVIOUS
<1>1. \A s \in Slots : MReceive(s) \/ MStep(s) => OtherLoops(s)
    BY OtherLoopsSound
<1>2. CASE MCrash
    BY <1>2 DEF MCrash, LoopInv, LoopSound
<1>3. ASSUME NEW s \in Slots, MReceive(s) \/ OtherStep(s) \/ JoinReadAdminsRaises(s) \/ CreateOrgAnswer(s)
      PROVE  LoopInv'
    <2>1. UNCHANGED notify
        BY <1>3 DEF MReceive, OtherStep, JoinReadAdminsRaises, CreateOrgAnswer, noticeVars
    <2>2. OtherLoops(s)
        BY <1>1, <1>3 DEF MStep
    <2> QED  BY <1>3, <2>1, <2>2, LoopAlone, TheLoop DEF LoopSound
<1>4. ASSUME NEW s \in Slots, JoinReadAdmins(s)
      PROVE  LoopInv'
    <2>1. notify'[s] = [pc |-> "loop", todo |-> AdminsToTell(req[s].org), queued |-> {}]
        BY <1>4 DEF JoinReadAdmins, NoticeTypeOK
    <2>2. At(s, "join", "notify") /\ UNCHANGED <<req, fga>>
        BY <1>4 DEF JoinReadAdmins, vars
    <2>3. OtherLoops(s)
        BY <1>1, <1>4 DEF MStep
    <2> QED  BY <2>1, <2>2, <2>3, TheLoop DEF LoopSound, At, AdminsToTell, AdminRows
<1>5. ASSUME NEW s \in Slots, JoinQueueNotice(s)
      PROVE  LoopInv'
    <2> OtherLoops(s)
        BY <1>1, <1>5 DEF MStep
    <2>1. CASE notify' = [notify EXCEPT ![s] = NotRead]
        BY <2>1, TheLoop DEF LoopSound, NoticeTypeOK
    <2>2. ASSUME NEW admin \in notify[s].todo, admin \in Contacts, NEW queued,
                 notify' = [notify EXCEPT ![s].todo = @ \ {admin}, ![s].queued = queued],
                 UNCHANGED <<req, fga>>
          PROVE  LoopInv'
        <3>1. notify[s] \in Loop
            BY <1>5 DEF JoinQueueNotice, NoticeTypeOK
        <3>2. notify'[s].todo = notify[s].todo \ {admin}
            BY <2>2, <3>1 DEF NoticeTypeOK, Loop
        <3>3. notify[s] # NotRead
            BY <1>5 DEF JoinQueueNotice
        <3>4. /\ At(s, "join", "notify")
              /\ notify[s].todo \subseteq AdminsToTell(req[s].org)
              /\ AdminsToTell(req[s].org) \ notify[s].todo \subseteq Contacts
            BY <3>3 DEF LoopInv, LoopSound
        <3>5. At(s, "join", "notify")' /\ AdminsToTell(req[s].org)' = AdminsToTell(req[s].org)
            BY <2>2, <3>4 DEF At, AdminsToTell, AdminRows
        <3>6. LoopSound(s)'
            BY <2>2, <3>2, <3>4, <3>5 DEF LoopSound
        <3> QED  BY <3>6, TheLoop
    <2> QED  BY <1>5, <2>1, <2>2 DEF JoinQueueNotice
<1>6. ASSUME NEW s \in Slots, JoinAnswer(s)
      PROVE  LoopInv'
    <2>1. OtherLoops(s)
        BY <1>1, <1>6 DEF MStep
    <2> QED  BY <1>6, <2>1, TheLoop DEF JoinAnswer, LoopSound, NoticeTypeOK
<1>7. List \/ UNCHANGED mvars \/ (\E s \in Slots : RunTask(s)) => LoopInv'
    BY DEF List, ListingReadLinks, ListingReadRows, RunTask, SendNotice, SendRaises, mvars, vars, noticeVars,
       LoopInv, LoopSound, At, AdminsToTell, AdminRows
<1> QED  BY <1>2, <1>3, <1>4, <1>5, <1>6, <1>7 DEF MNext, MStep

\* The end of the loop is what the one step would have done.
LEMMA LoopAsOneStep ==
    ASSUME LoopInv, NEW s \in Slots, JoinQueueNotice(s) \/ JoinAnswer(s)
    PROVE  UNCHANGED vars \/ JoinNotify(s)
<1>1. /\ notify[s] # NotRead /\ At(s, "join", "notify")
      /\ notify[s].todo \subseteq AdminsToTell(req[s].org)
      /\ AdminsToTell(req[s].org) \ notify[s].todo \subseteq Contacts
    BY DEF JoinQueueNotice, JoinAnswer, LoopInv, LoopSound
<1>2. CASE JoinAnswer(s)
    <2>1. AdminsHaveContacts(req[s].org)
        BY <1>1, <1>2 DEF JoinAnswer, AdminsHaveContacts, AdminsToTell
    <2> QED  BY <1>1, <1>2, <2>1 DEF JoinAnswer, JoinNotify
<1>3. ASSUME NEW admin \in notify[s].todo, admin \notin Contacts \/ "crm_call" \in Faults, Fail(s),
             UNCHANGED <<fga, toolAuth, accounts, links>>
      PROVE  JoinNotify(s)
    <2>1. PICK r \in AdminRows(req[s].org) : r.user = admin
        BY <1>1 DEF AdminsToTell
    <2>2. ~AdminsHaveContacts(req[s].org) \/ "crm_call" \in Faults
        BY <1>3, <2>1 DEF AdminsHaveContacts
    <2> QED  BY <1>1, <1>3, <2>1, <2>2 DEF JoinNotify
<1> QED  BY <1>2, <1>3 DEF JoinQueueNotice, vars

LEMMA StepRefines == LoopInv /\ [MNext]_mvars => [Next]_vars
<1> SUFFICES ASSUME LoopInv, [MNext]_mvars PROVE [Next]_vars  OBVIOUS
<1>1. ASSUME NEW s \in Slots, MStep(s)
      PROVE  UNCHANGED vars \/ Step(s)
    BY <1>1, LoopAsOneStep
    DEF MStep, OtherStep, JoinReadAdmins, JoinReadAdminsRaises, CreateOrgAnswer, Step, UserStep, OrgStep,
        JoinStep, CreateOrgStep
<1>2. List \/ UNCHANGED mvars \/ (\E s \in Slots : RunTask(s)) => UNCHANGED vars
    BY DEF List, ListingReadLinks, ListingReadRows, RunTask, SendNotice, SendRaises, mvars
<1> QED  BY <1>1, <1>2 DEF MNext, MCrash, MReceive, Next

\* While requests are apart the calls of the loop, whichever raises, are as
\* good as one step, and neither the emails nor the listing act on the two
\* stores.
THEOREM MembershipImplementsRydApi == MSpec /\ []Apart => ImplementsRydApi
<1>1. MInit => Init /\ IdsMatch /\ NoticeTypeOK /\ LoopInv
    BY InitIds DEF MInit, NoticeTypeOK, LoopInv, LoopSound
<1> QED
    BY <1>1, RydApiInvariant, IdsKept, NoticeTypesKept, LoopKept, StepRefines, PTL
    DEF MSpec, ImplementsRydApi, Spec
=============================================================================
