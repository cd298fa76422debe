------------------------------ MODULE Membership -----------------------------
(***************************************************************************)
(* What goes on around the roles: the emails that tell an organisation's   *)
(* admins of a request to join, and IATI Support of a new organisation     *)
(* (users.py, reporting_orgs.py, background_tasks.py), and                 *)
(* GET /reporting-orgs/{org_id}/users, which compares the two stores.      *)
(*                                                                         *)
(* JoinNotify of RydApi is one step.  Here it is the loop of the code, one *)
(* call for each admin, and the emails are tasks that run one by one after *)
(* the response has been sent; a response of an error carries none.        *)
(***************************************************************************)
EXTENDS RydApi

Support == "iati_support"

\* Tasks of send_email_async: who is written to, about whom, for which organisation.
Notices == [to: Users \cup {Support}, about: Users, org: Orgs]

VARIABLES
    notify,         \* notify[s]: the loop over the admins in slot s
    mail,           \* mail[s]: tasks of the last response of slot s still to run
    owed,           \* owed[s]: the notices of slot s that are to be tried (history)
    listing,        \* a request to list the users of an organisation
    undone          \* a handler has begun to undo (history)

noticeVars == <<notify, mail, owed>>
mvars == <<vars, notify, mail, owed, listing, undone>>

NotRead == [pc |-> "not_read"]
Loop == [pc: {"loop"}, todo: SUBSET Users, queued: SUBSET Notices]

\* A listing between its two reads, and one that is answered, with whether the
\* organisation got a direct role or a tool between the reads.
Reading == [pc: {"reading"}, org: Orgs, superadmin: BOOLEAN, linked: SUBSET Users, given: BOOLEAN]
Listed == [pc: {"listed", "conflict", "missing"}, given: BOOLEAN]

MembershipTypeOK ==
    /\ TypeOK
    /\ notify \in [Slots -> Loop \cup {NotRead}]
    /\ mail \in [Slots -> SUBSET Notices]
    /\ owed \in [Slots -> SUBSET Notices]
    /\ listing \in Reading \cup Listed
    /\ undone \in BOOLEAN

-----------------------------------------------------------------------------
(* The end of add_user_to_reporting_org (users.py:185-236).                *)

\* Mutant: every member is told, the one who waits included.
MembersToTell(o) == {r.user : r \in RowsOfOrg(o)}

\* Mutant: the association in place of its user.
AssociationsToTell(o) == AdminRows(o)

AdminsToTell(o) == {r.user : r \in AdminRows(o)}

Notice(s, to) == [to |-> to, about |-> req[s].target, org |-> req[s].org]

JoinReadAdmins(s) ==
    /\ At(s, "join", "notify")
    /\ notify[s] = NotRead
    /\ LET admins == AdminsToTell(req[s].org) IN
        /\ notify' = [notify EXCEPT ![s] = [pc |-> "loop", todo |-> admins, queued |-> {}]]
        /\ owed' = [owed EXCEPT ![s] = @ \cup {Notice(s, admin) : admin \in admins}]
    /\ UNCHANGED <<vars, mail>>

\* The read raises, as the one step of RydApi can.
JoinReadAdminsRaises(s) ==
    /\ notify[s] = NotRead
    /\ JoinNotify(s)
    /\ req'[s] # Idle
    /\ UNCHANGED noticeVars

\* Mutant: each email is sent as soon as it is made.
SentAtOnce(s, notices) == mail' = [mail EXCEPT ![s] = notices]

\* enqueue_task: the task joins those of the response that is being made.
Enqueued(s, notices) == UNCHANGED mail

JoinQueueNotice(s) ==
    /\ At(s, "join", "notify")
    /\ notify[s] # NotRead
    /\ \E admin \in notify[s].todo :
        LET queued == notify[s].queued \cup {Notice(s, admin)} IN
        \/ /\ admin \in Contacts
           /\ notify' = [notify EXCEPT ![s].todo = @ \ {admin}, ![s].queued = queued]
           /\ Enqueued(s, queued)
           /\ UNCHANGED <<req, owed>>
        \/ /\ admin \notin Contacts \/ "crm_call" \in Faults
           /\ Fail(s)
           /\ notify' = [notify EXCEPT ![s] = NotRead]
           /\ owed' = [owed EXCEPT ![s] = {}]
           /\ UNCHANGED mail
    /\ UNCHANGED <<fga, toolAuth, accounts, links>>

JoinAnswer(s) ==
    /\ At(s, "join", "notify")
    /\ notify[s] # NotRead
    /\ notify[s].todo = {}
    /\ Answer(s)
    /\ mail' = [mail EXCEPT ![s] = notify[s].queued]
    /\ notify' = [notify EXCEPT ![s] = NotRead]
    /\ UNCHANGED <<fga, toolAuth, accounts, links, owed>>

\* The last call of create_reporting_org, and the email to IATI Support.
CreateOrgAnswer(s) ==
    /\ CreateOrgContact(s)
    /\ LET notices == IF req'[s] = Idle THEN {Notice(s, Support)} ELSE {} IN
        /\ mail' = [mail EXCEPT ![s] = notices]
        /\ owed' = [owed EXCEPT ![s] = @ \cup notices]
    /\ UNCHANGED notify

-----------------------------------------------------------------------------
(* background_tasks.py and email_sender.py: the tasks of a response.       *)

\* Mutant: without background_task_handler an error ends the whole list.
NoneLeft(notices, notice) == {}

\* background_task_handler swallows the exception.
LeftAfterError(notices, notice) == notices \ {notice}

\* The service takes the email, or the address is invalid and it is skipped.
SendNotice(s) ==
    /\ \E notice \in mail[s] :
        /\ mail' = [mail EXCEPT ![s] = @ \ {notice}]
        /\ owed' = [owed EXCEPT ![s] = @ \ {notice}]
    /\ UNCHANGED <<vars, notify>>

SendRaises(s) ==
    /\ \E notice \in mail[s] :
        /\ mail' = [mail EXCEPT ![s] = LeftAfterError(@, notice)]
        /\ owed' = [owed EXCEPT ![s] = @ \ {notice}]
    /\ UNCHANGED <<vars, notify>>

-----------------------------------------------------------------------------
(* GET /reporting-orgs/{org_id}/users: get_reporting_org_users.  First the *)
(* CRM is asked, then the database.                                        *)

\* Mutant: one page of relationships, of at most two.
FirstPage(o) ==
    LET all == {u \in Users : Linked(u, o)} IN
    IF Cardinality(all) <= 2 THEN all ELSE CHOOSE page \in SUBSET all : Cardinality(page) = 2

UsersLinked(o) == {u \in Users : Linked(u, o)}

ListingReadLinks ==
    /\ listing.pc # "reading"
    /\ \E u \in Users, c \in Clients, o \in Orgs :
        /\ ~PermissionsConflict(u)
        /\ Can(RoleForOrg(u, c, o), "read-org")
        /\ AccountExists(o)
        /\ listing' = [pc |-> "reading", org |-> o, superadmin |-> IsSuperAdmin(u),
                        linked |-> UsersLinked(o), given |-> FALSE]
    /\ UNCHANGED <<vars, noticeVars, undone>>

\* Users without a name to list: members that the CRM did not answer with,
\* and for a superadmin, who sees them, provider admins without a record.
Nameless(o) ==
    {u \in Users \ listing.linked :
        \/ RowsFor(u, o) # {}
        \/ listing.superadmin /\ ProviderTools(u, o) # {} /\ u \notin Contacts}

ListingReadRows ==
    /\ listing.pc = "reading"
    /\ LET o == listing.org IN
        listing' = [pc |-> IF AssociationsConflict(o) THEN "conflict"
                           ELSE IF Nameless(o) # {} THEN "missing" ELSE "listed",
                    given |-> listing.given]
    /\ UNCHANGED <<vars, noticeVars, undone>>

List == ListingReadLinks \/ ListingReadRows

-----------------------------------------------------------------------------

\* Bound of the model: the tasks of a response run before its slot is used again.
MReceive(s) == mail[s] = {} /\ Receive(s) /\ UNCHANGED noticeVars

OtherStep(s) ==
    /\ \/ JoinCheck(s) \/ JoinLink(s) \/ JoinCreateRole(s)
       \/ UpdateStep(s) \/ RemoveStep(s) \/ UserCallRaises(s)
       \/ CreateOrgCheck(s) \/ CreateOrgAccount(s) \/ CreateOrgLink(s) \/ CreateOrgRole(s)
       \/ ToolStep(s) \/ OrgCallRaises(s) \/ Undo(s)
    /\ UNCHANGED noticeVars

MStep(s) ==
    \/ OtherStep(s) \/ JoinReadAdmins(s) \/ JoinReadAdminsRaises(s)
    \/ JoinQueueNotice(s) \/ JoinAnswer(s) \/ CreateOrgAnswer(s)

RunTask(s) == SendNotice(s) \/ SendRaises(s)

\* With the process go the tasks of the responses it has sent.
MCrash ==
    /\ Crash
    /\ notify' = [s \in Slots |-> NotRead]
    /\ mail' = [s \in Slots |-> {}]
    /\ owed' = [s \in Slots |-> {}]

\* The organisation gets a direct role or a tool.
Given(o) ==
    \/ \E r \in fga' \ fga : r.org = o
    \/ \E t \in Tools : toolAuth'[t][o] > toolAuth[t][o]

\* What a step of the rest of the API adds to the history.
Observed ==
    /\ listing' = IF listing.pc = "reading"
                  THEN [listing EXCEPT !.given = @ \/ Given(listing.org)] ELSE listing
    /\ undone' = (undone \/ \E s \in Slots : req'[s].pc = "undo")

MInit ==
    /\ Init
    /\ notify = [s \in Slots |-> NotRead]
    /\ mail = [s \in Slots |-> {}]
    /\ owed = [s \in Slots |-> {}]
    /\ listing = [pc |-> "listed", given |-> FALSE]
    /\ undone = FALSE

MNext ==
    \/ MCrash /\ Observed
    \/ \E s \in Slots : (MReceive(s) \/ MStep(s) \/ RunTask(s)) /\ Observed
    \/ List

MSpec == MInit /\ [][MNext]_mvars

\* Starlette runs the tasks of a response one after the other once it is sent.
MFairSpec ==
    /\ MSpec
    /\ \A s \in Slots : WF_mvars(MStep(s) /\ Observed) /\ WF_mvars(RunTask(s) /\ Observed)

-----------------------------------------------------------------------------

\* REFINEMENT.  While requests are apart, the loop over the admins with its
\* calls one by one is as good as the one step JoinNotify of RydApi, whichever
\* call raises, and neither the emails nor the listing act on the two stores
\* (users.py:185-248).
ImplementsRydApi == Spec

\* SAFETY.  A join that fails, at whichever admin, tells no admin of it,
\* those whose email was queued before included (users.py:196-213).
FailedJoinTellsNobody == \A s \in Slots : At(s, "join", "undo") => mail[s] = {}

\* LIVENESS.  When a join has read the admins of the organisation, each of
\* them gets the email tried, or the join answers an error and none does: an
\* error in sending one does not cost the others theirs.
EveryAdminTold == \A s \in Slots : owed[s] # {} ~> owed[s] = {}

\* SAFETY.  The users of an organisation can be listed: the answer that one of
\* them is missing in the CRM is given only when somebody got a role, or a tool
\* was authorised, between the two reads, or the undo actions of a failed
\* request took a relationship away and left the role (reporting_orgs.py:483-542).
\* A superadmin also sees tool admins, so these need a record in the CRM.
ListingFailsOnlyOnJoins ==
    listing.pc = "missing" => listing.given \/ undone
=============================================================================
