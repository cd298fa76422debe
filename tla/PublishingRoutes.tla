--------------------------- MODULE PublishingRoutes --------------------------
(***************************************************************************)
(* routers/datasets.py, the three handlers that write, and from            *)
(* routers/reporting_orgs.py the update of an organisation and its         *)
(* deletion, which takes its datasets with it.  As in Requests, a slot is  *)
(* a thread that runs one handler, one call per step, and a handler        *)
(* decides on the snapshot of its user's roles taken at authentication.    *)
(* A request for a dataset names no organisation: the dataset's owner is   *)
(* read first, so the snapshot is kept for every organisation.             *)
(***************************************************************************)
EXTENDS FgaValidator, CrmDatasets

CONSTANTS
    Slots,          \* threads that serve requests
    Ops,            \* the endpoints that are called
    Faults          \* as in Requests

FaultKinds == {"crm_call", "crm_reply", "db_call", "crash"}

ASSUME PublishingAssumption == Faults \subseteq FaultKinds

VARIABLE job        \* job[s]: what slot s is doing

NoOrg == "no_org"
NoDataset == "no_dataset"
NoName == "no_name"

Labels == {"check", "read_name", "write", "delist", "delete_roles", "list", "delete", "undo"}

Operations == {"create_dataset", "update_dataset", "delete_dataset", "update_org",
               "delete_org"}

Job == [pc: Labels,
        op: Operations,
        authz: [Orgs -> Authorities],       \* the caller's, when they authenticated
        org: Orgs \cup {NoOrg},             \* the organisation concerned, once known
        dataset: DatasetIds \cup {NoDataset},
        name: DatasetNames \cup {NoName},
        visibility: Visibilities \cup {"NONE"},
        found: SUBSET Datasets,             \* the record read and kept
        flag: {"0", "1"},                   \* iati_registry_approved as it was read
        pending: SUBSET DatasetIds,         \* datasets still to delete
        undo: SUBSET {"approve"}]           \* the undo_actions list

Idle == [pc |-> "idle"]

JobsTypeOK == job \in [Slots -> Job \cup {Idle}]

-----------------------------------------------------------------------------
(* Arrival, progress, answer.                                              *)

Arrival(op, u, c) ==
    [pc |-> "check", op |-> op, authz |-> [o \in Orgs |-> RoleForOrg(u, c, o)],
     org |-> NoOrg, dataset |-> NoDataset, name |-> NoName, visibility |-> "NONE",
     found |-> {}, flag |-> "0", pending |-> {}, undo |-> {}]

Accept(s, u, r) ==
    /\ r.op \in Ops
    /\ ~PermissionsConflict(u)
    /\ job' = [job EXCEPT ![s] = r]
    /\ UNCHANGED <<fgaVars, crmVars>>

At(s, op, label) == job[s].pc = label /\ job[s].op = op

Goto(s, label) == job' = [job EXCEPT ![s].pc = label]

Answer(s) == job' = [job EXCEPT ![s] = Idle]

\* Whether the caller held a permission for an organisation.
Granted(r, o, permission) == Can(r.authz[o], permission)

\* An id that no record has, nor any a handler still speaks of.
FreshDatasetIds ==
    DatasetIds \ ({d.id : d \in datasets}
                  \cup {job[s].dataset : s \in {t \in Slots : job[t] # Idle}}
                  \cup UNION {job[s].pending : s \in {t \in Slots : job[t] # Idle}})

-----------------------------------------------------------------------------
(* POST /datasets: create_dataset.                                         *)

\* Bound of the model: there is an id for the record.
ReceiveCreateDataset(s) ==
    /\ job[s] = Idle
    /\ \E u \in Users, c \in Clients, o \in Orgs, n \in DatasetNames, v \in Visibilities,
          i \in FreshDatasetIds :
        Accept(s, u, [Arrival("create_dataset", u, c)
                        EXCEPT !.org = o, !.dataset = i, !.name = n, !.visibility = v])

\* Mutant: without the test that the short name is free.
MayCreateAnyName(r) ==
    /\ Granted(r, r.org, "create-dataset")
    /\ r.org \in Registered

MayCreateDataset(r) ==
    /\ Granted(r, r.org, "create-dataset")
    /\ r.org \in Registered
    /\ ~NameInUse(r.name)

CreateDatasetCheck(s) ==
    /\ At(s, "create_dataset", "check")
    /\ \/ MayCreateDataset(job[s]) /\ Goto(s, "write")
       \/ ~MayCreateDataset(job[s]) /\ Answer(s)
    /\ UNCHANGED <<fgaVars, crmVars>>

\* Nothing is undone: a reply that is lost makes no difference to the records.
CreateDatasetWrite(s) ==
    /\ At(s, "create_dataset", "write")
    /\ CreateDataset([id |-> job[s].dataset, owner |-> job[s].org,
                      name |-> job[s].name, visibility |-> job[s].visibility])
    /\ Answer(s)
    /\ UNCHANGED fgaVars

-----------------------------------------------------------------------------
(* PATCH /datasets/{dataset_id}: update_dataset.                           *)

ReceiveUpdateDataset(s) ==
    /\ job[s] = Idle
    /\ \E u \in Users, c \in Clients, i \in DatasetIds, n \in DatasetNames,
          v \in Visibilities \cup {"NONE"} :
        Accept(s, u, [Arrival("update_dataset", u, c)
                        EXCEPT !.dataset = i, !.name = n, !.visibility = v])

\* Mutant: whoever may update the dataset may set its visibility.
MaySetVisibilityAsUpdater(r, d) == Granted(r, d.owner, "update-dataset")

\* Compared with the visibility of the record that was read.
MaySetVisibility(r, d) ==
    \/ Granted(r, d.owner, "update-dataset-visibility")
    \/ r.visibility = "NONE"
    \/ r.visibility = d.visibility

\* Mutant: a member with any permission may update.
MayUpdateAsReader(r, d) ==
    /\ Granted(r, d.owner, "read-dataset") \/ r.authz[d.owner] = "CONTRIBUTOR_PENDING"
    /\ MaySetVisibility(r, d)

MayUpdateDataset(r, d) ==
    /\ Granted(r, d.owner, "update-dataset")
    /\ MaySetVisibility(r, d)

\* The short name is looked for only if it is a new one.
UpdateDatasetCheck(s) ==
    /\ At(s, "update_dataset", "check")
    /\ \/ \E d \in WithId(job[s].dataset) :
            /\ MayUpdateDataset(job[s], d)
            /\ job' = [job EXCEPT ![s].pc = IF d.name = job[s].name THEN "write" ELSE "read_name",
                                  ![s].org = d.owner,
                                  ![s].found = {d}]
       \/ /\ \A d \in WithId(job[s].dataset) : ~MayUpdateDataset(job[s], d)
          /\ Answer(s)
    /\ UNCHANGED <<fgaVars, crmVars>>

UpdateDatasetReadName(s) ==
    /\ At(s, "update_dataset", "read_name")
    /\ \/ ~NameInUse(job[s].name) /\ Goto(s, "write")
       \/ NameInUse(job[s].name) /\ Answer(s)
    /\ UNCHANGED <<fgaVars, crmVars>>

\* A record deleted since it was read stays deleted; the call raises.
UpdateDatasetWrite(s) ==
    /\ At(s, "update_dataset", "write")
    /\ UpdateDataset(job[s].dataset, job[s].name, job[s].visibility)
    /\ Answer(s)
    /\ UNCHANGED fgaVars

-----------------------------------------------------------------------------
(* DELETE /datasets/{dataset_id}: delete_dataset.                          *)

ReceiveDeleteDataset(s) ==
    /\ job[s] = Idle
    /\ \E u \in Users, c \in Clients, i \in DatasetIds :
        Accept(s, u, [Arrival("delete_dataset", u, c) EXCEPT !.dataset = i])

DeleteDatasetCheck(s) ==
    /\ At(s, "delete_dataset", "check")
    /\ \/ \E d \in WithId(job[s].dataset) :
            /\ Granted(job[s], d.owner, "delete-dataset")
            /\ job' = [job EXCEPT ![s].pc = "write", ![s].org = d.owner]
       \/ /\ \A d \in WithId(job[s].dataset) : ~Granted(job[s], d.owner, "delete-dataset")
          /\ Answer(s)
    /\ UNCHANGED <<fgaVars, crmVars>>

DeleteDatasetWrite(s) ==
    /\ At(s, "delete_dataset", "write")
    /\ DeleteDataset(job[s].dataset)
    /\ Answer(s)
    /\ UNCHANGED fgaVars

-----------------------------------------------------------------------------
(* PATCH /reporting-orgs/{org_id}: update_reporting_org.                   *)

ReceiveUpdateOrg(s) ==
    /\ job[s] = Idle
    /\ \E u \in Users, c \in Clients, o \in Orgs :
        Accept(s, u, [Arrival("update_org", u, c) EXCEPT !.org = o])

MayUpdateOrg(r) == Granted(r, r.org, "update-org") /\ r.org \in Registered

UpdateOrgCheck(s) ==
    /\ At(s, "update_org", "check")
    /\ \/ MayUpdateOrg(job[s]) /\ Goto(s, "write")
       \/ ~MayUpdateOrg(job[s]) /\ Answer(s)
    /\ UNCHANGED <<fgaVars, crmVars>>

\* Answers an error after the write too, if the reply does not convert.
UpdateOrgWrite(s) ==
    /\ At(s, "update_org", "write")
    /\ UpdateOrg(job[s].org)
    /\ Answer(s)
    /\ UNCHANGED fgaVars

-----------------------------------------------------------------------------
(* DELETE /reporting-orgs/{org_id}: delete_reporting_org.                  *)

ReceiveDeleteOrg(s) ==
    /\ job[s] = Idle
    /\ \E u \in Users, c \in Clients, o \in Orgs :
        Accept(s, u, [Arrival("delete_org", u, c) EXCEPT !.org = o])

DeleteOrgCheck(s) ==
    /\ At(s, "delete_org", "check")
    /\ \/ /\ Granted(job[s], job[s].org, "delete-org")
          /\ job[s].org \in Registered
          /\ job' = [job EXCEPT ![s].pc = "delist", ![s].flag = FlagOf(approved, job[s].org)]
       \/ /\ ~Granted(job[s], job[s].org, "delete-org") \/ job[s].org \notin Registered
          /\ Answer(s)
    /\ UNCHANGED <<fgaVars, crmVars>>

Fail(s) == Goto(s, "undo")

\* The value read "is True": no answer of the CRM, which are strings, is.
WasApproved(flag) == flag \notin {"0", "1"}

DeleteOrgDelist(s) ==
    /\ At(s, "delete_org", "delist")
    /\ \/ /\ Delist(job[s].org)
          /\ \/ job' = [job EXCEPT ![s].pc = "delete_roles",
                                   ![s].undo = IF WasApproved(job[s].flag) THEN {"approve"} ELSE {}]
             \/ "crm_reply" \in Faults /\ Fail(s)
       \/ "crm_call" \in Faults /\ Fail(s) /\ UNCHANGED crmVars
    /\ UNCHANGED fgaVars

DeleteOrgRoles(s) ==
    /\ At(s, "delete_org", "delete_roles")
    /\ \/ DeleteRolesOf(job[s].org) /\ Goto(s, "list")
       \/ "db_call" \in Faults /\ Fail(s) /\ UNCHANGED fgaVars
    /\ UNCHANGED crmVars

DeleteOrgList(s) ==
    /\ At(s, "delete_org", "list")
    /\ \/ \E page \in Pages(job[s].org) :
            job' = [job EXCEPT ![s].pc = "delete", ![s].pending = page]
       \/ "crm_call" \in Faults /\ Fail(s)
    /\ UNCHANGED <<fgaVars, crmVars>>

\* The loop over the page; deleting a record that has gone may raise.
DeleteOrgDataset(s) ==
    /\ At(s, "delete_org", "delete")
    /\ \E i \in job[s].pending :
        \/ /\ DeleteDataset(i)
           /\ \/ job' = [job EXCEPT ![s].pending = @ \ {i}]
              \/ ("crm_reply" \in Faults \/ WithId(i) = {}) /\ Fail(s)
        \/ "crm_call" \in Faults /\ Fail(s) /\ UNCHANGED crmVars
    /\ UNCHANGED fgaVars

DeleteOrgEnds(s) ==
    /\ At(s, "delete_org", "delete")
    /\ job[s].pending = {}
    /\ Answer(s)
    /\ UNCHANGED <<fgaVars, crmVars>>

\* perform_undo_actions on a list of at most one; one that raises ends it too.
DeleteOrgUndo(s) ==
    /\ At(s, "delete_org", "undo")
    /\ \/ job[s].undo # {} /\ Approve(job[s].org)
       \/ (job[s].undo = {} \/ "crm_call" \in Faults) /\ UNCHANGED crmVars
    /\ Answer(s)
    /\ UNCHANGED fgaVars

-----------------------------------------------------------------------------

\* A call outside any try block, or one whose exception is answered at once.
CallRaises(s) ==
    /\ "crm_call" \in Faults
    /\ \/ \E op \in Operations : At(s, op, "check")
       \/ \E label \in {"read_name", "write"} : job[s].pc = label
    /\ Answer(s)
    /\ UNCHANGED <<fgaVars, crmVars>>

Receive(s) ==
    \/ ReceiveCreateDataset(s) \/ ReceiveUpdateDataset(s)
    \/ ReceiveDeleteDataset(s) \/ ReceiveUpdateOrg(s) \/ ReceiveDeleteOrg(s)

DatasetStep(s) ==
    \/ CreateDatasetCheck(s) \/ CreateDatasetWrite(s)
    \/ UpdateDatasetCheck(s) \/ UpdateDatasetReadName(s) \/ UpdateDatasetWrite(s)
    \/ DeleteDatasetCheck(s) \/ DeleteDatasetWrite(s)

DeleteOrgStep(s) ==
    \/ DeleteOrgCheck(s) \/ DeleteOrgDelist(s) \/ DeleteOrgRoles(s) \/ DeleteOrgList(s)
    \/ DeleteOrgDataset(s) \/ DeleteOrgEnds(s) \/ DeleteOrgUndo(s)

UpdateOrgStep(s) == UpdateOrgCheck(s) \/ UpdateOrgWrite(s)

Step(s) == DatasetStep(s) \/ UpdateOrgStep(s) \/ DeleteOrgStep(s) \/ CallRaises(s)

\* One write of a role by another request, see UserRoutes and OrgRoutes: users
\* come, go and change their roles while handlers here run.  As the tables keep
\* nothing apart, and creators are not looked at, a second row for a user and a
\* row for a tool's admin are among them.
RoleChange ==
    /\ \E u \in Users \ SuperAdmins, o \in Orgs, role \in DirectRoles :
        \/ \E i \in RowIds \ {r.id : r \in fga} : CreateRow(i, u, o, role)
        \/ \E row \in RowsFor(u, o) : row.role # role /\ MergeRow([row EXCEPT !.role = role])
        \/ RowsFor(u, o) # {} /\ DeleteRole(u, o)
    /\ UNCHANGED <<crmVars, job>>

Crash ==
    /\ "crash" \in Faults
    /\ \E s \in Slots : job[s] # Idle
    /\ job' = [s \in Slots |-> Idle]
    /\ UNCHANGED <<fgaVars, crmVars>>
=============================================================================
