------------------------------ MODULE Publishing -----------------------------
(***************************************************************************)
(* The dataset routes and the deletion of organisations running in the     *)
(* slots, over the CRM's records and a table of roles that other requests  *)
(* change.  Tool authorisations stay as they are.                          *)
(***************************************************************************)
EXTENDS PublishingRoutes

CONSTANT Authorised     \* pairs <<tool, organisation>>

ASSUME AuthorisedAssumption == Authorised \subseteq Tools \X Orgs

Init ==
    /\ fga = {}
    /\ toolAuth = [t \in Tools |-> [o \in Orgs |-> IF <<t, o>> \in Authorised THEN 1 ELSE 0]]
    /\ approved \in SUBSET Registered
    /\ discoverable = Registered
    /\ datasets = {}
    /\ job = [s \in Slots |-> Idle]

vars == <<fga, toolAuth, approved, discoverable, datasets, job>>

Next == RoleChange \/ Crash \/ \E s \in Slots : Receive(s) \/ Step(s)

Spec == Init /\ [][Next]_vars

-----------------------------------------------------------------------------
(* What some of the properties need of the callers.  Nothing in the code   *)
(* sees to any of it.                                                      *)

\* About to write a short name that was found free.
Naming(s) == job[s].pc = "write" /\ job[s].op \in {"create_dataset", "update_dataset"}

\* No two requests are about to write one short name.
NamesApart ==
    \A s, t \in Slots : s # t /\ Naming(s) /\ Naming(t) => job[s].name # job[t].name

\* Between reading a dataset and writing it.
Updating(s) == job[s] # Idle /\ job[s].op = "update_dataset" /\ job[s].pc # "check"

\* No two requests update one dataset.
UpdatesApart ==
    \A s, t \in Slots : s # t /\ Updating(s) /\ Updating(t) => job[s].dataset # job[t].dataset

\* Nobody is about to make a dataset for an organisation whose datasets have
\* been listed for its deletion.
DeletionsApart ==
    \A s, t \in Slots :
        At(s, "create_dataset", "write") /\ At(t, "delete_org", "delete") =>
            job[s].org # job[t].org

\* No organisation has more datasets than one page holds.
OnePage == \A o \in Orgs : ~(Cardinality(OwnedBy(o)) > PageSize)

\* The callers oblige.
ApartSpec == Init /\ [][Next /\ NamesApart' /\ UpdatesApart' /\ DeletionsApart']_vars

-----------------------------------------------------------------------------

\* TYPE INVARIANT.  Records, roles and handlers keep their types.
TypeOK == FgaTypeOK /\ CrmTypeOK /\ JobsTypeOK

Owners(i) == {d.owner : d \in WithId(i)}

\* The permission that each operation needs for the owner of a dataset.
Needed(op) ==
    CASE op = "create_dataset" -> "create-dataset"
      [] op = "update_dataset" -> "update-dataset"
      [] op = "delete_dataset" -> "delete-dataset"
      [] op = "update_org"     -> "update-org"
      [] op = "delete_org"     -> "delete-org"

\* The next call of s acts on dataset i.
Writes(s, i) ==
    \/ /\ job[s].pc = "write"
       /\ job[s].op \in {"create_dataset", "update_dataset", "delete_dataset"}
       /\ job[s].dataset = i
    \/ At(s, "delete_org", "delete") /\ i \in job[s].pending

\* ACTION PROPERTY.  A dataset is made, changed or deleted only by the write of
\* a request about that very dataset whose user held, when they authenticated,
\* the permission the operation needs for the organisation that owns it, though
\* requests for a dataset name no organisation (datasets.py:185-209, 311-345).
DatasetsByAuthority ==
    [][\A i \in DatasetIds :
        WithId(i)' # WithId(i) =>
            \E s \in Slots :
                /\ Writes(s, i)
                /\ \A o \in Owners(i) \cup Owners(i)' : Granted(job[s], o, Needed(job[s].op))]_vars

\* ACTION PROPERTY.  The visibility of a dataset changes only by the write of
\* a request whose user held update-dataset-visibility for its owner.
VisibilityByAuthority ==
    [][\A d \in datasets, e \in datasets' :
        d.id = e.id /\ d.visibility # e.visibility =>
            \E s \in Slots :
                /\ At(s, "update_dataset", "write")
                /\ job[s].dataset = d.id
                /\ Granted(job[s], d.owner, "update-dataset-visibility")]_vars

\* SAFETY.  No two datasets have the same short name (datasets.py:82, 253).
DatasetNamesUnique == \A d, e \in datasets : d.name = e.name => d = e

\* ACTION PROPERTY.  When an organisation has been deleted it has no dataset
\* left, and can not be found any more (reporting_orgs.py:424, 439).
DeletionTakesDatasets ==
    [][\A s \in Slots :
        At(s, "delete_org", "delete") /\ job[s].pending = {} /\ job'[s] = Idle =>
            /\ job[s].org \notin discoverable'
            /\ \A d \in datasets' : d.owner # job[s].org]_vars

\* ACTION PROPERTY.  The flag iati_registry_approved is back as it was when the
\* deletion of an organisation has failed and its undo actions have run.
FailedDeletionRestoresApproval ==
    [][\A s \in Slots :
        At(s, "delete_org", "undo") /\ job'[s] = Idle /\ job[s].flag = "1" =>
            job[s].org \in approved']_vars

-----------------------------------------------------------------------------
(* The abstract catalogue.                                                 *)

Promised == INSTANCE Catalogue WITH
    Sessions <- Slots,
    Callers <- Users \X Clients,
    Ids <- DatasetIds,
    Names <- DatasetNames,
    catalogue <- datasets,
    listed <- discoverable,
    rights <- [x \in Users \X Clients |-> [o \in Orgs |-> RoleForOrg(x[1], x[2], o)]],
    session <- [s \in Slots |->
                    IF job[s] = Idle THEN [o \in Orgs |-> "NONE"] ELSE job[s].authz]

\* REFINEMENT.  While the names being written and the updates are apart, the
\* handlers implement the catalogue: what they check in one call and write in
\* a later one, if ever, they may as well have checked when they wrote.
ImplementsCatalogue == Promised!CatalogueSpec
=============================================================================
