----------------------------- MODULE CrmDatasets -----------------------------
(***************************************************************************)
(* The records of the CRM that publishing is about, as datasets.py and the *)
(* deletion of an organisation use them through libsuitecrm: the datasets, *)
(* and two flags of the organisations.  Every operator is one HTTP call.   *)
(***************************************************************************)
EXTENDS RegistryIds, Naturals, FiniteSets

CONSTANTS
    Registered,     \* the organisations with an Accounts record; nothing here
                    \* makes or deletes one, a deleted organisation keeps its own
    DatasetIds,     \* ids that records of IATI_Datasets can have
    DatasetNames,   \* short names of datasets
    PageSize        \* records in one page of an answer; 1500 in the code

ASSUME CrmDatasetsAssumption == Registered \subseteq Orgs

VARIABLES
    approved,       \* the organisations with iati_registry_approved set
    discoverable,   \* the organisations with iati_registry_discoverable set
    datasets        \* the records of IATI_Datasets

crmVars == <<approved, discoverable, datasets>>

Visibilities == {"public", "private"}

Datasets == [id: DatasetIds, owner: Orgs, name: DatasetNames, visibility: Visibilities]

CrmTypeOK ==
    /\ approved \subseteq Registered
    /\ discoverable \subseteq Registered
    /\ datasets \subseteq Datasets

-----------------------------------------------------------------------------
(* Reads.                                                                  *)

WithId(i) == {d \in datasets : d.id = i}

NameInUse(n) == \E d \in datasets : d.name = n

OwnedBy(o) == {d.id : d \in {e \in datasets : e.owner = o}}

\* Mutant: a page of one record.
PagesOfOne(o) == IF OwnedBy(o) = {} THEN {{}} ELSE {{i} : i \in OwnedBy(o)}

\* The first page of the ids of an organisation's datasets, in any order.
Pages(o) ==
    LET owned == OwnedBy(o)
    IN  {page \in SUBSET owned :
            \/ page = owned /\ Cardinality(owned) <= PageSize
            \/ Cardinality(owned) > PageSize /\ Cardinality(page) = PageSize}

\* Flags are answered as strings.
FlagOf(set, o) == IF o \in set THEN "1" ELSE "0"

-----------------------------------------------------------------------------
(* Writes.                                                                 *)

CreateDataset(d) ==
    /\ datasets' = datasets \cup {d}
    /\ UNCHANGED <<approved, discoverable>>

\* Mutant: a visibility that the update does not name is written all the same.
UpdateWholeDataset(i, name, visibility) ==
    /\ datasets' = {IF d.id # i THEN d
                    ELSE [d EXCEPT !.name = name, !.visibility = visibility] : d \in datasets}
    /\ UNCHANGED <<approved, discoverable>>

\* The fields of an update are written, no matter who wrote them since; a
\* visibility of NONE is one the update leaves alone.
UpdateDataset(i, name, visibility) ==
    /\ datasets' =
        {IF d.id # i THEN d
         ELSE IF visibility = "NONE" THEN [d EXCEPT !.name = name]
         ELSE [d EXCEPT !.name = name, !.visibility = visibility] : d \in datasets}
    /\ UNCHANGED <<approved, discoverable>>

DeleteDataset(i) ==
    /\ datasets' = {d \in datasets : d.id # i}
    /\ UNCHANGED <<approved, discoverable>>

\* Writes every descriptive field, also those the request leaves out, and no flag.
UpdateOrg(o) == UNCHANGED crmVars

\* Neither approved nor discoverable any more.
Delist(o) ==
    /\ approved' = approved \ {o}
    /\ discoverable' = discoverable \ {o}
    /\ UNCHANGED datasets

Approve(o) ==
    /\ approved' = approved \cup {o}
    /\ UNCHANGED <<discoverable, datasets>>
=============================================================================
