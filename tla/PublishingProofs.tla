--------------------------- MODULE PublishingProofs --------------------------
(***************************************************************************)
(* Theorems about Publishing that hold for any users, organisations,       *)
(* datasets, slots, endpoints, faults and page size.                       *)
(*                                                                         *)
(* IndInv is the inductive invariant.  A request for a dataset names no    *)
(* organisation, so what has to be kept is that the organisation whose     *)
(* permission was tested is still the owner of every dataset that the      *)
(* handler is about to write: datasets never change owner, and the id of   *)
(* one being created is not one that another handler has read.             *)
(***************************************************************************)
EXTENDS Publishing, FgaProofs

\* The handler acts on the record with this id, past its check.
ActsOn(r, i) ==
    /\ r # Idle
    /\ \/ r.op = "create_dataset" /\ r.dataset = i
       \/ r.op \in {"update_dataset", "delete_dataset"} /\ r.pc # "check" /\ r.dataset = i
       \/ i \in r.pending

\* An id that s may create a record with.
Reserved(s, i) == WithId(i) = {} /\ \A t \in Slots \ {s} : ~ActsOn(job[t], i)

\* What the endpoint puts into a request.
SoundFields(r) ==
    /\ \/ r.org \in Orgs
       \/ r.op \in {"update_dataset", "delete_dataset"} /\ r.pc = "check"
    /\ r.op = "create_dataset" =>
        r.dataset \in DatasetIds /\ r.name \in DatasetNames /\ r.visibility \in Visibilities
    /\ r.op = "update_dataset" => r.dataset \in DatasetIds /\ r.name \in DatasetNames
    /\ r.op # "delete_org" => r.pending = {}

\* What the check has established of the caller.
SoundCheck(r) ==
    r.pc # "check" =>
        /\ Granted(r, r.org, Needed(r.op))
        /\ r.op \in {"create_dataset", "delete_org"} => r.org \in Registered
        /\ r.op = "update_dataset" => \A d \in r.found : MaySetVisibility(r, d)

\* The records that the handler acts on belong to the organisation it was
\* checked for.
SoundOwner(r) ==
    \A d \in datasets : ActsOn(r, d.id) => d.owner = r.org

SoundJob(s) ==
    /\ SoundFields(job[s])
    /\ SoundCheck(job[s])
    /\ SoundOwner(job[s])
    /\ job[s].op = "create_dataset" => Reserved(s, job[s].dataset)

JobsSound == \A s \in Slots : job[s] # Idle => SoundJob(s)

\* An id is that of one record.
IdsUnique == \A d, e \in datasets : d.id = e.id => d = e

IndInv == TypeOK /\ IdsUnique /\ JobsSound

-----------------------------------------------------------------------------
(* Slots.                                                                  *)

LEMMA BusySlot ==
    ASSUME IndInv, NEW s \in Slots, job[s].pc # "idle"
    PROVE  job[s] \in Job /\ SoundJob(s)
<1>1. job[s] # Idle  BY DEF Idle
<1> QED  BY <1>1 DEF IndInv, TypeOK, JobsTypeOK, JobsSound

\* A request that slot s may go on with.
Fits(s, r) ==
    /\ r \in Job
    /\ SoundFields(r) /\ SoundCheck(r) /\ SoundOwner(r)
    /\ r.op = "create_dataset" => Reserved(s, r.dataset)
    /\ \A i \in DatasetIds :
        ActsOn(r, i) => \/ r.op = "create_dataset"
                        \/ ActsOn(job[s], i)
                        \/ WithId(i) # {}

\* Nothing is created and nothing changes owner.
KeepsOwners == \A e \in datasets' : \E d \in datasets : d.id = e.id /\ d.owner = e.owner

LEMMA SlotChange ==
    ASSUME IndInv, NEW s \in Slots, NEW r, r = Idle \/ Fits(s, r),
           job' = [job EXCEPT ![s] = r], KeepsOwners
    PROVE  JobsTypeOK' /\ JobsSound'
<1>1. JobsTypeOK'
    BY DEF IndInv, TypeOK, JobsTypeOK, Fits
<1>2. /\ job'[s] = r
      /\ \A t \in Slots \ {s} : job'[t] = job[t]
    BY DEF IndInv, TypeOK, JobsTypeOK
<1>3. \A i : WithId(i) = {} => WithId(i)' = {}
    BY DEF WithId, KeepsOwners
<1>4. ASSUME NEW q, SoundOwner(q)
      PROVE  \A d \in datasets' : ActsOn(q, d.id) => d.owner = q.org
    BY <1>4 DEF SoundOwner, KeepsOwners
<1>5. ASSUME NEW t \in Slots \ {s}, job[t] # Idle
      PROVE  SoundJob(t)'
    <2>1. SoundJob(t)
        BY <1>5 DEF IndInv, JobsSound
    <2>2. SoundFields(job'[t]) /\ SoundCheck(job'[t])
        BY <1>2, <2>1 DEF SoundJob
    <2>3. \A d \in datasets' : ActsOn(job'[t], d.id) => d.owner = job'[t].org
        BY <1>2, <1>4, <2>1 DEF SoundJob
    <2>4. ASSUME job[t].op = "create_dataset"
          PROVE  Reserved(t, job[t].dataset)'
        <3> DEFINE i == job[t].dataset
        <3>1. i \in DatasetIds /\ Reserved(t, i)
            BY <2>1, <2>4 DEF SoundJob, SoundFields
        <3>2. WithId(i)' = {}
            BY <1>3, <3>1 DEF Reserved
        <3>3. ASSUME NEW p \in Slots \ {t}, p # s
              PROVE  ~ActsOn(job'[p], i)
            BY <1>2, <3>1, <3>3 DEF Reserved
        <3>4. ActsOn(job[t], i)
            BY <1>5, <2>4 DEF ActsOn
        <3>5. ~ActsOn(r, i)
            <4>1. CASE r = Idle
                BY <4>1 DEF ActsOn
            <4>2. CASE Fits(s, r)
                <5>1. ~ActsOn(job[s], i) /\ WithId(i) = {}
                    BY <3>1 DEF Reserved
                <5>2. ASSUME ActsOn(r, i)
                      PROVE  FALSE
                    <6>1. r.op = "create_dataset"
                        BY <3>1, <4>2, <5>1, <5>2 DEF Fits
                    <6>2. r.pending = {}
                        BY <4>2, <6>1 DEF Fits, SoundFields
                    <6>3. r.dataset = i
                        BY <5>2, <6>1, <6>2 DEF ActsOn
                    <6>4. Reserved(s, i)
                        BY <4>2, <6>1, <6>3 DEF Fits
                    <6> QED  BY <3>4, <6>4 DEF Reserved
                <5> QED  BY <5>2
            <4> QED  BY <4>1, <4>2
        <3> HIDE DEF i
        <3>6. \A p \in Slots \ {t} : ~ActsOn(job'[p], i)
            BY <1>2, <3>3, <3>5
        <3>7. (\A p \in Slots \ {t} : ~ActsOn(job'[p], job[t].dataset)) /\ WithId(job[t].dataset)' = {}
            BY <3>2, <3>6 DEF i
        <3> QED  BY <1>2, <3>7 DEF Reserved, ActsOn, Idle, WithId
    <2> QED  BY <1>2, <2>2, <2>3, <2>4
        DEF SoundJob, SoundFields, SoundCheck, SoundOwner, Granted, MaySetVisibility, ActsOn, Idle
<1>6. ASSUME r # Idle
      PROVE  SoundJob(s)'
    <2>1. Fits(s, r)
        BY <1>6
    <2>2. \A d \in datasets' : ActsOn(r, d.id) => d.owner = r.org
        BY <1>4, <2>1 DEF Fits
    <2>3. ASSUME r.op = "create_dataset"
          PROVE  WithId(r.dataset)' = {} /\ \A t \in Slots \ {s} : ~ActsOn(job'[t], r.dataset)
        BY <1>2, <1>3, <2>1, <2>3 DEF Fits, Reserved
    <2> QED  BY <1>2, <2>1, <2>2, <2>3
        DEF Fits, SoundJob, SoundFields, SoundCheck, SoundOwner, Reserved, Granted,
            MaySetVisibility, ActsOn, Idle, WithId
<1> QED  BY <1>1, <1>2, <1>5, <1>6 DEF JobsSound, Idle

-----------------------------------------------------------------------------
(* The tables and records.                                                 *)

LEMMA Assemble ==
    ASSUME FgaTypeOK', CrmTypeOK', IdsUnique', JobsTypeOK', JobsSound'
    PROVE  IndInv'
BY DEF IndInv, TypeOK

\* What the calls that write no dataset leave of the rest.
LEMMA DatasetsStay ==
    ASSUME IndInv, UNCHANGED datasets
    PROVE  IdsUnique' /\ KeepsOwners
BY DEF IndInv, IdsUnique, KeepsOwners

LEMMA FgaStays ==
    ASSUME IndInv, UNCHANGED fgaVars
    PROVE  FgaTypeOK'
BY DEF IndInv, TypeOK, FgaTypeOK, fgaVars

LEMMA CrmStays ==
    ASSUME IndInv, UNCHANGED crmVars
    PROVE  CrmTypeOK' /\ IdsUnique' /\ KeepsOwners
<1>1. UNCHANGED datasets  BY DEF crmVars
<1>2. CrmTypeOK'  BY DEF IndInv, TypeOK, CrmTypeOK, crmVars
<1> QED  BY <1>1, <1>2, DatasetsStay

LEMMA FlagWrites ==
    ASSUME IndInv, NEW o \in Registered, Delist(o) \/ Approve(o)
    PROVE  CrmTypeOK' /\ IdsUnique' /\ KeepsOwners
<1>1. UNCHANGED datasets  BY DEF Delist, Approve
<1>2. CrmTypeOK'  BY DEF IndInv, TypeOK, CrmTypeOK, Delist, Approve
<1> QED  BY <1>1, <1>2, DatasetsStay

LEMMA UpdateWrites ==
    ASSUME IndInv, NEW i \in DatasetIds, NEW n \in DatasetNames,
           NEW v \in Visibilities \cup {"NONE"}, UpdateDataset(i, n, v)
    PROVE  CrmTypeOK' /\ IdsUnique' /\ KeepsOwners
<1> DEFINE Updated(d) ==
        IF d.id # i THEN d
        ELSE IF v = "NONE" THEN [d EXCEPT !.name = n]
        ELSE [d EXCEPT !.name = n, !.visibility = v]
<1>1. datasets' = {Updated(d) : d \in datasets}
    BY DEF UpdateDataset
<1>2. datasets \subseteq Datasets
    BY DEF IndInv, TypeOK, CrmTypeOK
<1>3. ASSUME NEW d \in datasets
      PROVE  Updated(d) \in Datasets /\ Updated(d).id = d.id /\ Updated(d).owner = d.owner
    BY <1>2 DEF Datasets, Visibilities
<1> HIDE DEF Updated
<1>4. CrmTypeOK'
    BY <1>1, <1>3 DEF IndInv, TypeOK, CrmTypeOK, UpdateDataset
<1>5. IdsUnique'
    BY <1>1, <1>3 DEF IndInv, IdsUnique
<1>6. KeepsOwners
    BY <1>1, <1>3 DEF KeepsOwners
<1> QED  BY <1>4, <1>5, <1>6

LEMMA DeleteWrites ==
    ASSUME IndInv, NEW i, DeleteDataset(i)
    PROVE  CrmTypeOK' /\ IdsUnique' /\ KeepsOwners
<1>1. datasets' \subseteq datasets  BY DEF DeleteDataset
<1>2. CrmTypeOK'  BY <1>1 DEF IndInv, TypeOK, CrmTypeOK, DeleteDataset
<1>3. IdsUnique'  BY <1>1 DEF IndInv, IdsUnique
<1>4. KeepsOwners  BY <1>1 DEF KeepsOwners
<1> QED  BY <1>2, <1>3, <1>4

-----------------------------------------------------------------------------
(* The ways a handler goes on.                                             *)

LEMMA AnswerKeeps ==
    ASSUME IndInv, NEW s \in Slots, Answer(s), KeepsOwners
    PROVE  JobsTypeOK' /\ JobsSound'
BY SlotChange DEF Answer

\* Past a check that has been made, to any label but the first.
LEMMA GotoKeeps ==
    ASSUME IndInv, NEW s \in Slots, job[s].pc # "idle",
           NEW label \in Labels \ {"check"}, Goto(s, label), KeepsOwners,
           SoundCheck([job[s] EXCEPT !.pc = label]),
           job[s].pc # "check" \/ job[s].op \in {"create_dataset", "update_org", "delete_org"}
    PROVE  JobsTypeOK' /\ JobsSound'
<1> DEFINE r == [job[s] EXCEPT !.pc = label]
<1>1. job[s] \in Job /\ SoundJob(s)
    BY BusySlot
<1>2. /\ r \in Job /\ r # Idle /\ job[s] # Idle
      /\ r.op = job[s].op /\ r.dataset = job[s].dataset /\ r.org = job[s].org
      /\ r.name = job[s].name /\ r.visibility = job[s].visibility
      /\ r.pending = job[s].pending /\ r.pc = label
    BY <1>1 DEF Job, Idle, Labels
<1>3. job' = [job EXCEPT ![s] = r]
    BY DEF Goto
<1>4. SoundCheck(r)
    OBVIOUS
<1> HIDE DEF r
<1>5. \A i : ActsOn(r, i) <=> ActsOn(job[s], i)
    BY <1>2 DEF ActsOn
<1>6. SoundFields(r) /\ SoundOwner(r)
    BY <1>1, <1>2, <1>5 DEF SoundJob, SoundFields, SoundOwner
<1>7. r.op = "create_dataset" => Reserved(s, r.dataset)
    BY <1>1, <1>2 DEF SoundJob
<1> QED  BY <1>2, <1>3, <1>4, <1>5, <1>6, <1>7, SlotChange DEF Fits

\* From a later label, which its check allows already.
LEMMA OnwardKeeps ==
    ASSUME IndInv, NEW s \in Slots, job[s].pc \notin {"idle", "check"},
           NEW label \in Labels \ {"check"}, Goto(s, label), KeepsOwners
    PROVE  JobsTypeOK' /\ JobsSound'
<1>1. job[s] \in Job /\ SoundCheck(job[s])
    BY BusySlot DEF SoundJob
<1>2. SoundCheck([job[s] EXCEPT !.pc = label])
    BY <1>1 DEF Job, SoundCheck, Granted, MaySetVisibility
<1> QED  BY <1>2, GotoKeeps

LEMMA FailKeeps ==
    ASSUME IndInv, NEW s \in Slots, job[s].pc \notin {"idle", "check"}, Fail(s), KeepsOwners
    PROVE  JobsTypeOK' /\ JobsSound'
BY OnwardKeeps DEF Fail, Labels

-----------------------------------------------------------------------------
(* Requests that arrive.                                                   *)

LEMMA ArrivalType ==
    ASSUME FgaTypeOK, NEW op \in Operations, NEW u, NEW c
    PROVE  Arrival(op, u, c) \in Job
<1>1. [o \in Orgs |-> RoleForOrg(u, c, o)] \in [Orgs -> Authorities]
    BY RoleForOrgType
<1> QED  BY <1>1 DEF Arrival, Job, Labels

\* A handler that has its check to make acts on no record yet, unless it is
\* to create one.
LEMMA AcceptKeeps ==
    ASSUME IndInv, NEW s \in Slots, NEW u, NEW r \in Job, Accept(s, u, r),
           r.pc = "check", r.pending = {}, r.found = {}, SoundFields(r),
           r.op = "create_dataset" => r.dataset \in FreshDatasetIds
    PROVE  IndInv'
<1>1. job' = [job EXCEPT ![s] = r] /\ UNCHANGED <<fgaVars, crmVars>>
    BY DEF Accept
<1>2. SoundCheck(r)
    BY DEF SoundCheck
<1>3. ASSUME r.op = "create_dataset"
      PROVE  Reserved(s, r.dataset)
    BY <1>3 DEF FreshDatasetIds, Reserved, WithId, ActsOn
<1>4. SoundOwner(r)
    BY <1>3 DEF SoundOwner, ActsOn, Reserved, WithId
<1>5. \A i : ActsOn(r, i) => r.op = "create_dataset"
    BY DEF ActsOn
<1>6. Fits(s, r)
    BY <1>2, <1>3, <1>4, <1>5 DEF Fits
<1>7. CrmTypeOK' /\ IdsUnique' /\ KeepsOwners /\ FgaTypeOK'
    BY <1>1, CrmStays, FgaStays
<1>8. JobsTypeOK' /\ JobsSound'
    BY <1>1, <1>6, <1>7, SlotChange
<1> QED  BY <1>7, <1>8, Assemble

LEMMA ReceiveKeepsInv ==
    ASSUME IndInv, NEW s \in Slots, Receive(s)
    PROVE  IndInv'
<1> FgaTypeOK  BY DEF IndInv, TypeOK
<1>1. CASE ReceiveCreateDataset(s)
    <2>1. PICK u \in Users, c \in Clients, o \in Orgs, n \in DatasetNames, v \in Visibilities,
               i \in FreshDatasetIds :
            Accept(s, u, [Arrival("create_dataset", u, c)
                            EXCEPT !.org = o, !.dataset = i, !.name = n, !.visibility = v])
        BY <1>1 DEF ReceiveCreateDataset
    <2> DEFINE r == [Arrival("create_dataset", u, c)
                        EXCEPT !.org = o, !.dataset = i, !.name = n, !.visibility = v]
    <2>2. Arrival("create_dataset", u, c) \in Job
        BY ArrivalType DEF Operations
    <2>3. i \in DatasetIds
        BY DEF FreshDatasetIds
    <2>4. r \in Job
        BY <2>2, <2>3 DEF Job
    <2>5. /\ r.pc = "check" /\ r.pending = {} /\ r.found = {} /\ r.op = "create_dataset"
          /\ r.org = o /\ r.dataset = i /\ r.name = n /\ r.visibility = v
        BY DEF Arrival
    <2> HIDE DEF r
    <2>6. SoundFields(r)
        BY <2>3, <2>5 DEF SoundFields
    <2> QED  BY <2>1, <2>4, <2>5, <2>6, AcceptKeeps DEF r
<1>2. CASE ReceiveUpdateDataset(s)
    <2>1. PICK u \in Users, c \in Clients, i \in DatasetIds, n \in DatasetNames,
               v \in Visibilities \cup {"NONE"} :
            Accept(s, u, [Arrival("update_dataset", u, c)
                            EXCEPT !.dataset = i, !.name = n, !.visibility = v])
        BY <1>2 DEF ReceiveUpdateDataset
    <2> DEFINE r == [Arrival("update_dataset", u, c)
                        EXCEPT !.dataset = i, !.name = n, !.visibility = v]
    <2>2. Arrival("update_dataset", u, c) \in Job
        BY ArrivalType DEF Operations
    <2>3. r \in Job
        BY <2>2 DEF Job
    <2>4. /\ r.pc = "check" /\ r.pending = {} /\ r.found = {} /\ r.op = "update_dataset"
          /\ r.dataset = i /\ r.name = n
        BY DEF Arrival
    <2> HIDE DEF r
    <2>5. SoundFields(r)
        BY <2>4 DEF SoundFields
    <2> QED  BY <2>1, <2>3, <2>4, <2>5, AcceptKeeps DEF r
<1>3. CASE ReceiveDeleteDataset(s)
    <2>1. PICK u \in Users, c \in Clients, i \in DatasetIds :
            Accept(s, u, [Arrival("delete_dataset", u, c) EXCEPT !.dataset = i])
        BY <1>3 DEF ReceiveDeleteDataset
    <2> DEFINE r == [Arrival("delete_dataset", u, c) EXCEPT !.dataset = i]
    <2>2. Arrival("delete_dataset", u, c) \in Job
        BY ArrivalType DEF Operations
    <2>3. r \in Job
        BY <2>2 DEF Job
    <2>4. r.pc = "check" /\ r.pending = {} /\ r.found = {} /\ r.op = "delete_dataset"
        BY DEF Arrival
    <2> HIDE DEF r
    <2>5. SoundFields(r)
        BY <2>4 DEF SoundFields
    <2> QED  BY <2>1, <2>3, <2>4, <2>5, AcceptKeeps DEF r
<1>4. CASE ReceiveUpdateOrg(s) \/ ReceiveDeleteOrg(s)
    <2>1. PICK op \in {"update_org", "delete_org"}, u \in Users, c \in Clients, o \in Orgs :
            Accept(s, u, [Arrival(op, u, c) EXCEPT !.org = o])
        BY <1>4 DEF ReceiveUpdateOrg, ReceiveDeleteOrg
    <2> DEFINE r == [Arrival(op, u, c) EXCEPT !.org = o]
    <2>2. Arrival(op, u, c) \in Job
        BY ArrivalType DEF Operations
    <2>3. r \in Job
        BY <2>2 DEF Job
    <2>4. r.pc = "check" /\ r.pending = {} /\ r.found = {} /\ r.op = op /\ r.org = o
        BY DEF Arrival
    <2> HIDE DEF r
    <2>5. SoundFields(r)
        BY <2>4 DEF SoundFields
    <2> QED  BY <2>1, <2>3, <2>4, <2>5, AcceptKeeps DEF r
<1> QED  BY <1>1, <1>2, <1>3, <1>4 DEF Receive

-----------------------------------------------------------------------------
(* Datasets.                                                               *)

\* What holds of a handler at a label.
LEMMA UnderWay ==
    ASSUME IndInv, NEW s \in Slots, NEW op, NEW label, label # "idle", At(s, op, label)
    PROVE  /\ job[s] \in Job /\ SoundJob(s) /\ job[s].op = op /\ job[s].pc = label
           /\ job[s] # Idle
           /\ label # "check" => job[s].org \in Orgs
BY BusySlot DEF At, Idle, SoundJob, SoundFields

LEMMA CreateDatasetKeepsInv ==
    ASSUME IndInv, NEW s \in Slots, CreateDatasetCheck(s) \/ CreateDatasetWrite(s)
    PROVE  IndInv'
<1>1. CASE CreateDatasetCheck(s)
    <2>1. FgaTypeOK' /\ CrmTypeOK' /\ IdsUnique' /\ KeepsOwners
        BY <1>1, FgaStays, CrmStays DEF CreateDatasetCheck
    <2>2. /\ job[s] \in Job /\ job[s].op = "create_dataset" /\ job[s].pc = "check"
        BY <1>1, UnderWay DEF CreateDatasetCheck
    <2>3. CASE MayCreateDataset(job[s]) /\ Goto(s, "write")
        <3>1. SoundCheck([job[s] EXCEPT !.pc = "write"])
            BY <2>2, <2>3 DEF SoundCheck, MayCreateDataset, Granted, Needed, Job
        <3>2. JobsTypeOK' /\ JobsSound'
            BY <2>1, <2>2, <2>3, <3>1, GotoKeeps DEF Labels
        <3> QED  BY <2>1, <3>2, Assemble
    <2>4. CASE Answer(s)
        BY <2>1, <2>4, AnswerKeeps, Assemble
    <2> QED  BY <1>1, <2>3, <2>4 DEF CreateDatasetCheck
<1>2. CASE CreateDatasetWrite(s)
    <2> DEFINE i == job[s].dataset
               d == [id |-> i, owner |-> job[s].org,
                     name |-> job[s].name, visibility |-> job[s].visibility]
    <2>1. /\ job[s] \in Job /\ SoundJob(s) /\ job[s].op = "create_dataset"
          /\ job[s].pc = "write" /\ job[s].org \in Orgs
        BY <1>2, UnderWay DEF CreateDatasetWrite
    <2>2. d \in Datasets /\ Reserved(s, i)
        BY <2>1 DEF SoundJob, SoundFields, Datasets
    <2>3. datasets' = datasets \cup {d} /\ d.id = i
        BY <1>2 DEF CreateDatasetWrite, CreateDataset
    <2>4. UNCHANGED <<fgaVars, approved, discoverable>>
        BY <1>2 DEF CreateDatasetWrite, CreateDataset
    <2>5. /\ job' = [job EXCEPT ![s] = Idle]
        BY <1>2 DEF CreateDatasetWrite, Answer
    <2> HIDE DEF d
    <2>6. FgaTypeOK' /\ CrmTypeOK'
        BY <2>2, <2>3, <2>4, FgaStays DEF IndInv, TypeOK, CrmTypeOK
    <2>7. IdsUnique'
        BY <2>2, <2>3 DEF IndInv, IdsUnique, Reserved, WithId
    <2>8. JobsTypeOK' /\ \A t \in Slots \ {s} : job'[t] = job[t]
        BY <2>5 DEF IndInv, TypeOK, JobsTypeOK
    <2>9. ASSUME NEW t \in Slots, job'[t] # Idle
          PROVE  SoundJob(t)'
        <3>1. t # s /\ job'[t] = job[t] /\ SoundJob(t) /\ job[t] # Idle
            BY <2>5, <2>8, <2>9 DEF IndInv, TypeOK, JobsTypeOK, JobsSound
        <3>2. ~ActsOn(job[t], i)
            BY <2>2, <3>1 DEF Reserved
        <3>3. \A e \in datasets' : ActsOn(job'[t], e.id) => e.owner = job'[t].org
            BY <2>3, <3>1, <3>2 DEF SoundJob, SoundOwner
        <3>4. ASSUME job[t].op = "create_dataset"
              PROVE  /\ WithId(job[t].dataset)' = {}
                     /\ \A p \in Slots \ {t} : ~ActsOn(job'[p], job[t].dataset)
            <4>1. Reserved(t, job[t].dataset) /\ job[t].dataset # i
                BY <3>1, <3>2, <3>4 DEF SoundJob, ActsOn
            <4>2. WithId(job[t].dataset)' = {}
                BY <2>3, <3>1, <4>1 DEF Reserved, WithId
            <4>3. ~ActsOn(job'[s], job[t].dataset)
                BY <2>5 DEF ActsOn, IndInv, TypeOK, JobsTypeOK
            <4> QED  BY <2>8, <4>1, <4>2, <4>3 DEF Reserved
        <3> QED  BY <3>1, <3>3, <3>4
            DEF SoundJob, SoundFields, SoundCheck, SoundOwner, Reserved, Granted,
                MaySetVisibility, ActsOn, Idle, WithId
    <2>10. JobsSound'
        BY <2>9 DEF JobsSound, Idle
    <2> QED  BY <2>6, <2>7, <2>8, <2>10, Assemble
<1> QED  BY <1>1, <1>2

\* The check of an update or a delete establishes the owner.
LEMMA OwnerFound ==
    ASSUME IndInv, NEW s \in Slots, job[s].pc = "check",
           job[s].op \in {"update_dataset", "delete_dataset"},
           NEW d \in WithId(job[s].dataset), NEW r \in Job,
           r.op = job[s].op, r.dataset = job[s].dataset, r.name = job[s].name,
           r.pending = job[s].pending, r.org = d.owner, r.pc # "check", SoundCheck(r),
           UNCHANGED <<fgaVars, crmVars>>, job' = [job EXCEPT ![s] = r]
    PROVE  IndInv'
<1>1. SoundJob(s) /\ job[s].pending = {}
    BY BusySlot DEF SoundJob, SoundFields
<1>2. d \in datasets /\ d.id = r.dataset /\ d \in Datasets
    BY DEF WithId, IndInv, TypeOK, CrmTypeOK
<1>3. SoundFields(r)
    BY <1>1, <1>2 DEF SoundJob, SoundFields, Datasets
<1>4. SoundOwner(r)
    BY <1>1, <1>2 DEF SoundOwner, ActsOn, IndInv, IdsUnique
<1>5. \A i : ActsOn(r, i) => WithId(i) # {}
    BY <1>1, <1>2 DEF ActsOn, WithId
<1>6. Fits(s, r)
    BY <1>3, <1>4, <1>5 DEF Fits
<1>7. FgaTypeOK' /\ CrmTypeOK' /\ IdsUnique' /\ KeepsOwners
    BY FgaStays, CrmStays
<1> QED  BY <1>6, <1>7, SlotChange, Assemble

LEMMA UpdateDatasetKeepsInv ==
    ASSUME IndInv, NEW s \in Slots,
           UpdateDatasetCheck(s) \/ UpdateDatasetReadName(s) \/ UpdateDatasetWrite(s)
    PROVE  IndInv'
<1>1. CASE UpdateDatasetCheck(s)
    <2>1. job[s] \in Job /\ job[s].op = "update_dataset" /\ job[s].pc = "check"
        BY <1>1, UnderWay DEF UpdateDatasetCheck
    <2>2. UNCHANGED <<fgaVars, crmVars>>
        BY <1>1 DEF UpdateDatasetCheck
    <2>3. ASSUME NEW d \in WithId(job[s].dataset), MayUpdateDataset(job[s], d),
                 NEW label \in {"write", "read_name"},
                 job' = [job EXCEPT ![s].pc = label, ![s].org = d.owner, ![s].found = {d}]
          PROVE  IndInv'
        <3> DEFINE r == [job[s] EXCEPT !.pc = label, !.org = d.owner, !.found = {d}]
        <3>1. d \in Datasets
            BY DEF WithId, IndInv, TypeOK, CrmTypeOK
        <3>2. r \in Job
            BY <2>1, <3>1 DEF Job, Datasets, Labels
        <3>3. /\ r.op = "update_dataset" /\ r.pc = label /\ r.org = d.owner /\ r.found = {d}
              /\ r.authz = job[s].authz /\ r.visibility = job[s].visibility
              /\ r.dataset = job[s].dataset /\ r.name = job[s].name /\ r.pending = job[s].pending
            BY <2>1 DEF Job
        <3>4. job' = [job EXCEPT ![s] = r]
            BY <2>3
        <3> HIDE DEF r
        <3>5. SoundCheck(r)
            BY <2>3, <3>3 DEF SoundCheck, MayUpdateDataset, MaySetVisibility, Granted, Needed
        <3> QED  BY <2>1, <2>2, <3>2, <3>3, <3>4, <3>5, OwnerFound
    <2>4. CASE Answer(s)
        BY <2>2, <2>4, FgaStays, CrmStays, AnswerKeeps, Assemble
    <2> QED  BY <1>1, <2>3, <2>4 DEF UpdateDatasetCheck
<1>2. CASE UpdateDatasetReadName(s)
    <2>1. job[s].pc = "read_name"
        BY <1>2 DEF UpdateDatasetReadName, At
    <2>2. FgaTypeOK' /\ CrmTypeOK' /\ IdsUnique' /\ KeepsOwners
        BY <1>2, FgaStays, CrmStays DEF UpdateDatasetReadName
    <2>3. JobsTypeOK' /\ JobsSound'
        BY <1>2, <2>1, <2>2, OnwardKeeps, AnswerKeeps DEF UpdateDatasetReadName, Labels
    <2> QED  BY <2>2, <2>3, Assemble
<1>3. CASE UpdateDatasetWrite(s)
    <2>1. /\ job[s].dataset \in DatasetIds /\ job[s].name \in DatasetNames
          /\ job[s].visibility \in Visibilities \cup {"NONE"}
        BY <1>3, UnderWay DEF UpdateDatasetWrite, SoundJob, SoundFields, Job
    <2>2. CrmTypeOK' /\ IdsUnique' /\ KeepsOwners
        BY <1>3, <2>1, UpdateWrites DEF UpdateDatasetWrite
    <2>3. FgaTypeOK'
        BY <1>3, FgaStays DEF UpdateDatasetWrite
    <2> QED  BY <1>3, <2>2, <2>3, AnswerKeeps, Assemble DEF UpdateDatasetWrite
<1> QED  BY <1>1, <1>2, <1>3

LEMMA DeleteDatasetKeepsInv ==
    ASSUME IndInv, NEW s \in Slots, DeleteDatasetCheck(s) \/ DeleteDatasetWrite(s)
    PROVE  IndInv'
<1>1. CASE DeleteDatasetCheck(s)
    <2>1. job[s] \in Job /\ job[s].op = "delete_dataset" /\ job[s].pc = "check"
        BY <1>1, UnderWay DEF DeleteDatasetCheck
    <2>2. UNCHANGED <<fgaVars, crmVars>>
        BY <1>1 DEF DeleteDatasetCheck
    <2>3. ASSUME NEW d \in WithId(job[s].dataset), Granted(job[s], d.owner, "delete-dataset"),
                 job' = [job EXCEPT ![s].pc = "write", ![s].org = d.owner]
          PROVE  IndInv'
        <3> DEFINE r == [job[s] EXCEPT !.pc = "write", !.org = d.owner]
        <3>1. d \in Datasets
            BY DEF WithId, IndInv, TypeOK, CrmTypeOK
        <3>2. r \in Job
            BY <2>1, <3>1 DEF Job, Datasets, Labels
        <3>3. /\ r.op = "delete_dataset" /\ r.pc = "write" /\ r.org = d.owner
              /\ r.authz = job[s].authz /\ r.name = job[s].name
              /\ r.dataset = job[s].dataset /\ r.pending = job[s].pending
            BY <2>1 DEF Job
        <3>4. job' = [job EXCEPT ![s] = r]
            BY <2>3
        <3> HIDE DEF r
        <3>5. SoundCheck(r)
            BY <2>3, <3>3 DEF SoundCheck, Granted, Needed
        <3> QED  BY <2>1, <2>2, <3>2, <3>3, <3>4, <3>5, OwnerFound
    <2>4. CASE Answer(s)
        BY <2>2, <2>4, FgaStays, CrmStays, AnswerKeeps, Assemble
    <2> QED  BY <1>1, <2>3, <2>4 DEF DeleteDatasetCheck
<1>2. CASE DeleteDatasetWrite(s)
    <2>1. CrmTypeOK' /\ IdsUnique' /\ KeepsOwners
        BY <1>2, DeleteWrites DEF DeleteDatasetWrite
    <2>2. FgaTypeOK'
        BY <1>2, FgaStays DEF DeleteDatasetWrite
    <2> QED  BY <1>2, <2>1, <2>2, AnswerKeeps, Assemble DEF DeleteDatasetWrite
<1> QED  BY <1>1, <1>2

-----------------------------------------------------------------------------
(* Updating an organisation.                                               *)

LEMMA UpdateOrgKeepsInv ==
    ASSUME IndInv, NEW s \in Slots, UpdateOrgStep(s)
    PROVE  IndInv'
<1>1. FgaTypeOK' /\ CrmTypeOK' /\ IdsUnique' /\ KeepsOwners
    BY FgaStays, CrmStays DEF UpdateOrgStep, UpdateOrgCheck, UpdateOrgWrite, UpdateOrg
<1>2. CASE Answer(s)
    BY <1>1, <1>2, AnswerKeeps, Assemble
<1>3. CASE At(s, "update_org", "check") /\ MayUpdateOrg(job[s]) /\ Goto(s, "write")
    <2>1. job[s] \in Job /\ job[s].op = "update_org" /\ job[s].pc = "check"
        BY <1>3, UnderWay
    <2>2. SoundCheck([job[s] EXCEPT !.pc = "write"])
        BY <1>3, <2>1 DEF SoundCheck, MayUpdateOrg, Granted, Needed, Job
    <2>3. JobsTypeOK' /\ JobsSound'
        BY <1>1, <1>3, <2>1, <2>2, GotoKeeps DEF Labels
    <2> QED  BY <1>1, <2>3, Assemble
<1> QED  BY <1>2, <1>3 DEF UpdateOrgStep, UpdateOrgCheck, UpdateOrgWrite

-----------------------------------------------------------------------------
(* Deleting an organisation.                                               *)

LEMMA DeleteOrgUnderWay ==
    ASSUME IndInv, NEW s \in Slots, NEW label, label # "idle", At(s, "delete_org", label)
    PROVE  /\ job[s] \in Job /\ SoundJob(s) /\ job[s].op = "delete_org" /\ job[s].pc = label
           /\ job[s].org \in Orgs
           /\ label # "check" => /\ job[s].org \in Registered
                                 /\ Granted(job[s], job[s].org, "delete-org")
<1>1. job[s] \in Job /\ SoundJob(s) /\ job[s].op = "delete_org" /\ job[s].pc = label
    BY UnderWay
<1>2. job[s].org \in Orgs
    BY <1>1 DEF SoundJob, SoundFields
<1>3. label # "check" => /\ job[s].org \in Registered
                         /\ Granted(job[s], job[s].org, "delete-org")
    BY <1>1 DEF SoundJob, SoundCheck, Needed
<1> QED  BY <1>1, <1>2, <1>3

\* A deletion goes on with what it has read or done.
LEMMA DeletionGoesOn ==
    ASSUME IndInv, NEW s \in Slots, NEW label, label # "idle", At(s, "delete_org", label),
           NEW r \in Job, job' = [job EXCEPT ![s] = r], KeepsOwners,
           r.op = "delete_org", r.org = job[s].org, r.authz = job[s].authz,
           \A i \in r.pending : i \in job[s].pending \/ i \in OwnedBy(r.org),
           r.org \in Registered, Granted(r, r.org, "delete-org")
    PROVE  JobsTypeOK' /\ JobsSound'
<1>1. job[s] # Idle /\ SoundJob(s) /\ job[s].org \in Orgs /\ job[s].op = "delete_org"
    BY DeleteOrgUnderWay DEF At, Idle
<1>2. SoundFields(r) /\ SoundCheck(r)
    BY <1>1 DEF SoundFields, SoundCheck, Needed
<1>3. ASSUME NEW i, ActsOn(r, i)
      PROVE  i \in r.pending
    BY <1>3 DEF ActsOn
<1>4. SoundOwner(r)
    <2>1. ASSUME NEW d \in datasets, ActsOn(r, d.id)
          PROVE  d.owner = r.org
        <3>1. CASE d.id \in job[s].pending
            <4>1. ActsOn(job[s], d.id)
                BY <1>1, <3>1 DEF ActsOn
            <4> QED  BY <1>1, <4>1 DEF SoundJob, SoundOwner
        <3>2. CASE d.id \in OwnedBy(r.org)
            BY <3>2 DEF OwnedBy, IndInv, IdsUnique
        <3> QED  BY <1>3, <2>1, <3>1, <3>2
    <2> QED  BY <2>1 DEF SoundOwner
<1>5. ASSUME NEW i, ActsOn(r, i)
      PROVE  ActsOn(job[s], i) \/ WithId(i) # {}
    BY <1>1, <1>3, <1>5 DEF ActsOn, OwnedBy, WithId
<1>6. Fits(s, r)
    BY <1>2, <1>4, <1>5 DEF Fits
<1> QED  BY <1>6, SlotChange

LEMMA DeleteOrgKeepsInv ==
    ASSUME IndInv, NEW s \in Slots, DeleteOrgStep(s)
    PROVE  IndInv'
<1>1. CASE DeleteOrgCheck(s)
    <2>1. /\ job[s] \in Job /\ job[s].op = "delete_org" /\ job[s].pc = "check" /\ job[s].org \in Orgs
          /\ SoundJob(s)
        BY <1>1, DeleteOrgUnderWay DEF DeleteOrgCheck
    <2>2. FgaTypeOK' /\ CrmTypeOK' /\ IdsUnique' /\ KeepsOwners
        BY <1>1, FgaStays, CrmStays DEF DeleteOrgCheck
    <2>3. ASSUME Granted(job[s], job[s].org, "delete-org"), job[s].org \in Registered,
                 NEW flag \in {"0", "1"},
                 job' = [job EXCEPT ![s].pc = "delist", ![s].flag = flag]
          PROVE  JobsTypeOK' /\ JobsSound'
        <3> DEFINE r == [job[s] EXCEPT !.pc = "delist", !.flag = flag]
        <3>1. r \in Job
            BY <2>1 DEF Job, Labels
        <3>2. /\ r.op = "delete_org" /\ r.org = job[s].org /\ r.authz = job[s].authz
              /\ r.pending = job[s].pending
            BY <2>1 DEF Job
        <3>3. job' = [job EXCEPT ![s] = r]
            BY <2>3
        <3> HIDE DEF r
        <3>4. Granted(r, r.org, "delete-org")
            BY <2>3, <3>2 DEF Granted
        <3> QED  BY <1>1, <2>2, <2>3, <3>1, <3>2, <3>3, <3>4, DeletionGoesOn DEF DeleteOrgCheck
    <2>4. FlagOf(approved, job[s].org) \in {"0", "1"}
        BY DEF FlagOf
    <2>5. JobsTypeOK' /\ JobsSound'
        BY <1>1, <2>2, <2>3, <2>4, AnswerKeeps DEF DeleteOrgCheck
    <2> QED  BY <2>2, <2>5, Assemble
<1>2. CASE DeleteOrgDelist(s)
    <2>1. /\ job[s] \in Job /\ job[s].op = "delete_org" /\ job[s].pc = "delist"
          /\ job[s].org \in Registered /\ Granted(job[s], job[s].org, "delete-org")
        BY <1>2, DeleteOrgUnderWay DEF DeleteOrgDelist
    <2>2. FgaTypeOK' /\ CrmTypeOK' /\ IdsUnique' /\ KeepsOwners
        BY <1>2, <2>1, FgaStays, CrmStays, FlagWrites DEF DeleteOrgDelist
    <2>3. ASSUME NEW undo \in SUBSET {"approve"},
                 job' = [job EXCEPT ![s].pc = "delete_roles", ![s].undo = undo]
          PROVE  JobsTypeOK' /\ JobsSound'
        <3> DEFINE r == [job[s] EXCEPT !.pc = "delete_roles", !.undo = undo]
        <3>1. r \in Job
            BY <2>1 DEF Job, Labels
        <3>2. /\ r.op = "delete_org" /\ r.org = job[s].org /\ r.authz = job[s].authz
              /\ r.pending = job[s].pending
            BY <2>1 DEF Job
        <3>3. job' = [job EXCEPT ![s] = r]
            BY <2>3
        <3> HIDE DEF r
        <3>4. Granted(r, r.org, "delete-org")
            BY <2>1, <3>2 DEF Granted
        <3> QED  BY <1>2, <2>1, <2>2, <3>1, <3>2, <3>3, <3>4, DeletionGoesOn DEF DeleteOrgDelist
    <2>4. (IF WasApproved(job[s].flag) THEN {"approve"} ELSE {}) \in SUBSET {"approve"}
        OBVIOUS
    <2>5. \/ Fail(s)
          \/ job' = [job EXCEPT ![s].pc = "delete_roles",
                                ![s].undo = IF WasApproved(job[s].flag) THEN {"approve"} ELSE {}]
        BY <1>2 DEF DeleteOrgDelist
    <2>6. JobsTypeOK' /\ JobsSound'
        BY <2>1, <2>2, <2>3, <2>4, <2>5, FailKeeps
    <2> QED  BY <2>2, <2>6, Assemble
<1>3. CASE DeleteOrgRoles(s)
    <2>1. job[s].pc = "delete_roles"
        BY <1>3 DEF DeleteOrgRoles, At
    <2>2. CrmTypeOK' /\ IdsUnique' /\ KeepsOwners
        BY <1>3, CrmStays DEF DeleteOrgRoles
    <2>3. FgaTypeOK'
        BY <1>3, DeleteRoleType, FgaStays DEF DeleteOrgRoles, IndInv, TypeOK
    <2>4. JobsTypeOK' /\ JobsSound'
        BY <1>3, <2>1, <2>2, FailKeeps, OnwardKeeps DEF DeleteOrgRoles, Labels
    <2> QED  BY <2>2, <2>3, <2>4, Assemble
<1>4. CASE DeleteOrgList(s)
    <2>1. /\ job[s] \in Job /\ job[s].op = "delete_org" /\ job[s].pc = "list"
          /\ job[s].org \in Registered /\ Granted(job[s], job[s].org, "delete-org")
        BY <1>4, DeleteOrgUnderWay DEF DeleteOrgList
    <2>2. FgaTypeOK' /\ CrmTypeOK' /\ IdsUnique' /\ KeepsOwners
        BY <1>4, FgaStays, CrmStays DEF DeleteOrgList
    <2>3. ASSUME NEW page \in Pages(job[s].org),
                 job' = [job EXCEPT ![s].pc = "delete", ![s].pending = page]
          PROVE  JobsTypeOK' /\ JobsSound'
        <3> DEFINE r == [job[s] EXCEPT !.pc = "delete", !.pending = page]
        <3>1. page \subseteq OwnedBy(job[s].org)
            BY DEF Pages
        <3>2. page \subseteq DatasetIds
            BY <3>1 DEF OwnedBy, IndInv, TypeOK, CrmTypeOK, Datasets
        <3>3. r \in Job
            BY <2>1, <3>2 DEF Job, Labels
        <3>4. /\ r.op = "delete_org" /\ r.org = job[s].org /\ r.authz = job[s].authz
              /\ r.pending = page
            BY <2>1 DEF Job
        <3>5. job' = [job EXCEPT ![s] = r]
            BY <2>3
        <3> HIDE DEF r
        <3>6. Granted(r, r.org, "delete-org")
            BY <2>1, <3>4 DEF Granted
        <3> QED
            BY <1>4, <2>1, <2>2, <3>1, <3>3, <3>4, <3>5, <3>6, DeletionGoesOn DEF DeleteOrgList
    <2>4. JobsTypeOK' /\ JobsSound'
        BY <1>4, <2>1, <2>2, <2>3, FailKeeps DEF DeleteOrgList
    <2> QED  BY <2>2, <2>4, Assemble
<1>5. CASE DeleteOrgDataset(s)
    <2>1. /\ job[s] \in Job /\ job[s].op = "delete_org" /\ job[s].pc = "delete"
          /\ job[s].org \in Registered /\ Granted(job[s], job[s].org, "delete-org")
        BY <1>5, DeleteOrgUnderWay DEF DeleteOrgDataset
    <2>2. FgaTypeOK'
        BY <1>5, FgaStays DEF DeleteOrgDataset
    <2>3. CrmTypeOK' /\ IdsUnique' /\ KeepsOwners
        BY <1>5, CrmStays, DeleteWrites DEF DeleteOrgDataset
    <2>4. ASSUME NEW i \in job[s].pending, job' = [job EXCEPT ![s].pending = @ \ {i}]
          PROVE  JobsTypeOK' /\ JobsSound'
        <3> DEFINE r == [job[s] EXCEPT !.pending = @ \ {i}]
        <3>1. r \in Job
            BY <2>1 DEF Job
        <3>2. /\ r.op = "delete_org" /\ r.org = job[s].org /\ r.authz = job[s].authz
              /\ r.pending = job[s].pending \ {i}
            BY <2>1 DEF Job
        <3>3. job' = [job EXCEPT ![s] = r]
            BY <2>4
        <3> HIDE DEF r
        <3>4. Granted(r, r.org, "delete-org")
            BY <2>1, <3>2 DEF Granted
        <3> QED  BY <1>5, <2>1, <2>3, <3>1, <3>2, <3>3, <3>4, DeletionGoesOn DEF DeleteOrgDataset
    <2>5. JobsTypeOK' /\ JobsSound'
        BY <1>5, <2>1, <2>3, <2>4, FailKeeps DEF DeleteOrgDataset
    <2> QED  BY <2>2, <2>3, <2>5, Assemble
<1>6. CASE DeleteOrgEnds(s)
    <2>1. FgaTypeOK' /\ CrmTypeOK' /\ IdsUnique' /\ KeepsOwners
        BY <1>6, FgaStays, CrmStays DEF DeleteOrgEnds
    <2> QED  BY <1>6, <2>1, AnswerKeeps, Assemble DEF DeleteOrgEnds
<1>7. CASE DeleteOrgUndo(s)
    <2>1. job[s].org \in Registered
        BY <1>7, DeleteOrgUnderWay DEF DeleteOrgUndo
    <2>2. FgaTypeOK' /\ CrmTypeOK' /\ IdsUnique' /\ KeepsOwners
        BY <1>7, <2>1, FgaStays, CrmStays, FlagWrites DEF DeleteOrgUndo
    <2> QED  BY <1>7, <2>2, AnswerKeeps, Assemble DEF DeleteOrgUndo
<1> QED  BY <1>1, <1>2, <1>3, <1>4, <1>5, <1>6, <1>7 DEF DeleteOrgStep

-----------------------------------------------------------------------------
(* Exceptions, the process stopping, other requests.                       *)

LEMMA RaisesKeepsInv ==
    ASSUME IndInv, NEW s \in Slots, CallRaises(s)
    PROVE  IndInv'
<1>1. FgaTypeOK' /\ CrmTypeOK' /\ IdsUnique' /\ KeepsOwners
    BY FgaStays, CrmStays DEF CallRaises
<1> QED  BY <1>1, AnswerKeeps, Assemble DEF CallRaises

LEMMA CrashKeepsInv ==
    ASSUME IndInv, Crash
    PROVE  IndInv'
<1>1. FgaTypeOK' /\ CrmTypeOK' /\ IdsUnique'
    BY FgaStays, CrmStays DEF Crash
<1>2. JobsTypeOK' /\ JobsSound'
    BY DEF Crash, JobsTypeOK, JobsSound, Idle
<1> QED  BY <1>1, <1>2, Assemble

LEMMA SlotsStay ==
    ASSUME IndInv, UNCHANGED <<crmVars, job>>
    PROVE  CrmTypeOK' /\ IdsUnique' /\ JobsTypeOK' /\ JobsSound'
<1>1. CrmTypeOK' /\ IdsUnique'
    BY CrmStays
<1>2. JobsTypeOK' /\ JobsSound'
    BY DEF crmVars, IndInv, TypeOK, JobsTypeOK, JobsSound, SoundJob, SoundFields, SoundCheck,
           SoundOwner, Reserved, WithId, Granted, MaySetVisibility, ActsOn, Idle
<1> QED  BY <1>1, <1>2

LEMMA RoleChangeKeepsInv ==
    ASSUME IndInv, RoleChange
    PROVE  IndInv'
<1> FgaTypeOK  BY DEF IndInv, TypeOK
<1>1. PICK u \in Users, o \in Orgs, role \in DirectRoles :
        \/ \E i \in RowIds : CreateRow(i, u, o, role)
        \/ \E row \in RowsFor(u, o) : MergeRow([row EXCEPT !.role = role])
        \/ DeleteRole(u, o)
    BY DEF RoleChange
<1>2. ASSUME NEW row \in RowsFor(u, o)
      PROVE  [row EXCEPT !.role = role] \in Rows
    BY DEF RowsFor, FgaTypeOK, Rows
<1>3. FgaTypeOK'
    BY <1>1, <1>2, CreateRowType, MergeRowType, DeleteRoleType
<1>4. CrmTypeOK' /\ IdsUnique' /\ JobsTypeOK' /\ JobsSound'
    BY SlotsStay DEF RoleChange
<1> QED  BY <1>3, <1>4, Assemble

-----------------------------------------------------------------------------
(* The invariant.                                                          *)

LEMMA InitInv == Init => IndInv
<1> SUFFICES ASSUME Init PROVE IndInv  OBVIOUS
<1>1. FgaTypeOK
    BY DEF Init, FgaTypeOK
<1>2. CrmTypeOK /\ IdsUnique
    BY DEF Init, CrmTypeOK, IdsUnique
<1>3. JobsTypeOK /\ JobsSound
    BY DEF Init, JobsTypeOK, JobsSound
<1> QED  BY <1>1, <1>2, <1>3 DEF IndInv, TypeOK

LEMMA NextInv == IndInv /\ [Next]_vars => IndInv'
<1> SUFFICES ASSUME IndInv, [Next]_vars PROVE IndInv'  OBVIOUS
<1>1. CASE RoleChange \/ Crash
    BY <1>1, RoleChangeKeepsInv, CrashKeepsInv
<1>2. ASSUME NEW s \in Slots, Receive(s)
      PROVE  IndInv'
    BY <1>2, ReceiveKeepsInv
<1>3. ASSUME NEW s \in Slots, Step(s)
      PROVE  IndInv'
    BY <1>3, CreateDatasetKeepsInv, UpdateDatasetKeepsInv, DeleteDatasetKeepsInv,
       UpdateOrgKeepsInv, DeleteOrgKeepsInv, RaisesKeepsInv DEF Step, DatasetStep
<1>4. CASE UNCHANGED vars
    <2>1. UNCHANGED <<fgaVars, crmVars, job>>
        BY <1>4 DEF vars, fgaVars, crmVars
    <2> QED  BY <2>1, FgaStays, SlotsStay, Assemble
<1> QED  BY <1>1, <1>2, <1>3, <1>4 DEF Next

\* The invariant holds of every reachable state, whatever is interleaved,
\* fails or stops, and whatever other requests do to the roles meanwhile.
THEOREM Invariant == Spec => []IndInv
BY InitInv, NextInv, PTL DEF Spec

\* The records, the roles and the handlers keep their types.
THEOREM TypeCorrect == Spec => []TypeOK
<1>1. IndInv => TypeOK  BY DEF IndInv
<1> QED  BY <1>1, Invariant, PTL

-----------------------------------------------------------------------------
(* Who changes datasets.                                                   *)

\* The steps that change the datasets.
LEMMA DatasetsChange ==
    ASSUME [Next]_vars
    PROVE  \/ UNCHANGED datasets
           \/ \E s \in Slots :
                \/ CreateDatasetWrite(s) \/ UpdateDatasetWrite(s) \/ DeleteDatasetWrite(s)
                \/ DeleteOrgDataset(s)
<1>1. CASE UNCHANGED vars \/ Crash \/ RoleChange
    BY <1>1 DEF vars, crmVars, Crash, RoleChange
<1>2. ASSUME NEW s \in Slots, Receive(s)
      PROVE  UNCHANGED datasets
    BY <1>2 DEF Receive, ReceiveCreateDataset, ReceiveUpdateDataset, ReceiveDeleteDataset,
       ReceiveUpdateOrg, ReceiveDeleteOrg, Accept, crmVars
<1>3. ASSUME NEW s \in Slots, DatasetStep(s)
      PROVE  UNCHANGED datasets \/ CreateDatasetWrite(s) \/ UpdateDatasetWrite(s) \/ DeleteDatasetWrite(s)
    BY <1>3 DEF DatasetStep, CreateDatasetCheck, UpdateDatasetCheck, UpdateDatasetReadName,
       DeleteDatasetCheck, crmVars
<1>4. ASSUME NEW s \in Slots, DeleteOrgStep(s)
      PROVE  UNCHANGED datasets \/ DeleteOrgDataset(s)
    BY <1>4 DEF DeleteOrgStep, DeleteOrgCheck, DeleteOrgDelist, DeleteOrgRoles, DeleteOrgList,
       DeleteOrgEnds, DeleteOrgUndo, Delist, Approve, crmVars
<1>5. ASSUME NEW s \in Slots, CallRaises(s) \/ UpdateOrgStep(s)
      PROVE  UNCHANGED datasets
    BY <1>5 DEF CallRaises, UpdateOrgStep, UpdateOrgCheck, UpdateOrgWrite, UpdateOrg, crmVars
<1> QED  BY <1>1, <1>2, <1>3, <1>4, <1>5 DEF Next, Step

\* The write of a handler that acts on a record changes that record only, and
\* it is one of the organisation the handler was checked for.
LEMMA WriteByAuthority ==
    ASSUME IndInv, NEW s \in Slots, job[s].pc \notin {"idle", "check"},
           NEW i, NEW j, WithId(j)' # WithId(j), ActsOn(job[s], i),
           \/ KeepsOwners
           \/ \A d \in datasets' \ datasets : d.owner = job[s].org,
           WithId(j)' # WithId(j) => j = i
    PROVE  \A o \in Owners(j) \cup Owners(j)' : Granted(job[s], o, Needed(job[s].op))
<1>1. SoundJob(s) /\ job[s] # Idle
    BY BusySlot DEF Idle
<1>2. \A d \in WithId(j) : d.owner = job[s].org
    BY <1>1 DEF SoundJob, SoundOwner, WithId
<1>3. \A d \in WithId(j)' : d.owner = job[s].org
    BY <1>2 DEF KeepsOwners, WithId
<1>4. \A o \in Owners(j) \cup Owners(j)' : o = job[s].org
    BY <1>2, <1>3 DEF Owners
<1> QED  BY <1>1, <1>4 DEF SoundJob, SoundCheck

LEMMA DatasetChangeStep ==
    ASSUME IndInv, [Next]_vars, NEW j \in DatasetIds, WithId(j)' # WithId(j)
    PROVE  \E s \in Slots :
                /\ Writes(s, j)
                /\ \A o \in Owners(j) \cup Owners(j)' : Granted(job[s], o, Needed(job[s].op))
<1>1. ~UNCHANGED datasets
    BY DEF WithId
<1>2. ASSUME NEW s \in Slots, CreateDatasetWrite(s)
      PROVE  /\ Writes(s, j)
             /\ \A o \in Owners(j) \cup Owners(j)' : Granted(job[s], o, Needed(job[s].op))
    <2>1. /\ job[s].op = "create_dataset" /\ job[s].pc = "write" /\ job[s] # Idle
        BY <1>2, UnderWay DEF CreateDatasetWrite
    <2>2. datasets' = datasets \cup {[id |-> job[s].dataset, owner |-> job[s].org,
                                      name |-> job[s].name, visibility |-> job[s].visibility]}
        BY <1>2 DEF CreateDatasetWrite, CreateDataset
    <2>3. ActsOn(job[s], job[s].dataset)
        BY <2>1 DEF ActsOn
    <2>4. j = job[s].dataset /\ \A d \in datasets' \ datasets : d.owner = job[s].org
        BY <2>2 DEF WithId
    <2> QED  BY <2>1, <2>3, <2>4, WriteByAuthority DEF Writes, At
<1>3. ASSUME NEW s \in Slots, UpdateDatasetWrite(s)
      PROVE  /\ Writes(s, j)
             /\ \A o \in Owners(j) \cup Owners(j)' : Granted(job[s], o, Needed(job[s].op))
    <2>1. /\ job[s].op = "update_dataset" /\ job[s].pc = "write" /\ job[s] # Idle
          /\ job[s].dataset \in DatasetIds /\ job[s].name \in DatasetNames
          /\ job[s].visibility \in Visibilities \cup {"NONE"}
        BY <1>3, UnderWay DEF UpdateDatasetWrite, SoundJob, SoundFields, Job
    <2>2. KeepsOwners
        BY <1>3, <2>1, UpdateWrites DEF UpdateDatasetWrite
    <2>3. ActsOn(job[s], job[s].dataset)
        BY <2>1 DEF ActsOn
    <2>4. j = job[s].dataset
        <3>1. datasets \subseteq Datasets
            BY DEF IndInv, TypeOK, CrmTypeOK
        <3>2. j # job[s].dataset => WithId(j)' = WithId(j)
            BY <1>3, <3>1 DEF UpdateDatasetWrite, UpdateDataset, WithId, Datasets
        <3> QED  BY <3>2
    <2> QED  BY <2>1, <2>2, <2>3, <2>4, WriteByAuthority DEF Writes, At
<1>4. ASSUME NEW s \in Slots, DeleteDatasetWrite(s)
      PROVE  /\ Writes(s, j)
             /\ \A o \in Owners(j) \cup Owners(j)' : Granted(job[s], o, Needed(job[s].op))
    <2>1. job[s].op = "delete_dataset" /\ job[s].pc = "write" /\ job[s] # Idle
        BY <1>4, UnderWay DEF DeleteDatasetWrite
    <2>2. KeepsOwners
        BY <1>4, DeleteWrites DEF DeleteDatasetWrite
    <2>3. ActsOn(job[s], job[s].dataset)
        BY <2>1 DEF ActsOn
    <2>4. j = job[s].dataset
        BY <1>4 DEF DeleteDatasetWrite, DeleteDataset, WithId
    <2> QED  BY <2>1, <2>2, <2>3, <2>4, WriteByAuthority DEF Writes, At
<1>5. ASSUME NEW s \in Slots, DeleteOrgDataset(s)
      PROVE  /\ Writes(s, j)
             /\ \A o \in Owners(j) \cup Owners(j)' : Granted(job[s], o, Needed(job[s].op))
    <2>1. job[s].op = "delete_org" /\ job[s].pc = "delete" /\ job[s] # Idle
        BY <1>5, UnderWay DEF DeleteOrgDataset
    <2>2. PICK i \in job[s].pending : DeleteDataset(i)
        BY <1>1, <1>5 DEF DeleteOrgDataset, crmVars
    <2>3. KeepsOwners
        BY <2>2, DeleteWrites
    <2>4. ActsOn(job[s], i)
        BY <2>1 DEF ActsOn
    <2>5. j = i
        BY <2>2 DEF DeleteDataset, WithId
    <2> QED  BY <2>1, <2>3, <2>4, <2>5, WriteByAuthority DEF Writes, At
<1> QED  BY <1>1, <1>2, <1>3, <1>4, <1>5, DatasetsChange

\* Every change of a dataset is one its owner gave the caller the permission
\* for: the owner read before the check is the owner of what is written, with
\* any number of requests creating, changing and deleting datasets in between.
THEOREM DatasetsChangeByAuthority == Spec => DatasetsByAuthority
<1>1. IndInv /\ [Next]_vars =>
        [\A i \in DatasetIds :
            WithId(i)' # WithId(i) =>
                \E s \in Slots :
                    /\ Writes(s, i)
                    /\ \A o \in Owners(i) \cup Owners(i)' : Granted(job[s], o, Needed(job[s].op))]_vars
    BY DatasetChangeStep
<1> QED  BY <1>1, Invariant, PTL DEF Spec, DatasetsByAuthority

-----------------------------------------------------------------------------
(* What a deletion has hidden.                                             *)

LEMMA HiddenStep == [Next]_vars => discoverable' \subseteq discoverable
<1> SUFFICES ASSUME [Next]_vars PROVE discoverable' \subseteq discoverable  OBVIOUS
<1>1. CASE UNCHANGED vars \/ Crash \/ RoleChange
    BY <1>1 DEF vars, crmVars, Crash, RoleChange
<1>2. ASSUME NEW s \in Slots, Receive(s)
      PROVE  UNCHANGED discoverable
    BY <1>2 DEF Receive, ReceiveCreateDataset, ReceiveUpdateDataset, ReceiveDeleteDataset,
       ReceiveUpdateOrg, ReceiveDeleteOrg, Accept, crmVars
<1>3. ASSUME NEW s \in Slots, DatasetStep(s)
      PROVE  UNCHANGED discoverable
    BY <1>3 DEF DatasetStep, CreateDatasetCheck, CreateDatasetWrite, UpdateDatasetCheck,
       UpdateDatasetReadName, UpdateDatasetWrite, DeleteDatasetCheck, DeleteDatasetWrite,
       CreateDataset, UpdateDataset, DeleteDataset, crmVars
<1>4. ASSUME NEW s \in Slots, DeleteOrgStep(s)
      PROVE  discoverable' \subseteq discoverable
    BY <1>4 DEF DeleteOrgStep, DeleteOrgCheck, DeleteOrgDelist, DeleteOrgRoles, DeleteOrgList,
       DeleteOrgDataset, DeleteOrgEnds, DeleteOrgUndo, Delist, Approve, DeleteDataset, crmVars
<1>5. ASSUME NEW s \in Slots, CallRaises(s) \/ UpdateOrgStep(s)
      PROVE  UNCHANGED discoverable
    BY <1>5 DEF CallRaises, UpdateOrgStep, UpdateOrgCheck, UpdateOrgWrite, UpdateOrg, crmVars
<1> QED  BY <1>1, <1>2, <1>3, <1>4, <1>5 DEF Next, Step

-----------------------------------------------------------------------------
(* A handler finds a name free, reads the visibility of a record, or lists *)
(* the datasets of an organisation, and writes in a later call.  What it   *)
(* found is still so unless another request does the very same.            *)

NameFree(r) ==
    /\ r.op = "create_dataset" /\ r.pc = "write" => ~NameInUse(r.name)
    /\ r.op = "update_dataset" /\ r.pc = "write" =>
        \A d \in datasets : d.name = r.name => d.id = r.dataset

RecordAsRead(r) ==
    r.op = "update_dataset" /\ r.pc # "check" => WithId(r.dataset) \subseteq r.found

AllListed(r) ==
    r.op = "delete_org" /\ r.pc = "delete" => OwnedBy(r.org) \subseteq r.pending

\* What a handler's own step leaves it with.
OwnStep(s) ==
    job'[s] # Idle =>
        /\ DatasetNamesUnique => NameFree(job[s])'
        /\ (job[s] # Idle => RecordAsRead(job[s])) => RecordAsRead(job[s])'

LEMMA AnswerOwn ==
    ASSUME IndInv, NEW s \in Slots, Answer(s)
    PROVE  OwnStep(s)
BY DEF Answer, OwnStep, IndInv, TypeOK, JobsTypeOK

\* The other operations rely on neither.
LEMMA OtherOwn ==
    ASSUME NEW s \in Slots, job'[s].op \notin {"create_dataset", "update_dataset"}
    PROVE  OwnStep(s)
BY DEF OwnStep, NameFree, RecordAsRead

LEMMA ReceiveOwn ==
    ASSUME IndInv, NEW s \in Slots, Receive(s)
    PROVE  OwnStep(s)
<1>1. ASSUME NEW r, r.pc = "check", NEW u, Accept(s, u, r)
      PROVE  OwnStep(s)
    <2>1. job'[s] = r
        BY <1>1 DEF Accept, IndInv, TypeOK, JobsTypeOK
    <2> QED  BY <1>1, <2>1 DEF OwnStep, NameFree, RecordAsRead
<1> QED
    BY <1>1 DEF Receive, ReceiveCreateDataset, ReceiveUpdateDataset, ReceiveDeleteDataset,
       ReceiveUpdateOrg, ReceiveDeleteOrg, Arrival

LEMMA DatasetStepOwn ==
    ASSUME IndInv, NEW s \in Slots, DatasetStep(s)
    PROVE  OwnStep(s)
<1>1. CASE CreateDatasetWrite(s) \/ UpdateDatasetWrite(s) \/ DeleteDatasetWrite(s)
    BY <1>1, AnswerOwn DEF CreateDatasetWrite, UpdateDatasetWrite, DeleteDatasetWrite
<1>2. CASE CreateDatasetCheck(s)
    <2>1. UNCHANGED datasets /\ job[s] \in Job /\ job[s].op = "create_dataset"
        BY <1>2, UnderWay DEF CreateDatasetCheck, crmVars
    <2>2. CASE Goto(s, "write") /\ MayCreateDataset(job[s])
        <3>1. job'[s] = [job[s] EXCEPT !.pc = "write"]
            BY <2>2 DEF Goto, IndInv, TypeOK, JobsTypeOK
        <3>2. /\ job'[s].op = "create_dataset" /\ job'[s].name = job[s].name
            BY <2>1, <3>1 DEF Job
        <3> QED
            BY <2>1, <2>2, <3>2 DEF OwnStep, NameFree, RecordAsRead, MayCreateDataset, NameInUse
    <2> QED  BY <1>2, <2>2, AnswerOwn DEF CreateDatasetCheck
<1>3. CASE UpdateDatasetCheck(s)
    <2>1. UNCHANGED datasets /\ job[s] \in Job /\ job[s].op = "update_dataset"
        BY <1>3, UnderWay DEF UpdateDatasetCheck, crmVars
    <2>2. ASSUME NEW d \in WithId(job[s].dataset),
                 job' = [job EXCEPT ![s].pc = IF d.name = job[s].name THEN "write" ELSE "read_name",
                                    ![s].org = d.owner,
                                    ![s].found = {d}]
          PROVE  OwnStep(s)
        <3> DEFINE label == IF d.name = job[s].name THEN "write" ELSE "read_name"
        <3>1. job'[s] = [job[s] EXCEPT !.pc = label, !.org = d.owner, !.found = {d}]
            BY <2>2 DEF IndInv, TypeOK, JobsTypeOK
        <3>2. /\ job'[s].op = "update_dataset" /\ job'[s].name = job[s].name
              /\ job'[s].dataset = job[s].dataset /\ job'[s].found = {d} /\ job'[s].pc = label
            BY <2>1, <3>1 DEF Job
        <3>3. \A e \in WithId(job[s].dataset) : e = d
            BY DEF IndInv, IdsUnique, WithId
        <3>4. RecordAsRead(job[s])'
            BY <2>1, <3>2, <3>3 DEF RecordAsRead, WithId
        <3>5. DatasetNamesUnique /\ label = "write" =>
                \A e \in datasets : e.name = job[s].name => e.id = job[s].dataset
            BY DEF DatasetNamesUnique, WithId
        <3>6. DatasetNamesUnique => NameFree(job[s])'
            BY <2>1, <3>2, <3>5 DEF NameFree
        <3> QED  BY <3>4, <3>6 DEF OwnStep
    <2> QED  BY <1>3, <2>2, AnswerOwn DEF UpdateDatasetCheck
<1>4. CASE UpdateDatasetReadName(s)
    <2>1. /\ UNCHANGED datasets /\ job[s] \in Job /\ job[s] # Idle
          /\ job[s].op = "update_dataset" /\ job[s].pc = "read_name"
        BY <1>4, UnderWay DEF UpdateDatasetReadName, crmVars
    <2>2. CASE Goto(s, "write") /\ ~NameInUse(job[s].name)
        <3>1. job'[s] = [job[s] EXCEPT !.pc = "write"]
            BY <2>2 DEF Goto, IndInv, TypeOK, JobsTypeOK
        <3>2. /\ job'[s].op = "update_dataset" /\ job'[s].name = job[s].name
              /\ job'[s].dataset = job[s].dataset /\ job'[s].found = job[s].found
            BY <2>1, <3>1 DEF Job
        <3> QED  BY <2>1, <2>2, <3>2 DEF OwnStep, NameFree, RecordAsRead, NameInUse, WithId
    <2> QED  BY <1>4, <2>2, AnswerOwn DEF UpdateDatasetReadName
<1>5. CASE DeleteDatasetCheck(s)
    <2>1. job[s] \in Job /\ job[s].op = "delete_dataset"
        BY <1>5, UnderWay DEF DeleteDatasetCheck
    <2>2. ASSUME NEW d, job' = [job EXCEPT ![s].pc = "write", ![s].org = d.owner]
          PROVE  OwnStep(s)
        <3>1. job'[s] = [job[s] EXCEPT !.pc = "write", !.org = d.owner]
            BY <2>2 DEF IndInv, TypeOK, JobsTypeOK
        <3>2. job'[s].op = "delete_dataset"
            BY <2>1, <3>1 DEF Job
        <3> QED  BY <3>2, OtherOwn
    <2> QED  BY <1>5, <2>2, AnswerOwn DEF DeleteDatasetCheck
<1> QED  BY <1>1, <1>2, <1>3, <1>4, <1>5 DEF DatasetStep

\* The deletion of an organisation stays what it is.
LEMMA StaysDeletion ==
    ASSUME IndInv, NEW s \in Slots, DeleteOrgStep(s)
    PROVE  /\ job[s] \in Job /\ job[s].op = "delete_org" /\ job[s] # Idle
           /\ ~Answer(s) => job'[s].op = "delete_org" /\ job'[s].org = job[s].org
<1>1. job[s] \in Job /\ job[s].op = "delete_org" /\ job[s] # Idle
    BY UnderWay DEF DeleteOrgStep, DeleteOrgCheck, DeleteOrgDelist, DeleteOrgRoles,
       DeleteOrgList, DeleteOrgDataset, DeleteOrgEnds, DeleteOrgUndo
<1>2. ~Answer(s) => job'[s].op = job[s].op /\ job'[s].org = job[s].org
    BY <1>1 DEF DeleteOrgStep, DeleteOrgCheck, DeleteOrgDelist, DeleteOrgRoles,
       DeleteOrgList, DeleteOrgDataset, DeleteOrgEnds, DeleteOrgUndo, Goto, Fail, IndInv,
       TypeOK, JobsTypeOK, Job
<1> QED  BY <1>1, <1>2

LEMMA OrgStepOwn ==
    ASSUME IndInv, NEW s \in Slots, UpdateOrgStep(s) \/ DeleteOrgStep(s) \/ CallRaises(s)
    PROVE  OwnStep(s)
<1>1. CASE CallRaises(s) \/ Answer(s)
    BY <1>1, AnswerOwn DEF CallRaises
<1>2. CASE UpdateOrgStep(s) /\ ~Answer(s)
    <2>1. Goto(s, "write") /\ job[s] \in Job /\ job[s].op = "update_org"
        BY <1>2, UnderWay DEF UpdateOrgStep, UpdateOrgCheck, UpdateOrgWrite
    <2>2. job'[s] = [job[s] EXCEPT !.pc = "write"]
        BY <2>1 DEF Goto, IndInv, TypeOK, JobsTypeOK
    <2>3. job'[s].op = "update_org"
        BY <2>1, <2>2 DEF Job
    <2> QED  BY <2>3, OtherOwn
<1>3. CASE DeleteOrgStep(s) /\ ~Answer(s)
    BY <1>3, StaysDeletion, OtherOwn
<1> QED  BY <1>1, <1>2, <1>3

LEMMA StepOwn ==
    ASSUME IndInv, NEW s \in Slots, Receive(s) \/ Step(s)
    PROVE  OwnStep(s)
BY ReceiveOwn, DatasetStepOwn, OrgStepOwn DEF Step

LEMMA OneJob ==
    ASSUME IndInv, NEW s \in Slots, Receive(s) \/ Step(s), NEW t \in Slots, t # s
    PROVE  job'[t] = job[t]
<1> USE DEF Goto, Answer, Fail, IndInv, TypeOK, JobsTypeOK
<1>1. Receive(s) => job'[t] = job[t]
    BY DEF Receive, ReceiveCreateDataset, ReceiveUpdateDataset, ReceiveDeleteDataset,
       ReceiveUpdateOrg, ReceiveDeleteOrg, Accept
<1>2. DatasetStep(s) => job'[t] = job[t]
    BY DEF DatasetStep, CreateDatasetCheck, CreateDatasetWrite, UpdateDatasetCheck,
       UpdateDatasetReadName, UpdateDatasetWrite, DeleteDatasetCheck, DeleteDatasetWrite
<1>3. UpdateOrgStep(s) \/ CallRaises(s) => job'[t] = job[t]
    BY DEF UpdateOrgStep, UpdateOrgCheck, UpdateOrgWrite, CallRaises
<1>4. DeleteOrgStep(s) => job'[t] = job[t]
    BY DEF DeleteOrgStep, DeleteOrgCheck, DeleteOrgDelist, DeleteOrgRoles, DeleteOrgList,
       DeleteOrgDataset, DeleteOrgEnds, DeleteOrgUndo
<1> QED  BY <1>1, <1>2, <1>3, <1>4 DEF Step

\* The records after a step of s: fewer, or with one that s makes, or with the
\* one that s updates, which keeps its owner.
LEMMA RecordsAfter ==
    ASSUME IndInv, NEW s \in Slots, Receive(s) \/ Step(s)
    PROVE  \/ datasets' \subseteq datasets
           \/ /\ CreateDatasetWrite(s)
              /\ \A e \in datasets' :
                    \/ e \in datasets
                    \/ /\ e.id = job[s].dataset
                       /\ e.name = job[s].name
                       /\ e.owner = job[s].org
           \/ /\ UpdateDatasetWrite(s)
              /\ \A e \in datasets' :
                    \/ e \in datasets
                    \/ /\ e.id = job[s].dataset
                       /\ e.name = job[s].name
                       /\ \E d \in datasets : d.id = e.id /\ d.owner = e.owner
<1>1. CASE CreateDatasetWrite(s)
    <2> DEFINE n == [id |-> job[s].dataset, owner |-> job[s].org,
                     name |-> job[s].name, visibility |-> job[s].visibility]
    <2>1. datasets' = datasets \cup {n}
        BY <1>1 DEF CreateDatasetWrite, CreateDataset
    <2>2. n.id = job[s].dataset /\ n.name = job[s].name /\ n.owner = job[s].org
        OBVIOUS
    <2> HIDE DEF n
    <2> QED  BY <1>1, <2>1, <2>2
<1>2. CASE UpdateDatasetWrite(s)
    <2> DEFINE i == job[s].dataset
               n == job[s].name
               v == job[s].visibility
               Updated(d) ==
                    IF d.id # i THEN d
                    ELSE IF v = "NONE" THEN [d EXCEPT !.name = n]
                         ELSE [d EXCEPT !.name = n, !.visibility = v]
    <2>1. \A d \in datasets :
            \/ Updated(d) = d
            \/ Updated(d).id = i /\ Updated(d).name = n /\ d.id = i /\ Updated(d).owner = d.owner
        BY DEF IndInv, TypeOK, CrmTypeOK, Datasets
    <2>2. datasets' = {Updated(d) : d \in datasets}
        BY <1>2 DEF UpdateDatasetWrite, UpdateDataset
    <2> HIDE DEF Updated
    <2> QED  BY <1>2, <2>1, <2>2
<1>3. CASE ~CreateDatasetWrite(s) /\ ~UpdateDatasetWrite(s)
    BY <1>3 DEF Receive, ReceiveCreateDataset, ReceiveUpdateDataset, ReceiveDeleteDataset,
       ReceiveUpdateOrg, ReceiveDeleteOrg, Accept, Step, DatasetStep, CreateDatasetCheck,
       UpdateDatasetCheck, UpdateDatasetReadName, DeleteDatasetCheck, DeleteDatasetWrite,
       UpdateOrgStep, UpdateOrgCheck, UpdateOrgWrite, UpdateOrg, CallRaises, DeleteOrgStep,
       DeleteOrgCheck, DeleteOrgDelist, DeleteOrgRoles, DeleteOrgList, DeleteOrgDataset,
       DeleteOrgEnds, DeleteOrgUndo, Delist, Approve, DeleteDataset, crmVars
<1> QED  BY <1>1, <1>2, <1>3

-----------------------------------------------------------------------------
(* Short names, while no two requests are about to write the same one.     *)

NamesInv ==
    /\ DatasetNamesUnique
    /\ \A s \in Slots : job[s] # Idle => NameFree(job[s])

\* A record made under a name that is free, or given one that no other has.
LEMMA NameGiven ==
    ASSUME IndInv, DatasetNamesUnique, NEW s \in Slots,
           CreateDatasetWrite(s) \/ UpdateDatasetWrite(s), NameFree(job[s])
    PROVE  DatasetNamesUnique'
<1>1. CASE CreateDatasetWrite(s)
    <2>1. NameFree(job[s]) /\ job[s].op = "create_dataset" /\ job[s].pc = "write"
        BY <1>1, UnderWay DEF CreateDatasetWrite
    <2>2. \A d \in datasets : d.name # job[s].name
        BY <2>1 DEF NameFree, NameInUse
    <2>3. datasets' = datasets \cup {[id |-> job[s].dataset, owner |-> job[s].org,
                                      name |-> job[s].name, visibility |-> job[s].visibility]}
        BY <1>1 DEF CreateDatasetWrite, CreateDataset
    <2> QED  BY <2>2, <2>3 DEF DatasetNamesUnique
<1>2. CASE UpdateDatasetWrite(s)
    <2> DEFINE i == job[s].dataset
               n == job[s].name
               v == job[s].visibility
               Updated(d) ==
                    IF d.id # i THEN d
                    ELSE IF v = "NONE" THEN [d EXCEPT !.name = n]
                         ELSE [d EXCEPT !.name = n, !.visibility = v]
    <2>1. NameFree(job[s]) /\ job[s].op = "update_dataset" /\ job[s].pc = "write"
        BY <1>2, UnderWay DEF UpdateDatasetWrite
    <2>2. \A d \in datasets : d.name = n => d.id = i
        BY <2>1 DEF NameFree
    <2>3. \A d \in datasets : /\ d.id # i => Updated(d) = d
                             /\ d.id = i => Updated(d).name = n
        BY DEF IndInv, TypeOK, CrmTypeOK, Datasets
    <2>4. datasets' = {Updated(d) : d \in datasets}
        BY <1>2 DEF UpdateDatasetWrite, UpdateDataset
    <2>5. ASSUME NEW d \in datasets, NEW e \in datasets, Updated(d).name = Updated(e).name
          PROVE  d = e
        <3>1. CASE d.id = i /\ e.id = i
            BY <3>1 DEF IndInv, IdsUnique
        <3>2. CASE d.id # i /\ e.id # i
            BY <2>3, <2>5, <3>2 DEF DatasetNamesUnique
        <3>3. CASE (d.id = i) # (e.id = i)
            BY <2>2, <2>3, <2>5, <3>3
        <3> QED  BY <3>1, <3>2, <3>3
    <2> HIDE DEF Updated
    <2> QED  BY <2>4, <2>5 DEF DatasetNamesUnique
<1> QED  BY <1>1, <1>2

LEMMA NamesStay ==
    ASSUME DatasetNamesUnique, datasets' \subseteq datasets
    PROVE  DatasetNamesUnique'
BY DEF DatasetNamesUnique

\* The name another request found free, while s writes another name.
LEMMA StaysFree ==
    ASSUME IndInv, NamesApart, NEW s \in Slots, Receive(s) \/ Step(s),
           NEW t \in Slots, t # s, job[t] # Idle, NameFree(job[t])
    PROVE  NameFree(job[t])'
<1>1. job'[t] = job[t]
    BY OneJob
<1>2. CASE datasets' \subseteq datasets
    BY <1>1, <1>2 DEF NameFree, NameInUse
<1>3. CASE CreateDatasetWrite(s) \/ UpdateDatasetWrite(s)
    <2>1. \A e \in datasets' : e \in datasets \/ e.name = job[s].name
        BY RecordsAfter
    <2>2. Naming(t) => job[t].name # job[s].name
        BY <1>3 DEF NamesApart, Naming, CreateDatasetWrite, UpdateDatasetWrite, At
    <2> QED  BY <1>1, <2>1, <2>2 DEF NameFree, NameInUse, Naming
<1> QED  BY <1>2, <1>3, RecordsAfter

LEMMA NextNames ==
    ASSUME IndInv, NamesApart, NamesInv, [Next]_vars
    PROVE  NamesInv'
<1>1. CASE RoleChange \/ UNCHANGED vars
    <2>1. UNCHANGED <<datasets, job>>
        BY <1>1 DEF RoleChange, vars, crmVars
    <2> QED  BY <2>1 DEF NamesInv, DatasetNamesUnique, NameFree, NameInUse
<1>2. CASE Crash
    <2>1. datasets' = datasets /\ \A s \in Slots : job'[s] = Idle
        BY <1>2 DEF Crash, crmVars
    <2> QED  BY <2>1 DEF NamesInv, DatasetNamesUnique
<1>3. ASSUME NEW s \in Slots, Receive(s) \/ Step(s)
      PROVE  NamesInv'
    <2>1. DatasetNamesUnique'
        <3>1. CASE CreateDatasetWrite(s) \/ UpdateDatasetWrite(s)
            <4>1. job[s] # Idle
                BY <3>1, UnderWay DEF CreateDatasetWrite, UpdateDatasetWrite
            <4> QED  BY <3>1, <4>1, NameGiven DEF NamesInv
        <3> QED  BY <1>3, <3>1, RecordsAfter, NamesStay DEF NamesInv
    <2>2. job'[s] # Idle => NameFree(job[s])'
        BY <1>3, StepOwn DEF OwnStep, NamesInv
    <2>3. \A t \in Slots : t # s /\ job'[t] # Idle => NameFree(job[t])'
        BY <1>3, OneJob, StaysFree DEF NamesInv
    <2> QED  BY <2>1, <2>2, <2>3 DEF NamesInv
<1> QED  BY <1>1, <1>2, <1>3 DEF Next

\* No two datasets get one short name, whatever fails, while no two requests
\* are about to write the same: a name that was found free is still free when
\* it is written.
THEOREM DatasetNamesStayUnique == Spec /\ []NamesApart => []DatasetNamesUnique
<1>1. Init => NamesInv
    BY DEF Init, NamesInv, DatasetNamesUnique
<1>2. IndInv /\ NamesApart /\ NamesInv /\ [Next]_vars => NamesInv'
    BY NextNames
<1>3. NamesInv => DatasetNamesUnique
    BY DEF NamesInv
<1> QED  BY <1>1, <1>2, <1>3, Invariant, PTL DEF Spec

-----------------------------------------------------------------------------
(* Visibility, while no two requests update one dataset.                   *)

ReadInv == \A s \in Slots : job[s] # Idle => RecordAsRead(job[s])

LEMMA StaysAsRead ==
    ASSUME IndInv, UpdatesApart, NEW s \in Slots, Receive(s) \/ Step(s),
           NEW t \in Slots, t # s, job[t] # Idle, RecordAsRead(job[t])
    PROVE  RecordAsRead(job[t])'
<1> SUFFICES ASSUME job[t].op = "update_dataset", job[t].pc # "check"
             PROVE  WithId(job[t].dataset)' \subseteq job[t].found
    BY OneJob DEF RecordAsRead
<1>1. job'[t] = job[t]
    BY OneJob
<1>2. WithId(job[t].dataset) \subseteq job[t].found
    BY DEF RecordAsRead
<1>3. CASE datasets' \subseteq datasets
    BY <1>1, <1>2, <1>3 DEF WithId
<1>4. ASSUME \A e \in datasets' : e \in datasets \/ e.id = job[s].dataset,
             job[s].dataset # job[t].dataset
      PROVE  WithId(job[t].dataset)' \subseteq job[t].found
    BY <1>1, <1>2, <1>4 DEF WithId
<1>5. CASE CreateDatasetWrite(s)
    <2>1. Reserved(s, job[s].dataset)
        BY <1>5, UnderWay DEF CreateDatasetWrite, SoundJob
    <2>2. job[s].dataset # job[t].dataset
        BY <2>1 DEF Reserved, ActsOn
    <2> QED  BY <1>4, <1>5, <2>2, RecordsAfter
<1>6. CASE UpdateDatasetWrite(s)
    <2>1. Updating(t)
        BY DEF Updating
    <2>2. job[s].dataset # job[t].dataset
        BY <1>6, <2>1, UnderWay DEF UpdatesApart, Updating, UpdateDatasetWrite, At
    <2> QED  BY <1>4, <1>6, <2>2, RecordsAfter
<1> QED  BY <1>3, <1>5, <1>6, RecordsAfter

LEMMA NextRead ==
    ASSUME IndInv, UpdatesApart, ReadInv, [Next]_vars
    PROVE  ReadInv'
<1>1. CASE RoleChange \/ UNCHANGED vars
    <2>1. UNCHANGED <<datasets, job>>
        BY <1>1 DEF RoleChange, vars, crmVars
    <2> QED  BY <2>1 DEF ReadInv, RecordAsRead, WithId
<1>2. CASE Crash
    BY <1>2 DEF Crash, ReadInv
<1>3. ASSUME NEW s \in Slots, Receive(s) \/ Step(s)
      PROVE  ReadInv'
    <2>1. job'[s] # Idle => RecordAsRead(job[s])'
        BY <1>3, StepOwn DEF OwnStep, ReadInv
    <2>2. \A t \in Slots : t # s /\ job'[t] # Idle => RecordAsRead(job[t])'
        BY <1>3, OneJob, StaysAsRead DEF ReadInv
    <2> QED  BY <2>1, <2>2 DEF ReadInv
<1> QED  BY <1>1, <1>2, <1>3 DEF Next

LEMMA VisibilityStep ==
    ASSUME IndInv, ReadInv, [Next]_vars, NEW d \in datasets, NEW e \in datasets',
           d.id = e.id, d.visibility # e.visibility
    PROVE  \E s \in Slots :
                /\ At(s, "update_dataset", "write")
                /\ job[s].dataset = d.id
                /\ Granted(job[s], d.owner, "update-dataset-visibility")
<1>1. ~(datasets' \subseteq datasets)
    BY DEF IndInv, IdsUnique
<1>2. \A s \in Slots : ~DeleteDatasetWrite(s) /\ ~DeleteOrgDataset(s)
    BY <1>1 DEF DeleteDatasetWrite, DeleteOrgDataset, DeleteDataset, crmVars
<1>3. PICK s \in Slots : CreateDatasetWrite(s) \/ UpdateDatasetWrite(s)
    BY <1>1, <1>2, DatasetsChange
<1>4. ~CreateDatasetWrite(s)
    <2> SUFFICES ASSUME CreateDatasetWrite(s) PROVE FALSE  OBVIOUS
    <2>1. SoundJob(s) /\ job[s].op = "create_dataset"
        BY UnderWay DEF CreateDatasetWrite
    <2>2. \A x \in datasets : x.id # job[s].dataset
        BY <2>1 DEF SoundJob, Reserved, WithId
    <2>3. e \in datasets \/ e.id = job[s].dataset
        BY DEF CreateDatasetWrite, CreateDataset
    <2> QED  BY <2>2, <2>3 DEF IndInv, IdsUnique
<1>5. /\ job[s].op = "update_dataset" /\ job[s].pc = "write" /\ job[s] # Idle
      /\ SoundJob(s) /\ RecordAsRead(job[s])
    BY <1>3, <1>4, UnderWay DEF UpdateDatasetWrite, ReadInv
<1> DEFINE i == job[s].dataset
           n == job[s].name
           v == job[s].visibility
<1>6. PICK x \in datasets :
        e = IF x.id # i THEN x
            ELSE IF v = "NONE" THEN [x EXCEPT !.name = n]
                 ELSE [x EXCEPT !.name = n, !.visibility = v]
    BY <1>3, <1>4 DEF UpdateDatasetWrite, UpdateDataset
<1>7. x \in Datasets
    BY DEF IndInv, TypeOK, CrmTypeOK
<1>8. x.id = e.id
    BY <1>6, <1>7 DEF Datasets
<1>9. x = d
    BY <1>8 DEF IndInv, IdsUnique
<1>10. d.id = i /\ v # "NONE" /\ v # d.visibility
    BY <1>6, <1>7, <1>9 DEF Datasets
<1>11. d \in job[s].found
    BY <1>5, <1>10 DEF RecordAsRead, WithId
<1>12. Granted(job[s], d.owner, "update-dataset-visibility")
    BY <1>5, <1>10, <1>11 DEF SoundJob, SoundCheck, MaySetVisibility
<1> QED  BY <1>5, <1>10, <1>12 DEF At

\* A visibility changes only at the hand of who may, while no two requests
\* update one dataset: the one it was compared with is still the record's.
THEOREM VisibilityChangesByAuthority == Spec /\ []UpdatesApart => VisibilityByAuthority
<1>1. Init => ReadInv
    BY DEF Init, ReadInv
<1>2. IndInv /\ UpdatesApart /\ ReadInv /\ [Next]_vars => ReadInv'
    BY NextRead
<1>3. IndInv /\ ReadInv /\ [Next]_vars =>
        [\A d \in datasets, e \in datasets' :
            d.id = e.id /\ d.visibility # e.visibility =>
                \E s \in Slots :
                    /\ At(s, "update_dataset", "write")
                    /\ job[s].dataset = d.id
                    /\ Granted(job[s], d.owner, "update-dataset-visibility")]_vars
    BY VisibilityStep
<1> QED  BY <1>1, <1>2, <1>3, Invariant, PTL DEF Spec, VisibilityByAuthority

-----------------------------------------------------------------------------
(* What is gone with an organisation.                                      *)

\* From the delisting on, the organisation can not be found.
Hidden(r) == r.op = "delete_org" /\ r.pc \in {"delete_roles", "list", "delete"} => r.org \notin discoverable

DeletionInv == \A s \in Slots : job[s] # Idle => Hidden(job[s]) /\ AllListed(job[s])

LEMMA StaysListed ==
    ASSUME IndInv, DeletionsApart, NEW s \in Slots, Receive(s) \/ Step(s),
           NEW t \in Slots, t # s, job[t] # Idle, AllListed(job[t])
    PROVE  AllListed(job[t])'
<1> SUFFICES ASSUME job[t].op = "delete_org", job[t].pc = "delete"
             PROVE  OwnedBy(job[t].org)' \subseteq job[t].pending
    BY OneJob DEF AllListed
<1>1. OwnedBy(job[t].org) \subseteq job[t].pending /\ job'[t] = job[t]
    BY OneJob DEF AllListed
<1>2. CASE datasets' \subseteq datasets
    BY <1>1, <1>2 DEF OwnedBy
<1>3. CASE CreateDatasetWrite(s)
    <2>1. job[s].org # job[t].org
        BY <1>3 DEF CreateDatasetWrite, DeletionsApart, At
    <2> QED  BY <1>1, <1>3, <2>1, RecordsAfter DEF OwnedBy
<1>4. CASE UpdateDatasetWrite(s)
    <2>1. ~CreateDatasetWrite(s)
        BY <1>4 DEF UpdateDatasetWrite, CreateDatasetWrite, At
    <2>2. \A e \in datasets' : \E d \in datasets : d.id = e.id /\ d.owner = e.owner
        BY <2>1, RecordsAfter
    <2> QED  BY <1>1, <2>2 DEF OwnedBy
<1> QED  BY <1>2, <1>3, <1>4, RecordsAfter

\* What the deletion itself does.
LEMMA DeletionOwn ==
    ASSUME IndInv, OnePage, NEW s \in Slots, DeleteOrgStep(s), Hidden(job[s]), AllListed(job[s]),
           job'[s] # Idle
    PROVE  Hidden(job[s])' /\ AllListed(job[s])'
<1>1. job[s] \in Job /\ job[s].op = "delete_org" /\ job'[s].op = "delete_org" /\ job'[s].org = job[s].org
    BY StaysDeletion DEF Answer, IndInv, TypeOK, JobsTypeOK
<1>2. discoverable' \subseteq discoverable
    BY HiddenStep DEF Next, Step
<1>3. CASE job'[s].pc \in {"delist", "undo"}
    BY <1>3 DEF Hidden, AllListed
<1>4. CASE DeleteOrgDelist(s) /\ job'[s].pc # "undo"
    <2> DEFINE list == IF WasApproved(job[s].flag) THEN {"approve"} ELSE {}
    <2>1. Delist(job[s].org) /\ job' = [job EXCEPT ![s].pc = "delete_roles", ![s].undo = list]
        BY <1>1, <1>4 DEF DeleteOrgDelist, Fail, Goto, IndInv, TypeOK, JobsTypeOK, Job
    <2>2. job'[s] = [job[s] EXCEPT !.pc = "delete_roles", !.undo = list]
        BY <2>1 DEF IndInv, TypeOK, JobsTypeOK
    <2> HIDE DEF list
    <2>3. job'[s].pc = "delete_roles"
        BY <1>1, <2>2 DEF Job
    <2> QED  BY <1>1, <2>1, <2>3 DEF Hidden, AllListed, Delist
<1>5. CASE DeleteOrgRoles(s) /\ job'[s].pc # "undo"
    <2>1. Goto(s, "list") /\ job[s].pc = "delete_roles"
        BY <1>1, <1>5 DEF DeleteOrgRoles, At, Fail, Goto, IndInv, TypeOK, JobsTypeOK, Job
    <2>2. job'[s].pc = "list"
        BY <1>1, <2>1 DEF Goto, IndInv, TypeOK, JobsTypeOK, Job
    <2> QED  BY <1>1, <1>2, <2>1, <2>2 DEF Hidden, AllListed
<1>6. CASE DeleteOrgList(s) /\ job'[s].pc # "undo"
    <2>1. PICK page \in Pages(job[s].org) :
            job' = [job EXCEPT ![s].pc = "delete", ![s].pending = page]
        BY <1>1, <1>6 DEF DeleteOrgList, Fail, Goto, IndInv, TypeOK, JobsTypeOK, Job
    <2>2. job[s].pc = "list" /\ UNCHANGED datasets /\ job[s].org \in Orgs
        BY <1>6, DeleteOrgUnderWay DEF DeleteOrgList, At, crmVars
    <2>3. page = OwnedBy(job[s].org)
        BY <2>2 DEF Pages, OnePage
    <2>4. job'[s] = [job[s] EXCEPT !.pc = "delete", !.pending = page]
        BY <2>1 DEF IndInv, TypeOK, JobsTypeOK
    <2>5. job'[s].pc = "delete" /\ job'[s].pending = page
        BY <1>1, <2>4 DEF Job
    <2>6. OwnedBy(job[s].org)' = OwnedBy(job[s].org)
        BY <1>1, <2>2 DEF OwnedBy
    <2> QED  BY <1>1, <1>2, <2>2, <2>3, <2>5, <2>6 DEF Hidden, AllListed
<1>7. CASE DeleteOrgDataset(s) /\ job'[s].pc # "undo"
    <2>1. PICK i \in job[s].pending :
            DeleteDataset(i) /\ job' = [job EXCEPT ![s].pending = @ \ {i}]
        BY <1>1, <1>7 DEF DeleteOrgDataset, Fail, Goto, IndInv, TypeOK, JobsTypeOK, Job
    <2>2. job'[s] = [job[s] EXCEPT !.pending = @ \ {i}]
        BY <2>1 DEF IndInv, TypeOK, JobsTypeOK
    <2>3. job[s].pc = "delete" /\ job'[s].pc = "delete" /\ job'[s].pending = job[s].pending \ {i}
        BY <1>1, <1>7, <2>2 DEF DeleteOrgDataset, At, Job
    <2>4. OwnedBy(job[s].org)' \subseteq OwnedBy(job[s].org) \ {i}
        BY <1>1, <2>1 DEF OwnedBy, DeleteDataset
    <2> QED  BY <1>1, <1>2, <2>3, <2>4 DEF Hidden, AllListed
<1>8. CASE DeleteOrgCheck(s)
    <2>1. job' = [job EXCEPT ![s].pc = "delist", ![s].flag = FlagOf(approved, job[s].org)]
        BY <1>8 DEF DeleteOrgCheck, Answer, IndInv, TypeOK, JobsTypeOK
    <2>2. job'[s] = [job[s] EXCEPT !.pc = "delist", !.flag = FlagOf(approved, job[s].org)]
        BY <2>1 DEF IndInv, TypeOK, JobsTypeOK
    <2>3. job'[s].pc = "delist"
        BY <1>1, <2>2 DEF Job
    <2> QED  BY <1>3, <2>3
<1>9. CASE DeleteOrgEnds(s) \/ DeleteOrgUndo(s)
    BY <1>9 DEF DeleteOrgEnds, DeleteOrgUndo, Answer, IndInv, TypeOK, JobsTypeOK
<1> QED  BY <1>3, <1>4, <1>5, <1>6, <1>7, <1>8, <1>9 DEF DeleteOrgStep

\* Any other step leaves no deletion past its check.
LEMMA OtherThanDeletion ==
    ASSUME IndInv, NEW s \in Slots, Receive(s) \/ Step(s), ~DeleteOrgStep(s)
    PROVE  job'[s] = Idle \/ job'[s].op # "delete_org" \/ job'[s].pc = "check"
<1>1. CASE Answer(s) \/ CallRaises(s)
    BY <1>1 DEF Answer, CallRaises, IndInv, TypeOK, JobsTypeOK
<1>2. CASE Receive(s)
    <2>1. ASSUME NEW r, r.pc = "check", NEW u, Accept(s, u, r)
          PROVE  job'[s].pc = "check"
        BY <2>1 DEF Accept, IndInv, TypeOK, JobsTypeOK
    <2> QED
        BY <1>2, <2>1 DEF Receive, ReceiveCreateDataset, ReceiveUpdateDataset,
           ReceiveDeleteDataset, ReceiveUpdateOrg, ReceiveDeleteOrg, Arrival
<1>3. CASE (DatasetStep(s) \/ UpdateOrgStep(s)) /\ ~Answer(s)
    <2>1. ASSUME NEW label, Goto(s, label), job[s] \in Job
          PROVE  job'[s].op = job[s].op
        BY <2>1 DEF Goto, IndInv, TypeOK, JobsTypeOK, Job
    <2>2. CASE UpdateOrgStep(s)
        <3>1. At(s, "update_org", "check") /\ Goto(s, "write")
            BY <1>3, <2>2 DEF UpdateOrgStep, UpdateOrgCheck, UpdateOrgWrite
        <3> QED  BY <2>1, <3>1, UnderWay
    <2>3. CASE CreateDatasetCheck(s) \/ UpdateDatasetReadName(s)
        <3>1. At(s, "create_dataset", "check") \/ At(s, "update_dataset", "read_name")
            BY <2>3 DEF CreateDatasetCheck, UpdateDatasetReadName
        <3>2. job[s] \in Job /\ job[s].op # "delete_org"
            BY <3>1, UnderWay
        <3>3. Goto(s, "write")
            BY <1>3, <2>3 DEF CreateDatasetCheck, UpdateDatasetReadName
        <3> QED  BY <2>1, <3>2, <3>3
    <2>4. CASE UpdateDatasetCheck(s) \/ DeleteDatasetCheck(s)
        <3>1. At(s, "update_dataset", "check") \/ At(s, "delete_dataset", "check")
            BY <2>4 DEF UpdateDatasetCheck, DeleteDatasetCheck
        <3>2. job[s] \in Job /\ job[s].op # "delete_org"
            BY <3>1, UnderWay
        <3>3. ASSUME NEW label, NEW org, NEW found,
                     \/ job' = [job EXCEPT ![s].pc = label, ![s].org = org]
                     \/ job' = [job EXCEPT ![s].pc = label, ![s].org = org, ![s].found = found]
              PROVE  job'[s].op = job[s].op
            <4>1. \/ job'[s] = [job[s] EXCEPT !.pc = label, !.org = org]
                  \/ job'[s] = [job[s] EXCEPT !.pc = label, !.org = org, !.found = found]
                BY <3>3 DEF IndInv, TypeOK, JobsTypeOK
            <4> QED  BY <3>2, <4>1 DEF Job
        <3>4. CASE UpdateDatasetCheck(s)
            <4>1. PICK d \in WithId(job[s].dataset) :
                    job' = [job EXCEPT ![s].pc = IF d.name = job[s].name THEN "write" ELSE "read_name",
                                       ![s].org = d.owner,
                                       ![s].found = {d}]
                BY <1>3, <3>4 DEF UpdateDatasetCheck
            <4> QED  BY <3>2, <3>3, <4>1
        <3>5. CASE DeleteDatasetCheck(s)
            <4>1. PICK d \in WithId(job[s].dataset) :
                    job' = [job EXCEPT ![s].pc = "write", ![s].org = d.owner]
                BY <1>3, <3>5 DEF DeleteDatasetCheck
            <4> QED  BY <3>2, <3>3, <4>1
        <3> QED  BY <2>4, <3>2, <3>4, <3>5
    <2>5. CASE CreateDatasetWrite(s) \/ UpdateDatasetWrite(s) \/ DeleteDatasetWrite(s)
        BY <1>3, <2>5 DEF CreateDatasetWrite, UpdateDatasetWrite, DeleteDatasetWrite
    <2> QED  BY <1>3, <2>2, <2>3, <2>4, <2>5 DEF DatasetStep
<1> QED  BY <1>1, <1>2, <1>3 DEF Step

LEMMA NextDeletion ==
    ASSUME IndInv, OnePage, DeletionsApart, DeletionInv, [Next]_vars
    PROVE  DeletionInv'
<1>1. CASE RoleChange \/ UNCHANGED vars
    <2>1. UNCHANGED <<datasets, discoverable, job>>
        BY <1>1 DEF RoleChange, vars, crmVars
    <2> QED  BY <2>1 DEF DeletionInv, Hidden, AllListed, OwnedBy
<1>2. CASE Crash
    BY <1>2 DEF Crash, DeletionInv
<1>3. ASSUME NEW s \in Slots, Receive(s) \/ Step(s)
      PROVE  DeletionInv'
    <2>1. job'[s] # Idle => Hidden(job[s])' /\ AllListed(job[s])'
        <3>1. CASE DeleteOrgStep(s)
            <4>1. job[s] # Idle
                BY <3>1, StaysDeletion
            <4> QED  BY <3>1, <4>1, DeletionOwn DEF DeletionInv
        <3>2. CASE ~DeleteOrgStep(s)
            <4>1. job'[s] = Idle \/ job'[s].op # "delete_org" \/ job'[s].pc = "check"
                BY <1>3, <3>2, OtherThanDeletion
            <4> QED  BY <4>1 DEF Hidden, AllListed
        <3> QED  BY <3>1, <3>2
    <2>2. \A t \in Slots : t # s /\ job'[t] # Idle => AllListed(job[t])'
        BY <1>3, OneJob, StaysListed DEF DeletionInv
    <2>3. discoverable' \subseteq discoverable
        BY HiddenStep
    <2>4. \A t \in Slots : t # s /\ job'[t] # Idle => Hidden(job[t])'
        BY <1>3, <2>3, OneJob DEF DeletionInv, Hidden
    <2> QED  BY <2>1, <2>2, <2>4 DEF DeletionInv
<1> QED  BY <1>1, <1>2, <1>3 DEF Next

\* A deletion is answered without an error in one way only.
LEMMA DeletionEndStep ==
    ASSUME IndInv, DeletionInv, [Next]_vars, NEW s \in Slots,
           At(s, "delete_org", "delete"), job[s].pending = {}, job'[s] = Idle
    PROVE  /\ job[s].org \notin discoverable'
           /\ \A d \in datasets' : d.owner # job[s].org
<1>1. job[s] # Idle /\ job[s].op = "delete_org" /\ job[s].pc = "delete"
    BY DEF At, Idle
<1>2. UNCHANGED datasets
    <2>1. CASE Crash \/ RoleChange \/ UNCHANGED vars
        BY <2>1 DEF Crash, RoleChange, vars, crmVars
    <2>2. ASSUME NEW t \in Slots, Receive(t) \/ Step(t)
          PROVE  UNCHANGED datasets
        <3>1. t = s
            BY <1>1, <2>2, OneJob
        <3>2. DeleteOrgStep(s)
            BY <1>1, <2>2, <3>1 DEF Receive, ReceiveCreateDataset, ReceiveUpdateDataset,
               ReceiveDeleteDataset, ReceiveUpdateOrg, ReceiveDeleteOrg, Accept, Step, At,
               DatasetStep, CreateDatasetCheck, CreateDatasetWrite, UpdateDatasetCheck,
               UpdateDatasetReadName, UpdateDatasetWrite, DeleteDatasetCheck,
               DeleteDatasetWrite, UpdateOrgStep, UpdateOrgCheck, UpdateOrgWrite, CallRaises
        <3>3. DeleteOrgEnds(s)
            BY <1>1, <3>2 DEF DeleteOrgStep, DeleteOrgCheck, DeleteOrgDelist, DeleteOrgRoles,
               DeleteOrgList, DeleteOrgDataset, DeleteOrgUndo, At
        <3> QED  BY <3>3 DEF DeleteOrgEnds, crmVars
    <2> QED  BY <2>1, <2>2 DEF Next
<1>3. job[s].org \notin discoverable /\ OwnedBy(job[s].org) = {}
    BY <1>1 DEF DeletionInv, Hidden, AllListed
<1> QED  BY <1>2, <1>3, HiddenStep DEF OwnedBy

\* A deletion that is answered without an error leaves neither the organisation
\* to be found nor a dataset of it, whatever else is under way and whatever
\* fails, as long as one page holds its datasets and nobody is about to make
\* another.
THEOREM DeletionIsComplete == Spec /\ []DeletionsApart /\ []OnePage => DeletionTakesDatasets
<1>1. Init => DeletionInv
    BY DEF Init, DeletionInv
<1>2. IndInv /\ OnePage /\ DeletionsApart /\ DeletionInv /\ [Next]_vars => DeletionInv'
    BY NextDeletion
<1>3. IndInv /\ DeletionInv /\ [Next]_vars =>
        [\A s \in Slots :
            At(s, "delete_org", "delete") /\ job[s].pending = {} /\ job'[s] = Idle =>
                /\ job[s].org \notin discoverable'
                /\ \A d \in datasets' : d.owner # job[s].org]_vars
    BY DeletionEndStep
<1> QED  BY <1>1, <1>2, <1>3, Invariant, PTL DEF Spec, DeletionTakesDatasets

-----------------------------------------------------------------------------
(* The abstract catalogue.                                                 *)

\* What the refinement mapping puts for the catalogue's rights and sessions.
NoRights == [o \in Orgs |-> "NONE"]

RightsNow == [x \in Users \X Clients |-> [o \in Orgs |-> RoleForOrg(x[1], x[2], o)]]

SessionNow == [s \in Slots |-> IF job[s] = Idle THEN NoRights ELSE job[s].authz]

CatalogueStep == [Promised!CatalogueNext]_(Promised!catalogueVars)

\* The permissions are those of the catalogue's three sets.
LEMMA PermissionsAsPromised ==
    ASSUME NEW a
    PROVE  /\ Can(a, "create-dataset") \/ Can(a, "update-dataset") => a \in Promised!Contributors
           /\ Can(a, "delete-dataset") \/ Can(a, "update-dataset-visibility") => a \in Promised!Editors
           /\ Can(a, "delete-org") => a \in Promised!Owners /\ a \in Promised!Editors
BY DEF Can, Permissions, Promised!Contributors, Promised!Editors, Promised!Owners

LEMMA RightsStay ==
    ASSUME UNCHANGED fgaVars
    PROVE  RightsNow' = RightsNow
<1>1. fga' = fga /\ toolAuth' = toolAuth
    BY DEF fgaVars
<1>2. ASSUME NEW u, NEW c, NEW o
      PROVE  RoleForOrg(u, c, o)' = RoleForOrg(u, c, o)
    <2>1. RowsFor(u, o)' = RowsFor(u, o)
        BY <1>1 DEF RowsFor
    <2>2. ProviderTools(u, o)' = ProviderTools(u, o)
        BY <1>1 DEF ProviderTools, ToolsOf
    <2> QED  BY <2>1, <2>2 DEF RoleForOrg, IsSuperAdmin
<1> QED  BY <1>2 DEF RightsNow

LEMMA RightsType == FgaTypeOK => RightsNow \in [Users \X Clients -> [Orgs -> Promised!Rights]]
BY RoleForOrgType DEF RightsNow, Promised!Rights, Authorities, DirectRoles

\* A handler goes by the rights it was accepted with until it answers.
LEMMA AuthzStays ==
    ASSUME IndInv, NEW s \in Slots, Step(s)
    PROVE  job[s] # Idle /\ (job'[s] # Idle => job'[s].authz = job[s].authz)
<1>1. job[s].pc # "idle"
    BY DEF Step, DatasetStep, CreateDatasetCheck, CreateDatasetWrite, UpdateDatasetCheck,
       UpdateDatasetReadName, UpdateDatasetWrite, DeleteDatasetCheck, DeleteDatasetWrite,
       UpdateOrgStep, UpdateOrgCheck, UpdateOrgWrite, DeleteOrgStep, DeleteOrgCheck,
       DeleteOrgDelist, DeleteOrgRoles, DeleteOrgList, DeleteOrgDataset, DeleteOrgEnds,
       DeleteOrgUndo, CallRaises, At
<1>2. job[s] \in Job /\ job[s] # Idle
    BY <1>1, BusySlot DEF Idle
<1> USE DEF Goto, Fail, Answer, IndInv, TypeOK, JobsTypeOK, Job
<1>3. ASSUME DatasetStep(s), job'[s] # Idle
      PROVE  job'[s].authz = job[s].authz
    <2>1. CASE UpdateDatasetCheck(s)
        <3>1. PICK d \in WithId(job[s].dataset) :
                job' = [job EXCEPT ![s].pc = IF d.name = job[s].name THEN "write" ELSE "read_name",
                                   ![s].org = d.owner,
                                   ![s].found = {d}]
            BY <1>3, <2>1 DEF UpdateDatasetCheck
        <3> DEFINE label == IF d.name = job[s].name THEN "write" ELSE "read_name"
        <3>2. job'[s] = [job[s] EXCEPT !.pc = label, !.org = d.owner, !.found = {d}]
            BY <3>1
        <3> QED  BY <1>2, <3>2
    <2>2. CASE DeleteDatasetCheck(s)
        <3>1. PICK d \in WithId(job[s].dataset) :
                job' = [job EXCEPT ![s].pc = "write", ![s].org = d.owner]
            BY <1>3, <2>2 DEF DeleteDatasetCheck
        <3>2. job'[s] = [job[s] EXCEPT !.pc = "write", !.org = d.owner]
            BY <3>1
        <3> QED  BY <1>2, <3>2
    <2> QED
        BY <1>2, <1>3, <2>1, <2>2 DEF DatasetStep, CreateDatasetCheck, CreateDatasetWrite,
           UpdateDatasetReadName, UpdateDatasetWrite, DeleteDatasetWrite
<1>4. (UpdateOrgStep(s) \/ CallRaises(s)) /\ job'[s] # Idle => job'[s].authz = job[s].authz
    BY <1>2 DEF UpdateOrgStep, UpdateOrgCheck, UpdateOrgWrite, CallRaises
<1>5. DeleteOrgStep(s) /\ job'[s] # Idle => job'[s].authz = job[s].authz
    BY <1>2 DEF DeleteOrgStep, DeleteOrgCheck, DeleteOrgDelist, DeleteOrgRoles, DeleteOrgList,
       DeleteOrgDataset, DeleteOrgEnds, DeleteOrgUndo
<1> QED  BY <1>2, <1>3, <1>4, <1>5 DEF Step

LEMMA SessionAfterStep ==
    ASSUME IndInv, NEW s \in Slots, Step(s)
    PROVE  /\ SessionNow[s] = job[s].authz
           /\ \E gone \in SUBSET Slots : Promised!Leave(gone)
           /\ job'[s] # Idle => SessionNow' = SessionNow
<1>1. job[s] # Idle /\ (job'[s] # Idle => job'[s].authz = job[s].authz)
    BY AuthzStays
<1>2. \A t \in Slots : t # s => job'[t] = job[t]
    BY OneJob
<1>3. \A t \in Slots : t # s => SessionNow'[t] = SessionNow[t]
    BY <1>2 DEF SessionNow, NoRights, Idle
<1>4. job'[s] # Idle => SessionNow'[s] = SessionNow[s]
    BY <1>1 DEF SessionNow, NoRights, Idle
<1>5. job'[s] = Idle => SessionNow'[s] = NoRights
    BY DEF SessionNow, NoRights, Idle
<1>6. job'[s] # Idle => SessionNow' = SessionNow
    BY <1>3, <1>4 DEF SessionNow
<1>7. ASSUME NEW gone \in {{s}, {}}, s \in gone <=> job'[s] = Idle
      PROVE  Promised!Leave(gone)
    <2>1. SessionNow' = [t \in Slots |-> IF t \in gone THEN NoRights ELSE SessionNow[t]]
        BY <1>3, <1>4, <1>5, <1>7 DEF SessionNow
    <2> QED  BY <2>1 DEF Promised!Leave, Promised!Nobody, SessionNow, NoRights
<1>8. Promised!Leave({s}) \/ Promised!Leave({})
    BY <1>7
<1>9. {s} \in SUBSET Slots /\ {} \in SUBSET Slots
    OBVIOUS
<1>10. \E gone \in SUBSET Slots : Promised!Leave(gone)
    BY <1>8, <1>9, Zenon
<1>11. SessionNow[s] = job[s].authz
    BY <1>1 DEF SessionNow
<1> QED  BY <1>6, <1>10, <1>11

\* Steps that are no operation of the catalogue: they read, give or take
\* roles, or end a session.
LEMMA StillCatalogue ==
    ASSUME IndInv, NEW s \in Slots, Step(s), UNCHANGED <<datasets, discoverable, fgaVars>>
    PROVE  CatalogueStep
BY SessionAfterStep, RightsStay DEF CatalogueStep, Promised!CatalogueNext, RightsNow

LEMMA Performed ==
    ASSUME IndInv, NEW s \in Slots, Step(s), UNCHANGED fgaVars, Promised!Operation(s)
    PROVE  CatalogueStep
BY SessionAfterStep, RightsStay DEF CatalogueStep, Promised!CatalogueNext, RightsNow

LEMMA PublishRefines ==
    ASSUME IndInv, NamesInv, NEW s \in Slots, CreateDatasetWrite(s)
    PROVE  CatalogueStep
<1> DEFINE d == [id |-> job[s].dataset, owner |-> job[s].org,
                 name |-> job[s].name, visibility |-> job[s].visibility]
<1>1. /\ job[s] \in Job /\ SoundJob(s) /\ job[s].op = "create_dataset" /\ job[s].pc = "write"
      /\ job[s] # Idle /\ job[s].org \in Orgs /\ Step(s)
    BY UnderWay DEF CreateDatasetWrite, Step, DatasetStep
<1>2. /\ job[s].dataset \in DatasetIds /\ job[s].name \in DatasetNames
      /\ job[s].visibility \in Visibilities /\ job[s].org \in Registered
      /\ Granted(job[s], job[s].org, "create-dataset")
    BY <1>1 DEF SoundJob, SoundFields, SoundCheck, Needed
<1>3. SessionNow[s][job[s].org] \in Promised!Contributors
    BY <1>1, <1>2, SessionAfterStep, PermissionsAsPromised DEF Granted
<1>4. \A e \in datasets : e.id # job[s].dataset /\ e.name # job[s].name
    BY <1>1 DEF SoundJob, Reserved, WithId, NamesInv, NameFree, NameInUse
<1>5. datasets' = datasets \cup {d} /\ UNCHANGED <<discoverable, fgaVars>>
    BY DEF CreateDatasetWrite, CreateDataset
<1>6. Promised!Publish(s, d)
    BY <1>2, <1>3, <1>4, <1>5 DEF Promised!Publish, Promised!Free, SessionNow, NoRights
<1>7. Promised!Operation(s)
    BY <1>1, <1>2, <1>6 DEF Promised!Operation
<1> QED  BY <1>1, <1>5, <1>7, Performed

LEMMA ReviseRefines ==
    ASSUME IndInv, NamesInv, ReadInv, NEW s \in Slots, UpdateDatasetWrite(s)
    PROVE  CatalogueStep
<1> DEFINE i == job[s].dataset
           n == job[s].name
           v == job[s].visibility
           Updated(x) ==
                IF x.id # i THEN x
                ELSE IF v = "NONE" THEN [x EXCEPT !.name = n]
                     ELSE [x EXCEPT !.name = n, !.visibility = v]
<1>1. /\ job[s] \in Job /\ SoundJob(s) /\ job[s].op = "update_dataset" /\ job[s].pc = "write"
      /\ job[s] # Idle /\ job[s].org \in Orgs /\ Step(s)
    BY UnderWay DEF UpdateDatasetWrite, Step, DatasetStep
<1>2. n \in DatasetNames /\ v \in Visibilities \cup {"NONE"} /\ datasets \subseteq Datasets
    BY <1>1 DEF SoundJob, SoundFields, Job, IndInv, TypeOK, CrmTypeOK
<1>3. datasets' = {Updated(x) : x \in datasets} /\ UNCHANGED <<discoverable, fgaVars>>
    BY DEF UpdateDatasetWrite, UpdateDataset
<1>4. CASE WithId(i) = {}
    <2>1. datasets' = datasets
        BY <1>3, <1>4 DEF WithId
    <2> QED  BY <1>1, <1>3, <2>1, StillCatalogue
<1>5. ASSUME NEW d \in WithId(i)
      PROVE  CatalogueStep
    <2> DEFINE w == IF v = "NONE" THEN d.visibility ELSE v
               r == [d EXCEPT !.name = n, !.visibility = w]
    <2>1. d \in datasets /\ d \in Datasets /\ d.id = i
        BY <1>2 DEF WithId
    <2>2. Updated(d) = r /\ \A x \in datasets : x # d => Updated(x) = x
        BY <1>2, <2>1 DEF Datasets, IndInv, IdsUnique
    <2> HIDE DEF Updated
    <2>3. datasets' = (datasets \ {d}) \cup {r}
        BY <1>3, <2>1, <2>2
    <2>4. d \in job[s].found /\ d.owner = job[s].org
        BY <1>1, <2>1 DEF ReadInv, RecordAsRead, WithId, SoundJob, SoundOwner, ActsOn
    <2>5. SessionNow[s][d.owner] \in Promised!Contributors
        BY <1>1, <2>4, SessionAfterStep, PermissionsAsPromised DEF SoundJob, SoundCheck, Granted, Needed
    <2>6. w = d.visibility \/ SessionNow[s][d.owner] \in Promised!Editors
        BY <1>1, <2>4, SessionAfterStep, PermissionsAsPromised
        DEF SoundJob, SoundCheck, MaySetVisibility, Granted
    <2>7. n = d.name \/ Promised!Free(n)
        <3>1. \A x \in datasets : x.name = n => x = d
            BY <1>1, <2>1 DEF NamesInv, NameFree, IndInv, IdsUnique
        <3> QED  BY <3>1 DEF Promised!Free
    <2>8. w \in Visibilities
        BY <1>2, <2>1 DEF Datasets
    <2> HIDE DEF w
    <2>9. Promised!Revise(s, d, n, w)
        BY <1>3, <2>3, <2>5, <2>6, <2>7 DEF Promised!Revise, SessionNow, NoRights
    <2>10. Promised!Operation(s)
        BY <1>2, <2>1, <2>8, <2>9 DEF Promised!Operation
    <2> QED  BY <1>1, <1>3, <2>10, Performed
<1> QED  BY <1>4, <1>5

LEMMA WithdrawRefines ==
    ASSUME IndInv, NEW s \in Slots, Step(s), NEW i, DeleteDataset(i), UNCHANGED fgaVars,
           ActsOn(job[s], i), job[s].op \in {"delete_dataset", "delete_org"}, SoundJob(s),
           job[s].pc # "check"
    PROVE  CatalogueStep
<1>1. datasets' = {x \in datasets : x.id # i} /\ UNCHANGED discoverable
    BY DEF DeleteDataset
<1>2. CASE WithId(i) = {}
    <2>1. datasets' = datasets
        BY <1>1, <1>2 DEF WithId
    <2> QED  BY <1>1, <2>1, StillCatalogue
<1>3. ASSUME NEW d \in WithId(i)
      PROVE  CatalogueStep
    <2>1. datasets' = datasets \ {d} /\ d \in datasets
        BY <1>1 DEF WithId, IndInv, IdsUnique
    <2>2. d.owner = job[s].org
        BY DEF WithId, SoundJob, SoundOwner
    <2>3. SessionNow[s][d.owner] \in Promised!Editors
        BY <2>2, SessionAfterStep, PermissionsAsPromised DEF SoundJob, SoundCheck, Granted, Needed
    <2>4. Promised!Withdraw(s, d)
        BY <1>1, <2>1, <2>3 DEF Promised!Withdraw, SessionNow, NoRights
    <2>5. Promised!Operation(s)
        BY <2>1, <2>4 DEF Promised!Operation
    <2> QED  BY <2>5, Performed
<1> QED  BY <1>2, <1>3

LEMMA UnlistRefines ==
    ASSUME IndInv, NEW s \in Slots, DeleteOrgDelist(s)
    PROVE  CatalogueStep
<1>1. /\ job[s].op = "delete_org" /\ job[s].org \in Orgs /\ Step(s) /\ UNCHANGED fgaVars
      /\ Granted(job[s], job[s].org, "delete-org")
    BY DeleteOrgUnderWay DEF DeleteOrgDelist, Step, DeleteOrgStep
<1>2. CASE UNCHANGED crmVars
    BY <1>1, <1>2, StillCatalogue DEF crmVars
<1>3. CASE Delist(job[s].org)
    <2>1. SessionNow[s][job[s].org] \in Promised!Owners
        BY <1>1, SessionAfterStep, PermissionsAsPromised DEF Granted
    <2>2. Promised!Unlist(s, job[s].org)
        BY <1>3, <2>1 DEF Promised!Unlist, Delist, SessionNow, NoRights
    <2>3. Promised!Operation(s)
        BY <1>1, <2>2 DEF Promised!Operation
    <2> QED  BY <1>1, <2>3, Performed
<1> QED  BY <1>2, <1>3 DEF DeleteOrgDelist

\* Taking the roles of an organisation away changes the rights of callers,
\* the session's own aside.
LEMMA RolesGoneRefines ==
    ASSUME IndInv, NEW s \in Slots, DeleteOrgRoles(s)
    PROVE  CatalogueStep
<1>1. /\ job[s].op = "delete_org" /\ job[s] \in Job /\ Step(s) /\ UNCHANGED <<datasets, discoverable>>
    BY DeleteOrgUnderWay DEF DeleteOrgRoles, Step, DeleteOrgStep, crmVars
<1>2. job'[s] = [job[s] EXCEPT !.pc = "list"] \/ job'[s] = [job[s] EXCEPT !.pc = "undo"]
    BY DEF DeleteOrgRoles, Goto, Fail, IndInv, TypeOK, JobsTypeOK
<1>3. job'[s] # Idle
    BY <1>1, <1>2 DEF Job, Idle
<1>4. SessionNow' = SessionNow
    BY <1>1, <1>3, SessionAfterStep
<1>5. FgaTypeOK'
    BY <1>1, NextInv DEF Next, IndInv, TypeOK
<1>6. (RightsNow \in [Users \X Clients -> [Orgs -> Promised!Rights]])'
    BY <1>5, RightsType, PTL
<1> QED
    BY <1>1, <1>4, <1>6 DEF CatalogueStep, Promised!CatalogueNext, Promised!ChangeRights,
       SessionNow, RightsNow, NoRights

LEMMA DeletionRefines ==
    ASSUME IndInv, NEW s \in Slots, DeleteOrgStep(s)
    PROVE  CatalogueStep
<1>1. Step(s)
    BY DEF Step
<1>2. CASE DeleteOrgCheck(s) \/ DeleteOrgList(s) \/ DeleteOrgEnds(s) \/ DeleteOrgUndo(s)
    BY <1>1, <1>2, StillCatalogue DEF DeleteOrgCheck, DeleteOrgList, DeleteOrgEnds, DeleteOrgUndo,
       Approve, crmVars
<1>3. CASE DeleteOrgDataset(s)
    <2>1. /\ SoundJob(s) /\ job[s].op = "delete_org" /\ job[s].pc = "delete" /\ job[s] # Idle
        BY <1>3, UnderWay DEF DeleteOrgDataset
    <2>2. PICK i \in job[s].pending : DeleteDataset(i) \/ UNCHANGED crmVars
        BY <1>3 DEF DeleteOrgDataset
    <2>3. ActsOn(job[s], i)
        BY <2>1 DEF ActsOn
    <2>4. UNCHANGED fgaVars
        BY <1>3 DEF DeleteOrgDataset
    <2> QED  BY <1>1, <2>1, <2>2, <2>3, <2>4, WithdrawRefines, StillCatalogue DEF crmVars
<1> QED
    BY <1>2, <1>3, UnlistRefines, RolesGoneRefines DEF DeleteOrgStep

LEMMA StepRefines ==
    ASSUME IndInv, NamesInv, ReadInv, NEW s \in Slots, Step(s)
    PROVE  CatalogueStep
<1>1. CASE DeleteDatasetWrite(s)
    <2>1. /\ SoundJob(s) /\ job[s].op = "delete_dataset" /\ job[s].pc = "write" /\ job[s] # Idle
        BY <1>1, UnderWay DEF DeleteDatasetWrite
    <2>2. ActsOn(job[s], job[s].dataset)
        BY <2>1 DEF ActsOn
    <2> QED  BY <1>1, <2>1, <2>2, WithdrawRefines DEF DeleteDatasetWrite
<1>2. CASE UpdateOrgStep(s) \/ CallRaises(s)
    BY <1>2, StillCatalogue DEF UpdateOrgStep, UpdateOrgCheck, UpdateOrgWrite, UpdateOrg,
       CallRaises, crmVars
<1>3. CASE CreateDatasetCheck(s) \/ UpdateDatasetCheck(s) \/ UpdateDatasetReadName(s)
             \/ DeleteDatasetCheck(s)
    BY <1>3, StillCatalogue DEF CreateDatasetCheck, UpdateDatasetCheck, UpdateDatasetReadName,
       DeleteDatasetCheck, crmVars
<1> QED
    BY <1>1, <1>2, <1>3, PublishRefines, ReviseRefines, DeletionRefines DEF Step, DatasetStep

LEMMA ReceiveRefines ==
    ASSUME IndInv, NEW s \in Slots, Receive(s)
    PROVE  CatalogueStep
<1>1. UNCHANGED <<datasets, discoverable, fgaVars>> /\ job[s] = Idle
    BY DEF Receive, ReceiveCreateDataset, ReceiveUpdateDataset, ReceiveDeleteDataset,
       ReceiveUpdateOrg, ReceiveDeleteOrg, Accept, crmVars
<1>2. ASSUME NEW u \in Users, NEW c \in Clients, NEW r, Accept(s, u, r), r.pc = "check",
             r.authz = [o \in Orgs |-> RoleForOrg(u, c, o)]
      PROVE  CatalogueStep
    <2>1. job' = [job EXCEPT ![s] = r]
        BY <1>2 DEF Accept
    <2>2. r # Idle /\ r.authz = RightsNow[<<u, c>>]
        BY <1>2 DEF Idle, RightsNow
    <2>3. SessionNow' = [SessionNow EXCEPT ![s] = RightsNow[<<u, c>>]]
        BY <2>1, <2>2 DEF SessionNow, NoRights, Idle, IndInv, TypeOK, JobsTypeOK
    <2>4. SessionNow[s] = NoRights
        BY <1>1 DEF SessionNow
    <2>5. RightsNow' = RightsNow
        BY <1>1, RightsStay
    <2>6. Promised!Authenticate(s)
        BY <1>1, <2>3, <2>4, <2>5
        DEF Promised!Authenticate, Promised!Nobody, SessionNow, RightsNow, NoRights
    <2> QED  BY <2>6 DEF CatalogueStep, Promised!CatalogueNext
<1>3. CASE ReceiveCreateDataset(s)
    <2>1. PICK u \in Users, c \in Clients, o \in Orgs, n \in DatasetNames, v \in Visibilities,
               i \in FreshDatasetIds :
            Accept(s, u, [Arrival("create_dataset", u, c)
                            EXCEPT !.org = o, !.dataset = i, !.name = n, !.visibility = v])
        BY <1>3 DEF ReceiveCreateDataset
    <2> QED  BY <1>2, <2>1 DEF Arrival
<1>4. CASE ReceiveUpdateDataset(s)
    <2>1. PICK u \in Users, c \in Clients, i \in DatasetIds, n \in DatasetNames,
               v \in Visibilities \cup {"NONE"} :
            Accept(s, u, [Arrival("update_dataset", u, c)
                            EXCEPT !.dataset = i, !.name = n, !.visibility = v])
        BY <1>4 DEF ReceiveUpdateDataset
    <2> QED  BY <1>2, <2>1 DEF Arrival
<1>5. CASE ReceiveDeleteDataset(s)
    BY <1>2, <1>5 DEF ReceiveDeleteDataset, Arrival
<1>6. CASE ReceiveUpdateOrg(s) \/ ReceiveDeleteOrg(s)
    BY <1>2, <1>6 DEF ReceiveUpdateOrg, ReceiveDeleteOrg, Arrival
<1> QED  BY <1>3, <1>4, <1>5, <1>6 DEF Receive

LEMMA CrashRefines ==
    ASSUME IndInv, Crash
    PROVE  CatalogueStep
<1>1. UNCHANGED <<datasets, discoverable, fgaVars>> /\ job' = [s \in Slots |-> Idle]
    BY DEF Crash, crmVars
<1>2. SessionNow' = [s \in Slots |-> NoRights]
    BY <1>1 DEF SessionNow, NoRights, Idle
<1>3. Promised!Leave(Slots)
    BY <1>2 DEF Promised!Leave, Promised!Nobody, SessionNow, NoRights
<1> QED
    BY <1>1, <1>3, RightsStay DEF CatalogueStep, Promised!CatalogueNext, RightsNow

LEMMA RoleChangeRefines ==
    ASSUME IndInv, RoleChange
    PROVE  CatalogueStep
<1>1. UNCHANGED <<datasets, discoverable, job>>
    BY DEF RoleChange, crmVars
<1>2. SessionNow' = SessionNow
    BY <1>1 DEF SessionNow, NoRights, Idle
<1>3. FgaTypeOK'
    BY NextInv DEF Next, IndInv, TypeOK
<1>4. (RightsNow \in [Users \X Clients -> [Orgs -> Promised!Rights]])'
    BY <1>3, RightsType, PTL
<1> QED
    BY <1>1, <1>2, <1>4 DEF CatalogueStep, Promised!CatalogueNext, Promised!ChangeRights,
       SessionNow, RightsNow, NoRights

LEMMA NextRefines ==
    ASSUME IndInv, NamesInv, ReadInv, [Next]_vars
    PROVE  CatalogueStep
<1>1. CASE UNCHANGED vars
    <2>1. UNCHANGED <<datasets, discoverable, job, fgaVars>>
        BY <1>1 DEF vars, fgaVars
    <2>2. RightsNow' = RightsNow /\ SessionNow' = SessionNow
        BY <2>1, RightsStay DEF SessionNow, NoRights, Idle
    <2> QED  BY <2>1, <2>2 DEF CatalogueStep, Promised!catalogueVars, RightsNow, SessionNow, NoRights
<1> QED
    BY <1>1, StepRefines, ReceiveRefines, CrashRefines, RoleChangeRefines DEF Next

LEMMA InitRefines == Init => Promised!CatalogueInit
<1> SUFFICES ASSUME Init PROVE Promised!CatalogueInit  OBVIOUS
<1>1. FgaTypeOK
    BY InitInv DEF IndInv, TypeOK
<1>2. RightsNow \in [Users \X Clients -> [Orgs -> Promised!Rights]]
    BY <1>1, RightsType
<1>3. SessionNow = [s \in Slots |-> NoRights]
    BY DEF Init, SessionNow
<1> QED
    BY <1>2, <1>3 DEF Init, Promised!CatalogueInit, Promised!Nobody, RightsNow, SessionNow, NoRights

\* Whatever fails, and whatever roles change meanwhile, every step of a handler
\* is an operation of the catalogue on what is true at that moment, or nothing
\* there, while no two requests are about to write one short name or update one
\* dataset.
THEOREM HandlersImplementCatalogue ==
    Spec /\ []NamesApart /\ []UpdatesApart => ImplementsCatalogue
<1>1. Init => NamesInv /\ ReadInv
    BY DEF Init, NamesInv, ReadInv, DatasetNamesUnique
<1>2. IndInv /\ NamesApart /\ NamesInv /\ [Next]_vars => NamesInv'
    BY NextNames
<1>3. IndInv /\ UpdatesApart /\ ReadInv /\ [Next]_vars => ReadInv'
    BY NextRead
<1>4. IndInv /\ NamesInv /\ ReadInv /\ [Next]_vars =>
        [Promised!CatalogueNext]_(Promised!catalogueVars)
    BY NextRefines DEF CatalogueStep
<1> QED
    BY <1>1, <1>2, <1>3, <1>4, InitRefines, Invariant, PTL
    DEF Spec, ImplementsCatalogue, Promised!CatalogueSpec
=============================================================================
