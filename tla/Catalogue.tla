------------------------------ MODULE Catalogue ------------------------------
(***************************************************************************)
(* What the publishing endpoints promise: a catalogue of datasets where    *)
(* each operation happens at once, on the catalogue as it is then, with    *)
(* the rights its caller had when they authenticated.  Publishing          *)
(* implements it, whatever fails, unless two requests are about to write   *)
(* one short name or update one dataset at once.                           *)
(***************************************************************************)
CONSTANTS
    Sessions,
    Callers,        \* who may authenticate
    Orgs,
    Registered,     \* the organisations that have an account
    Ids,            \* of datasets
    Names,          \* of datasets
    Visibilities

Rights == {"CONTRIBUTOR_PENDING", "CONTRIBUTOR", "EDITOR", "ADMIN",
           "PROVIDER_ADMIN", "SUPER_ADMIN", "NONE", "UNKNOWN"}

\* Who may make and change datasets, who may also take them away and show or
\* hide them, and who may take the organisation away.
Contributors == {"CONTRIBUTOR", "EDITOR", "ADMIN", "PROVIDER_ADMIN", "SUPER_ADMIN"}
Editors == Contributors \ {"CONTRIBUTOR"}
Owners == {"ADMIN", "SUPER_ADMIN"}

VARIABLES
    catalogue,      \* records of an id, an owner, a name and a visibility
    listed,         \* the organisations that can be found
    rights,         \* the rights that callers have now
    session         \* the rights that each session goes by

catalogueVars == <<catalogue, listed, rights, session>>

Nobody == [o \in Orgs |-> "NONE"]

CatalogueInit ==
    /\ catalogue = {}
    /\ listed = Registered
    /\ rights \in [Callers -> [Orgs -> Rights]]
    /\ session = [s \in Sessions |-> Nobody]

\* Sessions end at any time.
Leave(gone) == session' = [s \in Sessions |-> IF s \in gone THEN Nobody ELSE session[s]]

Authenticate(s) ==
    /\ session[s] = Nobody
    /\ \E c \in Callers : session' = [session EXCEPT ![s] = rights[c]]
    /\ UNCHANGED <<catalogue, listed, rights>>

ChangeRights ==
    /\ rights' \in [Callers -> [Orgs -> Rights]]
    /\ UNCHANGED <<catalogue, listed, session>>

Free(n) == \A d \in catalogue : d.name # n

Publish(s, d) ==
    /\ d.owner \in Registered
    /\ session[s][d.owner] \in Contributors
    /\ \A e \in catalogue : e.id # d.id
    /\ Free(d.name)
    /\ catalogue' = catalogue \cup {d}
    /\ UNCHANGED listed

Revise(s, d, n, v) ==
    /\ session[s][d.owner] \in Contributors
    /\ n = d.name \/ Free(n)
    /\ v = d.visibility \/ session[s][d.owner] \in Editors
    /\ catalogue' = (catalogue \ {d}) \cup {[d EXCEPT !.name = n, !.visibility = v]}
    /\ UNCHANGED listed

Withdraw(s, d) ==
    /\ session[s][d.owner] \in Editors
    /\ catalogue' = catalogue \ {d}
    /\ UNCHANGED listed

Unlist(s, o) ==
    /\ session[s][o] \in Owners
    /\ listed' = listed \ {o}
    /\ UNCHANGED catalogue

Operation(s) ==
    \/ \E i \in Ids, o \in Orgs, n \in Names, v \in Visibilities :
        Publish(s, [id |-> i, owner |-> o, name |-> n, visibility |-> v])
    \/ \E d \in catalogue, n \in Names, v \in Visibilities : Revise(s, d, n, v)
    \/ \E d \in catalogue : Withdraw(s, d)
    \/ \E o \in Orgs : Unlist(s, o)

CatalogueNext ==
    \/ ChangeRights
    \/ \E s \in Sessions : Authenticate(s)
    \/ /\ UNCHANGED <<catalogue, listed>> \/ \E s \in Sessions : Operation(s)
       /\ \E gone \in SUBSET Sessions : Leave(gone)
       /\ UNCHANGED rights

CatalogueSpec == CatalogueInit /\ [][CatalogueNext]_catalogueVars
=============================================================================
