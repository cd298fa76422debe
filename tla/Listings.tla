------------------------------- MODULE Listings -------------------------------
(***************************************************************************)
(* The paged GET routes: a client walks through the pages of a listing by  *)
(* its links while other requests add and take away records.  Nothing of a *)
(* walk is kept by the API: each page is a request of its own, and SuiteCRM *)
(* is asked again.  Two kinds of listing:                                  *)
(*   "counted":     GET /reporting-orgs/{org_id}/datasets and              *)
(*                  GET /discoverable-reporting-orgs, where the page is    *)
(*                  one call and the number of records another;            *)
(*   "memberships": GET /reporting-orgs and                                *)
(*                  GET /users/{user_id}/reporting-orgs, where both come   *)
(*                  in one call, and an organisation in which the user has *)
(*                  no role is then left out.                              *)
(***************************************************************************)
EXTENDS Pagination, Sequences

CONSTANTS
    Records,        \* records a listing can have, as numbers in its sort order
    PageSizes,      \* the page_size of a walk; 1 to 500 in the code
    Kinds

ASSUME ListingAssumption ==
    /\ Records \subseteq Nat
    /\ IsFiniteSet(Records)
    /\ PageSizes \subseteq Nat \ {0}
    /\ Kinds \subseteq {"counted", "memberships"}

VARIABLES
    selected,       \* the records in the CRM that the filters select
    roles,          \* those of them in which the user has a role
    walk            \* the client's walk, and the request it waits for

vars == <<selected, roles, walk>>

Calls == {"page", "count", "page_and_total", "roles"}

\* The history of a walk: what it has seen, whether it saw a record again,
\* the records listed ever since it began, and how the selection changed.
Walk == [pc: {"idle", "asking", "serving", "done", "failed"},
         kind: Kinds,
         link: {"next", "prev"},            \* the link the client follows
         size: PageSizes,
         page: Nat \ {0},
         calls: Seq(Calls),                 \* what the handler has still to do
         found: SUBSET Records,             \* the data of the answer so far
         total: Nat,
         seen: SUBSET Records,
         again: BOOLEAN,
         stayed: SUBSET Records,
         grown: BOOLEAN,
         shrunk: BOOLEAN]

TypeOK ==
    /\ selected \subseteq Records
    /\ roles \subseteq Records
    /\ walk \in Walk

-----------------------------------------------------------------------------
(* The handlers.                                                           *)

\* Mutant: the records are counted before the page is read.
CallsCountFirst(kind) ==
    IF kind = "counted" THEN <<"count", "page">> ELSE <<"page_and_total", "roles">>

CallsOf(kind) ==
    IF kind = "counted" THEN <<"page", "count">> ELSE <<"page_and_total", "roles">>

\* The request is authenticated, its user may read, the record asked about exists.
Admit ==
    /\ walk.pc = "asking"
    /\ walk' = [walk EXCEPT !.pc = "serving", !.calls = CallsOf(walk.kind), !.total = 0]
    /\ UNCHANGED <<selected, roles>>

Calling(call) == walk.pc = "serving" /\ walk.calls # <<>> /\ Head(walk.calls) = call

ReadPage ==
    /\ Calling("page")
    /\ walk' = [walk EXCEPT !.calls = Tail(@),
                            !.found = PageOf(selected, walk.page, walk.size)]
    /\ UNCHANGED <<selected, roles>>

\* With pages of one record, total-pages is the number of records.
ReadCount ==
    /\ Calling("count")
    /\ walk' = [walk EXCEPT !.calls = Tail(@), !.total = Cardinality(selected)]
    /\ UNCHANGED <<selected, roles>>

ReadMemberships ==
    /\ Calling("page_and_total")
    /\ walk' = [walk EXCEPT !.calls = Tail(@),
                            !.found = PageOf(selected, walk.page, walk.size),
                            !.total = Cardinality(selected)]
    /\ UNCHANGED <<selected, roles>>

\* The total still counts the organisations that are left out here.
ReadRoles ==
    /\ Calling("roles")
    /\ walk' = [walk EXCEPT !.calls = Tail(@), !.found = @ \cap roles]
    /\ UNCHANGED <<selected, roles>>

Linked(w) ==
    IF w.link = "next" THEN NextPage(w.page, w.total, w.size)
    ELSE PrevPage(w.page, w.total, w.size)

\* The answer, and the client's choice of the next request.
AnswerPage ==
    /\ walk.pc = "serving"
    /\ walk.calls = <<>>
    /\ LET page == Linked(walk) IN
        walk' = [walk EXCEPT !.pc = IF page = NoPage THEN "done" ELSE "asking",
                             !.page = IF page = NoPage THEN @ ELSE page,
                             !.found = {},
                             !.seen = @ \cup walk.found,
                             !.again = @ \/ walk.found \cap walk.seen # {}]
    /\ UNCHANGED <<selected, roles>>

\* A check refuses, the token has expired or a call raises: the walk ends.
Refuse ==
    /\ walk.pc \in {"asking", "serving"}
    /\ walk' = [walk EXCEPT !.pc = "failed", !.calls = <<>>, !.found = {}]
    /\ UNCHANGED <<selected, roles>>

Serve == Admit \/ ReadPage \/ ReadCount \/ ReadMemberships \/ ReadRoles \/ AnswerPage

-----------------------------------------------------------------------------
(* The client, and the other requests.                                     *)

\* What a walk of a kind is to list.
Listed(kind, records, held) == IF kind = "counted" THEN records ELSE records \cap held

\* Forward from the first page, or back from any page, beyond the end too;
\* back from page p, only what is up to the end of p is on the way.
Start ==
    /\ walk.pc \in {"idle", "done", "failed"}
    /\ \E kind \in Kinds, link \in {"next", "prev"}, size \in PageSizes,
          page \in 1..(Cardinality(Records) + 1) :
        /\ link = "next" => page = 1
        /\ walk' = [pc |-> "asking", kind |-> kind, link |-> link, size |-> size, page |-> page,
                    calls |-> <<>>, found |-> {}, total |-> 0,
                    seen |-> {}, again |-> FALSE,
                    stayed |-> {r \in Listed(kind, selected, roles) :
                                  link = "prev" => Position(r, selected) <= page * size},
                    grown |-> FALSE, shrunk |-> FALSE]
    /\ UNCHANGED <<selected, roles>>

\* What a change of the data adds to the history of the walk.
Observe ==
    walk' = [walk EXCEPT !.stayed = @ \cap Listed(walk.kind, selected', roles'),
                         !.grown = @ \/ ~(selected' \subseteq selected),
                         !.shrunk = @ \/ ~(selected \subseteq selected')]

\* A record is created, linked or made discoverable; deleted, unlinked or
\* hidden; renamed, which is both at once.
RecordsChange ==
    /\ \E r, q \in Records :
        \/ selected' = selected \cup {r}
        \/ selected' = selected \ {r}
        \/ r \in selected /\ selected' = (selected \ {r}) \cup {q}
    /\ UNCHANGED roles
    /\ Observe

RolesChange ==
    /\ \E r \in Records : roles' = roles \cup {r} \/ roles' = roles \ {r}
    /\ UNCHANGED selected
    /\ Observe

Init ==
    /\ selected \in SUBSET Records
    /\ roles \in SUBSET Records
    /\ walk \in [pc: {"idle"}, kind: Kinds, link: {"next"}, size: PageSizes, page: {1},
                 calls: {<<>>}, found: {{}}, total: {0}, seen: {{}}, again: {FALSE},
                 stayed: {{}}, grown: {FALSE}, shrunk: {FALSE}]

Next == Start \/ Serve \/ Refuse \/ RecordsChange \/ RolesChange

Spec == Init /\ [][Next]_vars

\* Each request is served, see RydApi, and the client follows the link it has
\* chosen, which the next Admit stands for.  Nobody else is fair.
FairSpec == Spec /\ WF_vars(Serve)

-----------------------------------------------------------------------------

\* SAFETY.  A walk that ends has seen every record that was listed all the
\* time, unless records moved over to a page it had passed: forward only a
\* record taken away, back only one added, can do that.  The page and the
\* number of records come from two calls (reporting_orgs.py:609-621,
\* discoverable_reporting_orgs.py:52-68), the roles from a third.
NothingMissed ==
    /\ walk.pc = "done"
    /\ IF walk.link = "next" THEN ~walk.shrunk ELSE ~walk.grown
    => walk.stayed \subseteq walk.seen

\* SAFETY.  A walk sees no record again unless records moved over to a page it
\* had not reached: forward only a record added, back only one taken away.
NothingTwice ==
    (IF walk.link = "next" THEN ~walk.grown ELSE ~walk.shrunk) => ~walk.again

\* LIVENESS.  Whoever follows the links comes to an end, whatever is added or
\* taken away meanwhile (response_schemas.py:33-39).
EveryWalkEnds == walk.pc \in {"asking", "serving"} ~> walk.pc \in {"done", "failed"}
=============================================================================
