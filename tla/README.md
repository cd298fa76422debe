# Register Your Data API: specification and proofs

This directory holds TLA+ models of the Register Your Data API (the FastAPI service under
`src/register_your_data_api`), the TLC configurations that check them, and proofs of their main
properties for the TLA+ proof system.  `PROJECT.json` lists the components, runs, mutants, the source
lines of every definition, the findings, the hazards and the theorems.

## 1. Inventory

The API is one process (`fastapi run`, `Dockerfile:27`).  Handlers are plain functions, so FastAPI runs
each in a thread of its pool; any two requests interleave, and nothing but the CRM token cache is locked.

| Component | State | Operations | Correct when |
|---|---|---|---|
| Fine-grained authorisation database (`auth/fga/fga_provider_db.py`) | direct roles, tool authorisations; tools, their admins and superadmins (no endpoint writes these three) | one transaction per method, no uniqueness constraints | one role per user and organisation; nobody has direct and tool-derived roles; a tool is authorised once |
| Validator and authentication dependency (`fga_validator.py`, `authz.py`) | a snapshot of the caller's roles, per request | role for an organisation, permissions | decisions match the caller's authority |
| User routes (`routers/users.py`) | none of their own; an undo list per request | join, change role, remove user | no promotion without authority; superadmins stay out; an organisation keeps a member and an admin |
| Reporting organisation routes (`routers/reporting_orgs.py`) | as above | create, update, delete, authorise and revoke tools | a failed creation leaves no account; short names are unique; only admins and editors manage tools; a deleted organisation is not found again |
| Dataset routes (`routers/datasets.py`) | none | create, update, delete, read | visibility changed only with the permission; short names unique; every dataset has an owner |
| Undo (`utilities.py`) | the undo list | run last to first | everything registered is undone |
| SuiteCRM client factory (`suitecrm_client_factory.py`) | token, expiry time, lock, private client | get a client, refreshing the token first if needed | no expired token handed out; one refresh at a time; lock always released |
| SuiteCRM (external) | Accounts, Contacts, relationships, datasets | one HTTP call each | external: used as is |
| Emails and background tasks (`background_tasks.py`, `email_sender.py`) | the tasks of a response, in memory | queue, run one after another | a failed join tells nobody; an email that fails costs the others nothing |
| Listings and pagination (`routers/*.py`, `response_schemas.py`) | none: every page is read anew | the pages of datasets, of discoverable organisations, of a user's organisations; the users of an organisation | a client that follows the links ends and misses nothing that stayed; the users can be listed |
| Token authentication, converters, audit log, CORS, Sentry, context, migrations | read-only or formatting | | |

What is hard here: every handler spreads its checks over several calls to two stores, decides on a
snapshot taken at authentication, and writes at the end without checking again; failed calls are
compensated by an undo list that does not cover every write; calls can take effect and still raise; the
process can stop between any two calls, and takes the emails still to be sent with it; a page of a listing
and the number of its records come from different calls, and two pages from different requests.

## 2. Modules

| Module | Models | Variables |
|---|---|---|
| `RegistryIds` | the ids both stores share | |
| `FgaProvider` | the database: each method as one atomic read or write | `fga`, `toolAuth` |
| `FgaValidator` | permissions and the role a request is decided on | |
| `SuiteCrm` | the CRM records and calls the routes use | `accounts`, `links` |
| `Requests` | slots (threads), a request's local state, failures, the undo loop, crashes | `req` |
| `UserRoutes` | join, update, remove, one action per external call | |
| `OrgRoutes` | creation of organisations, tool authorisations | |
| `RydApi` | the composition of the above, its properties | all five |
| `RoleRegistry` | abstract: every operation in one step on what is true now | `open`, `role`, `allowed` |
| `Membership` | `RydApi` with the loop that notifies admins, the emails, and the listing of an organisation's users | those of `RydApi`, `notify`, `mail`, `owed`, `listing`, `undone` |
| `CrmDatasets` | the CRM's datasets and two flags of its organisations | `approved`, `discoverable`, `datasets` |
| `PublishingRoutes` | create, update, delete a dataset; update an organisation; delete one with its datasets | `job` |
| `Publishing` | the composition of these with roles that other requests change, its properties | `fga`, `toolAuth` and the above |
| `Catalogue` | abstract: datasets, each operation in one step with the rights its caller had at authentication | `catalogue`, `listed`, `rights`, `session` |
| `SuiteCrmClientFactory` | the token cache with a clock | `now`, `validUntil`, `expiresAt`, `lock`, `pc`, `stall`, `client` |
| `Pagination` | the page numbers of the links, and the CRM's pages | |
| `Listings` | a client's walk through the pages of a listing that changes meanwhile | `selected`, `roles`, `walk` |
| `MCRydApi`, `MCMembership`, `MCPublishing`, `MCSuiteCrmClientFactory` | values and symmetry for TLC | |
| `FgaProofs`, `RydApiProofs`, `RecordProofs`, `MembershipProofs`, `SerialProofs`, `PublishingProofs`, `ListingProofs`, `SuiteCrmClientFactoryProofs` | lemmas and theorems | |

How they compose: `RegistryIds` ← `FgaProvider` ← `FgaValidator`; `FgaValidator` and `SuiteCrm` ← `Requests` ←
`UserRoutes`, `OrgRoutes` ← `RydApi`; `FgaValidator` and `CrmDatasets` ← `PublishingRoutes` ← `Publishing`.
`RydApi` instantiates `RoleRegistry` with a refinement mapping, and `Publishing` instantiates `Catalogue`.  `Membership` extends `RydApi`, refines one of its
steps into several and adds what goes on around it.  `Pagination` ← `Listings` and `SuiteCrmClientFactory` stand alone.

### State and actions against the code

- **Slots.** A slot is a thread of FastAPI's pool.  `req[s]` (roles) or `job[s]` (publishing) holds the local
  variables of the handler it runs: the endpoint, the authority of the caller for the organisation, what has
  been read and kept, the undo list, and `pc`, the next external call.  Arrival models `get_user_authnz`: it
  takes the snapshot of the caller's role and never looks again.  An answer, with whatever status, empties
  the slot.
- **One action per external call.** Each database method opens a session of its own and each CRM call is one
  HTTP request, so each is one step, and anything may run between two of them.  A check that reads only the
  snapshot, constants or one store is taken together with the call it comes with.  The two SELECTs of one
  read method of the provider count as one read.
- **Failures** are chosen by the constant `Faults`: a CRM call that raises without effect (`crm_call`), one
  that takes effect and raises all the same (`crm_reply`), a database session that rolls back (`db_call`),
  and a stop of the process, which loses every request in progress (`crash`).  Undo actions run last to
  first; one that raises ends the loop, as `perform_undo_actions` has no handler of its own.
- **Direct roles** are rows with a primary key: nothing in the database keeps two rows of one user and
  organisation apart, and `session.merge` writes by primary key.  `Permissions` and `RoleForOrg` are the
  validator's table and look-up; a user with both direct and tool-derived roles is refused everything.
- **The CRM** is external and modelled from its use.  Deleting a relationship that is not there changes
  nothing.  Deleting a dataset that has gone may raise or not, since nothing in `src/` says which.  Flags are
  answered as strings, as the recorded answers under `src/tests/artefacts` show.
- **`Publishing` is a composition of its own**, because a dataset request names no organisation: the owner is
  read first, so the snapshot has to be kept for all organisations, and together with the role endpoints the
  state space is out of reach.  What the role endpoints do to the table is its environment, `RoleChange`: any row of
  anyone but a superadmin inserted, merged with another role, or deleted, at any moment.  That allows every write of
  `RydApi`, second rows of one user and rows of tool admins included, and more.
- **Notices.** `RydApi` takes the end of a join, which looks up a Contacts record for each admin, as the one step
  `JoinNotify`.  In `Membership` it is the loop: each look-up a step, each email queued a task in `notify`, which
  becomes one of `mail` only when the response is sent, because an error's response carries no tasks.
  `background_task_handler` swallows what a task raises.  Starlette runs the tasks in order; here any order will
  do.  `owed` is a history of who is to get an email.
- **The users of an organisation** are listed from the relationships in the CRM, read first, and the roles in the
  database, read after.  `listing` is such a request between its reads; somebody with a role and no relationship
  makes it an error.  `undone` is a history of whether a request has run its undo actions.
- **Updating an organisation** writes descriptive fields only.  What matters is what it does not write: PATCH sends every
  field of the model, and neither flag is among them, so an update that was checked before a deletion does not
  bring the organisation back.  `Catalogue` has no operation that lists an organisation, so one that did would
  not implement it.
- **A failed deletion** has an undo action that gives the approval back, registered when the flag read is `True`.  It
  is a string, so `WasApproved` is never true and the action never registered (section 5).  The branch is kept as the
  code has it, and no property but the violated one speaks of it.
- **Listings** keep nothing on the server.  `walk` is the client: the link it follows, the page it waits for, and
  the history the properties speak of.  A request is a list of calls.  Between any two, records are added,
  taken away or renamed, and roles change.  Records have a strict order that stays: the code sorts by name, names
  need not be unique, and how the CRM sorts equal ones is not in `src/`.  If it sorts them differently from call to
  call, a client can miss one or see one twice, and the models do not show it.
- **Tokens** are known by the time at which they end.  A thread may take any time while it waits or works
  with its client, and at most `MaxStall` between two steps inside `get_client`.

## 3. Runs

| Run | Question | Bounds |
|---|---|---|
| `roles` | Two requests overlap, of join, change role, remove, authorise, revoke | 3 users, one of them a tool's admin, 1 organisation, 3 rows |
| `serial` | Two requests, apart from each other (`ApartSpec`), of all six operations, no failures: do the handlers implement `RoleRegistry` and keep what they check? | 2 users, 3 rows, 2 organisations, 2 short names, 1 tool without admins |
| `failures` | One request at a time of the four operations that write to both stores (join, change role, remove, create), every kind of failure and crashes | 3 users, one a superadmin and one without a Contacts record, 3 rows, 2 organisations, 1 short name; no tools |
| `membership` | One request at a time with its emails, and a listing of users at any time; failing CRM calls and crashes | 4 users, 2 of them admins of an organisation from the start, 1 a superadmin; 2 organisations, 3 rows |
| `listings` | A walk through the pages while anything changes | 3 records, pages of 1 and 2, both kinds of listing |
| `token` | Three threads ask for clients while the clock runs and refreshes fail | lifetime 6, margins 2 and 3, stall 1, 10 ticks: two refreshes |
| `datasets` | Two requests overlap, of all five operations on datasets and organisations and whatever they are about, while the caller's role moves between two organisations; every kind of failure and crashes | 1 user, 2 organisations of which 1 is registered, 1 dataset id, 2 short names, 1 role row |
| `publishing` | Two requests overlap, of the same operations, apart from each other (`ApartSpec`), with lost replies and failing database calls: do the handlers implement `Catalogue`? | 1 user, 1 organisation, 2 dataset ids, 2 short names, pages of 2, 1 role row |
| `last_admin_race`, `shared_client`, `visibility_race`, `failed_deletion` | the disagreements of section 5 | the smallest that show them |

Why the bounds are enough.  Nearly all the races here are between two requests about one user, one
organisation or one dataset, and nothing counts requests: two slots show every order of two handlers' calls.
Three users let a caller, a target and a bystander differ.  `RowIds` is as large as the rows that the seed and
two requests can make; `FreshIds` and `FreshDatasetIds` keep an id from being given out twice, as `uuid4` does
and as the CRM does.  `OrgIdsLeft` accepts a creation only while an id is left for it.  `PageSize` (1500 in the code) is
2 in `publishing`, so an organisation with both datasets fills its page exactly; with more datasets than a page holds,
`DeletionTakesDatasets` fails, as the mutant `PagesOfOne` shows, and so it would for an organisation with more than
1500.  `MaxTime` stops the clock; everything else goes on.  Three records with pages of one and two make up to three
pages, with a last one that is not full, and walks start from up to a page beyond the end.  Two admins are the fewest
of whom one can be queued and the other fail; a slot of `Membership` is not used again before its emails are sent
(`MReceive`).  Row ids, slots, dataset ids and names are symmetric: no definition tells them apart, and no liveness
property is checked under symmetry; in `serial`, which has no seed and no special users, so
are users and organisations.

A stop of the process empties every slot at once.  `failures`, `membership` and `datasets` have it.  `roles` and
`publishing` do not, for time: with `crash` among their faults TLC finds the very same states (1882445 and 849450), as
requests that are refused or fail leave what a stop leaves, and the theorems about them hold with it.  For time, too,
`publishing` has no call that raises without effect (`crm_call`), which takes the catalogue nowhere; `datasets` has.

Which overlaps the runs have.  `roles` and `datasets` have two slots and any overlap.  `serial` has two slots and keeps
only the steps after which the requests in progress are apart: about different organisations, and not both about to make
an account with one short name.  `publishing` has two slots and leaves out three: both about to write one short name
(`NamesApart`), both updating one dataset (`UpdatesApart`), one about to make a dataset for an organisation whose
datasets the other is deleting (`DeletionsApart`).  What is left out is where the properties fail, and section 5 shows
or lists it; all else is in, such as an update of a dataset that another request deletes, or a deletion that two
requests are at.  `failures` and `membership` have one slot, as every fault multiplies the states: `failures` asks what
a request leaves behind when its own calls fail, and `membership` compares the loop with the one step it
refines.  The theorems of section 4 have any number of slots.
Superadmins are in `failures` and `membership`, tool admins in `roles`; what they may do with datasets goes through the
same validator (`FgaValidator`), and the theorems about datasets cover them.  The one role row of `datasets` and
`publishing` cannot be doubled, which is left to the theorems, where `RowIds` is any set.

Fairness.  `FairSpec` of `RydApi` asks for weak fairness of the steps of each slot, and that of
`SuiteCrmClientFactory` of each thread inside `get_client`: a thread of the pool keeps running, and no call waits for
another handler (the token lock is the one exception and is modelled).  It takes for granted that every call ends, if
only by raising.  That is up to the clients of the CRM and of the database, which are not in `src/`: the code sets a
time limit for one call only, that to the identity provider (`user_crm_uuid_provider_asgardeo.py:15`), so the liveness
properties speak of the handlers' own loops and locks, and not of a CRM that never answers.  Arrivals, role changes,
crashes and the clock are not fair.  `MFairSpec` asks the same of a slot and, separately, of the tasks of its last
response, which Starlette runs once the response is sent.  In `Listings`, `Serve` is fair: the same thread, and a client
that sends the request it has chosen; nobody who changes the records is.  `EveryRequestAnswered` says that each handler
of `RydApi` ends, undo loop included; `LockIsReleased` that the lock is given back, also after a failed refresh;
`EveryAdminTold` that an email which is queued in a response that succeeds is tried; `EveryWalkEnds` that nobody is sent
from page to page for ever, however the records come and go.

What they show, besides the type invariants:

- *Authority.* `PromotionByAuthority`, `RemovalByAuthority`, `ToolsByAuthority`, `DatasetsByAuthority` and
  `VisibilityByAuthority` each say that a record only changes by the very write of a request about it, at the call that
  writes, whose caller was allowed that change at authentication.  The write itself checks nothing and comes several
  calls after the check.
- *Consistency of the two stores.* `RoleHasRelationship` (the listing of an organisation's users answers 500
  otherwise), and `ListingFailsOnlyOnJoins`, that it answers so only when a role was given between its two reads or a
  failed request undid a relationship and not the role; `NobodyLockedOut`, without creations; `ShortNamesUnique` (in `failures` with accounts whose reply was lost) and
  `DatasetNamesUnique`, while no two requests are about to write one name.
- *Undo.* `FailedCreationLeavesNoAccount`: while undo actions themselves succeed.  `DeletionTakesDatasets`: a
  deletion that is answered without an error leaves no dataset, while another request deletes or updates the same ones.
- *Emails.* `FailedJoinTellsNobody`, though emails are queued before the last admin is looked up; `EveryAdminTold`.
- *Listings.* `NothingMissed` and `NothingTwice`: exactly when records moved over to a page already passed, or not yet
  reached, can a client miss one or see one again, though the page, the count and the roles are read apart.
- *What checks establish stays true.* `RequestsSound`.
- *Refinement.* `ImplementsRegistry`: while requests are apart, the checks made over several reads are as good
  as one check at the moment of the write.  `ImplementsCatalogue`: a dataset is published, revised or withdrawn, and an
  organisation unlisted, in one step that has the caller's rights for the owner, a free name and the visibility as it is
  then, and every other step, failures and undo actions included, is nothing to the catalogue.  `ImplementsRydApi`:
  while requests are apart, `Membership` takes no step that `RydApi` does not, so emails and listings act on neither
  store and the loop is as good as the one step.

## 4. Proofs

`tlapm` checks all of these, for any users, organisations, slots, endpoints and faults.

- `RydApiProofs`: `IndInv == TypeOK /\ SuperAdminsHoldNoRole /\ RequestsSound` is inductive.  That no superadmin
  holds a role is not inductive alone, because the insert checks nothing: one needs that a request past its
  check is about someone who is no superadmin, which `RequestsSound` says, with the endpoint's role, the
  caller's authority and the row read before.  `SlotChange` reduces every step to the new content of one slot;
  there is one lemma per handler.  The theorems: types, `SuperAdminsHoldNoRole`, `RequestsSound`, and
  from the invariant the action properties `PromotionByAuthority`, `ToolsByAuthority` and `RemovalByAuthority`.  For the
  last, a late merge writes by primary key, so one needs that two rows, in the table or kept by a handler, with one id
  are about the same user and organisation (`IdsMatch`).
- `RecordProofs`: what the handlers leave in the CRM.  `RoleHasRelationship`, when nothing but crashes goes wrong
  (`OnlyCrashes`); with failing calls it does not hold, as the undo actions of a failed join delete the relationship and
  keep the row.  The lemmas say more: a step keeps it unless its handler begins to undo (`Succeeds`).  `FailedCreationLeavesNoAccount`, for any overlap and any fault: from the moment a creation knows its
  account, deleting it is the first entry of its undo list; the list is popped from its end, so it is empty only once
  that entry has run; and an account that is gone stays gone, whatever the other slots do.
- `MembershipProofs`, for any overlap and any fault but for the last.  Every step of `Membership` is one of `RydApi`,
  one that ends the loop over the admins, or leaves the tables alone (`MembershipSteps`), so the invariants carry over.
  `FailedJoinTellsNobody`: no task of a slot is left while it has a request (`NothingSentYet`).
  `ListingFailsOnlyOnJoins`, if tool admins have a record in the CRM (`ToolAdminsOnRecord`): as long as no handler has
  begun to undo, roles have their relationships, so those the CRM answered with are all who had a role then.
  `ImplementsRydApi`, while requests are apart (`Apart`): whoever is in the loop is still an admin and whoever has left
  it was found (`LoopInv`), so the loop ends as the one step would.  Without it, the creator of the
  organisation can become an admin, and one without a Contacts record, after the loop of a join has read the admins: the
  loop ends well where the one step, which looks later, would raise.
- `SerialProofs`: `OneRolePerOrg`, `ToolAuthorisedOnce`, `ShortNamesUnique` and `RemovalLeavesAdmin`, for any number of
  slots and any fault, while requests are apart (`ApartSpec`).  Each check is made some calls before the write it
  protects.  `SerialInv` says, for every label between the two, that what was found is still so: no row where one is to
  be inserted, the row to merge is the one in the table, the row to delete is neither the last nor that of the last
  admin, the short name is free.  The step of a slot keeps its own part as if it were alone, and that of every other
  slot because it only writes about its own organisation, or takes another name.  The refinement `ImplementsRegistry`
  rests on it, when no call fails (`NothingFails`): the registry decides at the moment of the write, the handler some
  calls earlier, so `ServedInv` says that somebody still has the authority the request was accepted with, that the
  account is still there and the target still no tool admin, and that an organisation being created has no role yet.
  Each write is then one operation of the registry and every other step is a stutter.
- `NobodyLockedOut` (`RydApiProofs`), for any overlap and any fault, while no tool admin creates an organisation
  (`ToolAdminsCreateNothing`).  Which tools exist and who are their admins never changes, so a target that was found to
  be no tool admin stays none.  A creation does not look, hence the hypothesis.
- `PublishingProofs`: the inductive invariant says that each record a handler is about to write belongs to the
  organisation whose permission was tested, as datasets never change owner, ids are those of one record, and
  the id of a record to be created is not one that another handler acts on (`Reserved`).  It gives
  `DatasetsByAuthority` for any number of overlapping requests; the run has two.  On top of it, each for any number of
  slots, any fault and roles that change at any moment:
  - `DatasetNamesUnique`, while no two requests are about to write one short name (`NamesApart`), as the name found free
    is still free (`NamesInv`);
  - `VisibilityByAuthority`, while no two requests update one dataset (`UpdatesApart`), as the record compared with is
    still the record (`ReadInv`);
  - `DeletionTakesDatasets`, while nobody is about to make a dataset for an organisation whose datasets have been listed
    for deletion (`DeletionsApart`) and no organisation has more datasets than a page (`OnePage`): what is left of an
    organisation is among the datasets still to be deleted (`DeletionInv`);
  - `ImplementsCatalogue`, under `NamesApart` and `UpdatesApart`: every write is one operation of `Catalogue` on what is
    true at that moment.  Deletions need nothing: the catalogue lets each dataset go on its own.
- `SuiteCrmClientFactoryProofs`: `TokenInv` is inductive, and gives that no client is made from an expired token,
  nor the private one handed to a thread that waited with one, and that a token is refreshed only when it is too old.
- `ListingProofs`: `NothingMissed` and `NothingTwice`, for any finite set of records, any page sizes and both kinds.  The
  invariant says, while nothing moved against the walk, which positions have been seen: everything that stayed and is
  sorted before the current page (behind it, when going back), and nothing beyond.  Adding records only raises the
  position of a record and taking away only lowers it; one lemma per change of the records says so.
- `FgaProofs`: lemmas on the roles table and the snapshot that these share.

Assumptions.  `FgaAssumption`, `CrmAssumption`, `CrmDatasetsAssumption`, `ValidatorAssumption` and
`AuthorisedAssumption` type the constants.  `SeedAssumption` makes the initial roles some that complete calls
leave: one per user and organisation, none of a superadmin or tool admin.  `StallAssumption` is the one that
says something of the world: a thread inside `get_client` waits at most `MaxStall` between two steps, twice that
is no more than the smallest margin set aside (`_buffer_seconds` and jitter), and three times that is less than a
token's life.  The code relies on it and cannot enforce it.

Hypotheses.  `Apart`, `ToolAdminsCreateNothing`, `NamesApart`, `UpdatesApart`, `DeletionsApart` and `OnePage` are
hypotheses of the theorems, not of the modules.  Nothing in the code ensures them: there is no lock and no constraint in
either store, so they say what each property asks of those who call the API.  Each is about the few calls between a
check and the write it protects, so any number of other requests may be in progress.  With two slots TLC finds a
counterexample to each of these properties once any one of its hypotheses is dropped: `last_admin_race` is one without `Apart`,
`visibility_race` one without `UpdatesApart`.  `NothingFails`, `OnlyCrashes` and `ToolAdminsOnRecord` are about the
constants; the runs that check the same properties have values for which they hold.

Only model-checked: the liveness properties, which are out of the prover's reach.

## 5. Where the code and what is said of it disagree

Each has a run that TLC must find violated; quotes and lines are in `PROJECT.json`.

1. `last_admin_race`: two admins removed at the same time leave an organisation with no member, though each
   removal counted the admins before.
2. `shared_client`: `get_client` "gets a new SuiteCRM client", but threads that waited for a refresh all get the
   factory's private one.
3. `visibility_race`: a contributor's update, checked against the visibility that was read, puts that visibility
   back after an editor has changed it.
4. `failed_deletion`: approval is never given back when a deletion fails, because the flag is compared
   with `True` and is a string.

Related behaviours met on the way, which no text of the repository contradicts and so have no run:

- two overlapping requests to join give two rows, and every later request about them is an integrity error;
  two overlapping authorisations of one tool likewise; two overlapping creations can take one short name, of
  organisations and of datasets;
- a user who is removed while their role is being changed comes back with the new role, by the late merge;
- a tool's admin who creates an organisation that then authorises the tool is refused everything, since
  creation does not look for tool roles as joining does;
- a creator without a Contacts record makes the creation fail at its last call: the account is undone and the
  creator's ADMIN row stays, in an organisation that is not there;
- a creation whose `create_record` reply is lost leaves an account that no undo action knows of, and its
  short name taken;
- a dataset created, or a role given, by a request that was checked before an organisation was deleted outlives it;
- `GET /discoverable-reporting-orgs` filters on discoverability only when it is given a search text, so without one it
  lists the organisations that were hidden for their deletion as well;
- PATCH of an organisation writes null for the fields that the request leaves out;
- a user who joins while the users of the organisation are being listed makes the listing answer 500;
- the emails of a join are lost when the process stops after the answer, and nothing sends them later;
- the roles of an organisation are deleted before its datasets, so when a dataset cannot be deleted its admins
  can no longer try again; only a superadmin can.

## 6. Not modelled

- Token authentication: stateless checks of one token; the models start where they have passed.
- The GET routes of one organisation, one dataset and of an organisation's tools: single look-ups.
- Descriptive fields of organisations, datasets and users, and the converters that rename them; the text of emails;
  status codes and their wording beyond error or success.
- Audit log, CORS, Sentry, the application context and the migrations: no state that the API acts on.
- In `Membership`: the order of a response's tasks; the branch of the listing that is about provider admins
  (`Nameless`) is modelled and, since the run has no tools, not exercised.  Its refinement of `RydApi` is for requests
  that are apart: otherwise `JoinNotify` reads the admins at another moment than the loop does.

## 7. Plan

Done: the role and organisation routes with their abstract registry; the token cache; publishing with its abstract
catalogue; emails, listings of users and walks through pages; the update of an organisation; the theorems of section 4.

Left:

1. A deletion of organisations that runs together with the role endpoints themselves, where `RydApi` and `Publishing`
   meet; today role changes are any single write.  Their state spaces multiply, so it needs a cut of both, or a proof
   alone.
2. Proofs: a registry that failed requests, too, leave as one of its operations or as it was.  `ImplementsRegistry` has
   that only when no call fails, since a creation whose account is undone is then two steps of the registry.
