------------------------------- MODULE Requests ------------------------------
(***************************************************************************)
(* The request handlers as processes.  The handlers are plain functions,   *)
(* so FastAPI runs each one in a thread of its pool: a slot is one such    *)
(* thread.  A handler does one database transaction or one CRM call per    *)
(* step, nothing is locked from one to the next, and any other slot may    *)
(* run in between.                                                         *)
(*                                                                         *)
(* A request enters with the snapshot get_user_authnz took of its user's   *)
(* authority.  An answer ends the request and frees the slot.              *)
(***************************************************************************)
EXTENDS FgaValidator, SuiteCrm, Sequences

CONSTANTS
    Slots,          \* threads that serve requests
    Ops,            \* the endpoints that are called
    Faults          \* what can go wrong, see below

\* "crm_call":  a CRM call raises and has had no effect
\* "crm_reply": a CRM call takes effect and the client raises all the same
\* "db_call":   a database session raises, its transaction is rolled back
\* "crash":     the process stops, every request in progress with it
FaultKinds == {"crm_call", "crm_reply", "db_call", "crash"}

ASSUME RequestsAssumption == Faults \subseteq FaultKinds

VARIABLE req        \* req[s]: what slot s is doing

vars == <<fga, toolAuth, accounts, links, req>>

NoOrg == "no_org"
NoTool == "no_tool"

UndoActions == {"delete_relationship", "delete_account"}

Labels == {"check", "create_account", "link", "create_role", "notify",
           "contact", "read_link", "repair_link", "read_role", "merge",
           "read_org", "delete", "write_tool", "undo"}

Operations == {"join", "update", "remove", "create_org", "authorise", "revoke"}

Request == [pc: Labels,                         \* the next step of the handler
            op: Operations,
            authz: Authorities,                 \* the caller's, when they authenticated
            org: Orgs \cup {NoOrg},
            target: Users,                      \* whose role is concerned: the caller, or
                                                \* the user an update or remove names
            role: DirectRoles \cup {"NONE"},    \* the role the request gives
            tool: Tools \cup {NoTool},
            name: Names \cup {NoName},
            held: SUBSET Rows,                  \* the association read and kept
            undo: Seq(UndoActions)]             \* the undo_actions list

Idle == [pc |-> "idle"]

RequestsTypeOK == req \in [Slots -> Request \cup {Idle}]

-----------------------------------------------------------------------------
(* Arrival, progress, answer.                                              *)

\* What a request of u concerning o starts with.
Arrival(op, u, authority, o) ==
    [pc |-> "check", op |-> op, authz |-> authority, org |-> o, target |-> u,
     role |-> "NONE", tool |-> NoTool, name |-> NoName,
     held |-> {}, undo |-> <<>>]

\* get_user_authnz: a user whose permissions are in conflict gets a 500 and
\* no handler runs.
Accept(s, u, r) ==
    /\ r.op \in Ops
    /\ ~PermissionsConflict(u)
    /\ req' = [req EXCEPT ![s] = r]

At(s, op, label) == req[s].pc = label /\ req[s].op = op

Goto(s, label) == req' = [req EXCEPT ![s].pc = label]

\* The handler returns or raises, whatever the status code.
Answer(s) == req' = [req EXCEPT ![s] = Idle]

\* A primary key no row has, nor any association a handler still holds.
FreshIds ==
    RowIds \ ({r.id : r \in fga}
              \cup UNION {{r.id : r \in req[s].held} : s \in {t \in Slots : req[t] # Idle}})

-----------------------------------------------------------------------------
(* utilities.py, perform_undo_actions: the undo actions registered so far  *)
(* run last one first.  One that raises ends the request: the exception    *)
(* leaves the loop and the rest of the list is never run.                  *)

\* Mutant: a handler that fails starts again.
FailAndRetry(s) == Goto(s, "check")

Fail(s) == Goto(s, "undo")

\* Mutant: one undo action is run, not all of them.
PoppedAll(undo) == <<>>

\* The list without its last action: undo_actions.pop().
Popped(undo) == SubSeq(undo, 1, Len(undo) - 1)

RunUndoAction(s) ==
    /\ req[s].pc = "undo"
    /\ req[s].undo # <<>>
    /\ LET r == req[s] IN
        /\ \/ r.undo[Len(r.undo)] = "delete_relationship" /\ DeleteLink(r.target, r.org)
           \/ r.undo[Len(r.undo)] = "delete_account" /\ DropAccount(r.org)
        /\ req' = [req EXCEPT ![s].undo = Popped(@)]
    /\ UNCHANGED fgaVars

UndoActionRaises(s) ==
    /\ "crm_call" \in Faults
    /\ req[s].pc = "undo"
    /\ req[s].undo # <<>>
    /\ Answer(s)
    /\ UNCHANGED <<fga, toolAuth, accounts, links>>

UndoEnds(s) ==
    /\ req[s].pc = "undo"
    /\ req[s].undo = <<>>
    /\ Answer(s)
    /\ UNCHANGED <<fga, toolAuth, accounts, links>>

Undo(s) == RunUndoAction(s) \/ UndoActionRaises(s) \/ UndoEnds(s)

\* The process stops and starts again: no undo action of any handler runs.
Crash ==
    /\ "crash" \in Faults
    /\ \E s \in Slots : req[s] # Idle
    /\ req' = [s \in Slots |-> Idle]
    /\ UNCHANGED <<fga, toolAuth, accounts, links>>
=============================================================================
