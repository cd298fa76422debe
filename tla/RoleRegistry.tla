----------------------------- MODULE RoleRegistry ----------------------------
(***************************************************************************)
(* What the role endpoints promise: a registry where each operation        *)
(* happens at once, decides on what is true at that moment and takes       *)
(* effect completely or not at all.  RydApi implements it while requests   *)
(* in progress are about different organisations and short names and no    *)
(* call fails.                                                             *)
(***************************************************************************)
EXTENDS FiniteSets

CONSTANTS
    Users,
    Orgs,
    Tools,
    SuperAdmins,    \* may do everything and belong to no organisation
    ToolAdmins      \* pairs <<tool, user>>

MemberRoles == {"CONTRIBUTOR_PENDING", "CONTRIBUTOR", "EDITOR", "ADMIN"}

VARIABLES
    open,           \* organisations that are registered
    role,           \* role[u][o], or "NONE"
    allowed         \* pairs <<tool, org>>: the tools an organisation lets in

registryVars == <<open, role, allowed>>

Members(o) == {u \in Users : role[u][o] # "NONE"}

Admins(o) == {u \in Users : role[u][o] = "ADMIN"}

MayManageUsers(by, o) == by \in SuperAdmins \/ role[by][o] = "ADMIN"

MayManageTools(by, o) == by \in SuperAdmins \/ role[by][o] \in {"ADMIN", "EDITOR"}

SetRole(u, o, r) == role' = [role EXCEPT ![u][o] = r]

RegistryInit ==
    /\ open \subseteq Orgs
    /\ role \in [Users -> [Orgs -> MemberRoles \cup {"NONE"}]]
    /\ \A u \in Users, o \in Orgs : role[u][o] # "NONE" => o \in open /\ u \notin SuperAdmins
    /\ allowed = {}

Register(u, o) ==
    /\ o \notin open
    /\ Members(o) = {}
    /\ open' = open \cup {o}
    /\ IF u \in SuperAdmins THEN UNCHANGED role ELSE SetRole(u, o, "ADMIN")
    /\ UNCHANGED allowed

AskToJoin(u, o) ==
    /\ o \in open
    /\ u \notin SuperAdmins
    /\ u \notin Members(o)
    /\ \A t \in Tools : <<t, u>> \notin ToolAdmins
    /\ SetRole(u, o, "CONTRIBUTOR_PENDING")
    /\ UNCHANGED <<open, allowed>>

GiveRole(by, u, o, r) ==
    /\ o \in open
    /\ MayManageUsers(by, o)
    /\ u \notin SuperAdmins
    /\ \A t \in Tools : <<t, u>> \notin ToolAdmins
    /\ r # "CONTRIBUTOR_PENDING"
    /\ SetRole(u, o, r)
    /\ UNCHANGED <<open, allowed>>

TakeRole(by, u, o) ==
    /\ o \in open
    /\ MayManageUsers(by, o)
    /\ u \in Members(o)
    /\ Members(o) # {u}
    /\ Admins(o) # {u}
    /\ SetRole(u, o, "NONE")
    /\ UNCHANGED <<open, allowed>>

LetIn(by, t, o) ==
    /\ MayManageTools(by, o)
    /\ <<t, o>> \notin allowed
    /\ allowed' = allowed \cup {<<t, o>>}
    /\ UNCHANGED <<open, role>>

ShutOut(by, t, o) ==
    /\ MayManageTools(by, o)
    /\ <<t, o>> \in allowed
    /\ allowed' = allowed \ {<<t, o>>}
    /\ UNCHANGED <<open, role>>

RegistryNext ==
    \E by \in Users, o \in Orgs :
        \/ Register(by, o)
        \/ AskToJoin(by, o)
        \/ \E u \in Users, r \in MemberRoles : GiveRole(by, u, o, r)
        \/ \E u \in Users : TakeRole(by, u, o)
        \/ \E t \in Tools : LetIn(by, t, o) \/ ShutOut(by, t, o)

RegistrySpec == RegistryInit /\ [][RegistryNext]_registryVars
=============================================================================
