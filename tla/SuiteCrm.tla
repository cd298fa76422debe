------------------------------- MODULE SuiteCrm ------------------------------
(***************************************************************************)
(* SuiteCRM, the external system of record, as the handlers use it through *)
(* the libsuitecrm client: every operator is one HTTP call.  The calls     *)
(* that create, change or link a record need the record; deleting a        *)
(* relationship that is not there changes nothing.                         *)
(***************************************************************************)
EXTENDS RegistryIds

CONSTANTS
    Contacts,       \* the users that have a record in the Contacts module
    Names           \* short names of reporting organisations

NoName == "no_name"

ASSUME CrmAssumption == Contacts \subseteq Users /\ NoName \notin Names

VARIABLES
    accounts,       \* the Accounts module: reporting organisations
    links           \* relationships between Accounts and Contacts

crmVars == <<accounts, links>>

\* An id is "unused" until a record gets it, and "dropped" for ever after.
Account == [state: {"unused", "present", "dropped"},
            name: Names \cup {NoName},
            discoverable: BOOLEAN]

Unused  == [state |-> "unused", name |-> NoName, discoverable |-> FALSE]
Dropped == [state |-> "dropped", name |-> NoName, discoverable |-> FALSE]

CrmTypeOK ==
    /\ accounts \in [Orgs -> Account]
    /\ links \subseteq Users \X Orgs

AccountExists(o) == accounts[o].state = "present"

Linked(u, o) == <<u, o>> \in links

\* Mutant: only the accounts that are not discoverable are looked through.
NameInUseUndiscovered(n) ==
    \E o \in Orgs : AccountExists(o) /\ ~accounts[o].discoverable /\ accounts[o].name = n

\* get_num_crm_records on the short name of discoverable accounts is not 0.
NameInUse(n) ==
    \E o \in Orgs : AccountExists(o) /\ accounts[o].discoverable /\ accounts[o].name = n

CreateAccount(o, n) ==
    /\ accounts[o].state = "unused"
    /\ accounts' = [accounts EXCEPT
            ![o] = [state |-> "present", name |-> n, discoverable |-> TRUE]]
    /\ UNCHANGED links

DropAccount(o) ==
    /\ accounts' = [accounts EXCEPT ![o] = Dropped]
    /\ UNCHANGED links

CreateLink(u, o) ==
    /\ AccountExists(o)
    /\ links' = links \cup {<<u, o>>}
    /\ UNCHANGED accounts

DeleteLink(u, o) ==
    /\ links' = links \ {<<u, o>>}
    /\ UNCHANGED accounts
=============================================================================
