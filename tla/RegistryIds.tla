----------------------------- MODULE RegistryIds -----------------------------
(***************************************************************************)
(* The ids that the authorisation database and the CRM share: a user is    *)
(* the id of a Contacts record, an organisation that of an Accounts record.*)
(***************************************************************************)

CONSTANTS
    Users,          \* people who authenticate or are named in a request
    Orgs            \* ids that reporting organisations can have
=============================================================================
