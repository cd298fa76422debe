---------------------------- MODULE FgaValidator -----------------------------
(***************************************************************************)
(* auth/fga/fga_validator.py and auth/authz.py: what a user may do, from   *)
(* the snapshot of the tables that authentication takes.  The snapshot a   *)
(* request carries is the one value its handler asks of it: the user's     *)
(* role for the organisation the request names.                            *)
(***************************************************************************)
EXTENDS FgaProvider

CONSTANTS
    Clients,        \* OAuth client applications a token can be issued to
    ClientOf        \* the client application of each tool

ASSUME ValidatorAssumption == ClientOf \in [Tools -> Clients]

\* "NONE" is the code's None.  "UNKNOWN" is the RuntimeError("Validator in an
\* unknown state"): each handler answers it with an error, before any effect.
Authorities == DirectRoles \cup {"PROVIDER_ADMIN", "SUPER_ADMIN", "NONE", "UNKNOWN"}

\* Mutant: a contributor has the permissions of an editor.
PermissionsOfEditors(authority) ==
    CASE authority \in {"CONTRIBUTOR", "EDITOR", "PROVIDER_ADMIN"} ->
            {"read-org", "update-org", "create-dataset", "read-dataset",
             "update-dataset", "update-dataset-visibility", "delete-dataset"}
      [] authority = "ADMIN" ->
            {"read-org", "update-org", "delete-org", "create-dataset",
             "read-dataset", "update-dataset", "update-dataset-visibility",
             "delete-dataset", "set-org-user-authz"}
      [] OTHER -> {}

Permissions(authority) ==
    CASE authority = "CONTRIBUTOR" ->
            {"read-org", "create-dataset", "read-dataset", "update-dataset"}
      [] authority \in {"EDITOR", "PROVIDER_ADMIN"} ->
            {"read-org", "update-org", "create-dataset", "read-dataset",
             "update-dataset", "update-dataset-visibility", "delete-dataset"}
      [] authority = "ADMIN" ->
            {"read-org", "update-org", "delete-org", "create-dataset",
             "read-dataset", "update-dataset", "update-dataset-visibility",
             "delete-dataset", "set-org-user-authz"}
      [] OTHER -> {}

\* The role of u, logged in through client c, for o.  A provider admin is one
\* only through the client application of a tool that o has authorised.
RoleForOrg(u, c, o) ==
    CASE IsSuperAdmin(u) -> "SUPER_ADMIN"
      [] ~IsSuperAdmin(u) /\ RowsFor(u, o) # {} ->
            IF \E r1, r2 \in RowsFor(u, o) : r1 # r2
            THEN "UNKNOWN"
            ELSE (CHOOSE r \in RowsFor(u, o) : TRUE).role
      [] ~IsSuperAdmin(u) /\ RowsFor(u, o) = {} ->
            IF \E t \in ProviderTools(u, o) : ClientOf[t] = c
            THEN "PROVIDER_ADMIN"
            ELSE "NONE"

\* The user_can_... methods that only look up a permission.
Can(authority, permission) ==
    authority = "SUPER_ADMIN" \/ permission \in Permissions(authority)

\* Mutant: the permission of those who may edit the organisation.
EditorsModifyUserRoles(authority) == Can(authority, "update-org")

CanModifyUserRoles(authority) == Can(authority, "set-org-user-authz")

\* Mutant: whoever may update the organisation may manage its tools.
UpdatersManageTools(authority) == Can(authority, "update-org")

\* Provider admins hold update-org but may not manage the tools of an org.
CanUpdateToolAuthorisations(authority) ==
    \/ authority = "SUPER_ADMIN"
    \/ authority # "PROVIDER_ADMIN" /\ "update-org" \in Permissions(authority)
=============================================================================
