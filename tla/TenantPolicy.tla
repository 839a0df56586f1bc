---------------------------- MODULE TenantPolicy ----------------------------
(***************************************************************************)
(* internal/policy: what a tenant policy allows, and the name of the user  *)
(* a credential gets.  Lists with +listType=set are sets; "" is the        *)
(* omitted database.                                                       *)
(***************************************************************************)

Roles == {"VIEWER", "EDITOR", "OWNER"}

DatabaseUserPolicy == [allowedDatabases : SUBSET STRING, allowedRoles : SUBSET Roles]

NamespaceUserPolicy == [allowed : BOOLEAN, allowedRoles : SUBSET Roles]

TenantPolicySpec ==
  [providerRef : STRING, surrealNamespace : STRING \ {""},
   databaseUsers : DatabaseUserPolicy, namespaceUsers : NamespaceUserPolicy]

missingRoles(allowed, requested) == requested \ allowed

\* The first reason to deny a database-level request, or "Allowed".
DatabaseVerdict(policy, request) ==
  IF request.database = ""
  THEN "DatabaseRequired"
  ELSE IF request.database \notin policy.databaseUsers.allowedDatabases
  THEN "DatabaseDenied"
  ELSE IF missingRoles(policy.databaseUsers.allowedRoles, request.roles) # {}
  THEN "RoleDenied"
  ELSE "Allowed"

\* The same for a namespace-level request.
NamespaceVerdict(policy, request) ==
  IF ~policy.namespaceUsers.allowed
  THEN "NamespaceUsersDenied"
  ELSE IF request.database # ""
  THEN "DatabaseForbidden"
  ELSE IF missingRoles(policy.namespaceUsers.allowedRoles, request.roles) # {}
  THEN "RoleDenied"
  ELSE "Allowed"

\* The SurrealDB scope a request resolves to under a policy.
UserTarget(policy, request) ==
  [ProviderName     |-> policy.providerRef,
   SurrealNamespace |-> policy.surrealNamespace,
   Database         |-> request.database,
   Level            |-> request.level]

Evaluate(policy, request) ==
  LET reason == IF request.roles = {} THEN "NoRoles"
                ELSE IF request.level = "Database"
                THEN DatabaseVerdict(policy, request)
                ELSE IF request.level = "Namespace"
                THEN NamespaceVerdict(policy, request)
                ELSE "InvalidLevel"
  IN  [Allowed |-> reason = "Allowed",
       Reason  |-> reason,
       Target  |-> UserTarget(policy, request)]

\* The username is a hash of the credential's name and its target behind a
\* readable prefix; two inputs give one name only if SHA-256 collides on its
\* leading characters, so the name is modelled by what is hashed.
Username(credentialName, target) ==
  [credential |-> credentialName, target |-> target]

=============================================================================
