---------------------------- MODULE MCCredential ----------------------------
(***************************************************************************)
(* Instances of CredentialController for TLC: the specs and policies that  *)
(* users and platform teams write in the runs.                             *)
(***************************************************************************)
EXTENDS CredentialRefinement, CredentialInvariants

CONSTANTS c1, c2, s1, policy

Reader == [level |-> "Database", database |-> "app", roles |-> {"VIEWER"},
           targetSecret |-> s1, period |-> None]
Writer == [Reader EXCEPT !.roles = {"EDITOR"}]

\* The same request for another database: another SurrealDB user.
Elsewhere == [Reader EXCEPT !.database = "other"]

\* A database whose name cannot be quoted.
Odd == [Reader EXCEPT !.database = "odd"]

\* Scheduled rotation with two periods, and other roles.
Hourly == [Reader EXCEPT !.period = 1]
Daily  == [Reader EXCEPT !.period = 2, !.roles = {"EDITOR"}]

Allowing == [providerRef |-> "primary", surrealNamespace |-> "demo",
             databaseUsers |-> [allowedDatabases |-> {"app", "other", "odd"},
                                allowedRoles |-> {"VIEWER", "EDITOR"}],
             namespaceUsers |-> [allowed |-> FALSE, allowedRoles |-> {}]]

\* The database is not to be used.
Closed == [Allowing EXCEPT !.databaseUsers.allowedDatabases = {"other"}]

OneSpec   == {Reader}
RoleSpecs == {Reader, Writer}
TwoTargets == {Reader, Elsewhere}
OddSpecs  == {Reader, Odd}
Periods   == {Hourly, Daily}

OnePolicy   == {Allowing}
TwoPolicies == {Allowing, Closed}
=============================================================================
