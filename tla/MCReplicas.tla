----------------------------- MODULE MCReplicas -----------------------------
(* An instance of Replicas for TLC. *)
EXTENDS Replicas

CONSTANTS c1, c2, s1, policy

Reader == [level |-> "Database", database |-> "app", roles |-> {"VIEWER"},
           targetSecret |-> s1, period |-> None]
Writer == [Reader EXCEPT !.roles = {"EDITOR"}]

Allowing == [providerRef |-> "primary", surrealNamespace |-> "demo",
             databaseUsers |-> [allowedDatabases |-> {"app"},
                                allowedRoles |-> {"VIEWER", "EDITOR"}],
             namespaceUsers |-> [allowed |-> FALSE, allowedRoles |-> {}]]

MCSpecs    == {Reader, Writer}
MCPolicies == {Allowing}

\* Credentials are created as readers.  The two roles are interchangeable here, and
\* so are the behaviours that begin with a writer.
CreatedAsReader ==
  \A c \in Creds : LET o == api[c].obj
                   IN  o # Absent /\ o.gen = 1 => o.spec = Reader

\* The second credential comes after the first.  The names are interchangeable.
InOrder == api[c2].rv > 0 => api[c1].rv > 0

Undeleted ==
  \A c \in Creds : LET o == api[c].obj
                   IN  IF o = Absent THEN api[c].rv = 0 ELSE ~o.deleting

\* A is the process that creates the Secret.  Where both work they are interchangeable.
FirstByA == api[s1].rv = 1 => api[s1].obj.pw \in PasswordsA

\* With leader election one credential goes through everything, and a second failure
\* comes in behaviours without a lagging start.  Without, there are two credentials
\* for one Secret, and none is deleted.
Bounds ==
  /\ CreatedAsReader
  /\ IF elect THEN api[c2].rv = 0 /\ (faults <= 1 \/ lag = 0)
     ELSE InOrder /\ Undeleted /\ FirstByA

\* Where both processes work no informer replays its cache.
ResyncIfElect == elect \/ \A c \in Creds : ~ResyncA(c) /\ ~ResyncB(c)
=============================================================================
