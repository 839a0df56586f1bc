------------------------ MODULE CredentialRefinement ------------------------
(***************************************************************************)
(* The credential controller implements CredentialService: what a tenant   *)
(* sees of it is what is committed to the API server and to SurrealDB.     *)
(***************************************************************************)
EXTENDS CredentialProperties

Phase(o) ==
  IF o.deleting THEN "leaving" ELSE IF o.finalizer THEN "protected" ELSE "requested"

Seen(o) == IF o = Absent THEN None ELSE [uid |-> o.uid, phase |-> Phase(o)]

\* The tenant of the service does not look at the URL.
Shown(o) ==
  IF o = Absent THEN Absent ELSE [owner |-> o.owner, user |-> o.user, pw |-> o.pw]

Service == INSTANCE CredentialService WITH
  credential <- [c \in Creds |-> Seen(api[c].obj)],
  account    <- users,
  secret     <- [s \in SecretNames |-> Shown(api[s].obj)]

\* The markers are not what they stand for the absence of.
ASSUME MarkersAssumption ==
  /\ None \notin [uid : Nat, phase : Service!Phases]
  /\ Absent \notin [owner : Owner \cup {None}, user : Users \cup {None},
                  pw : Nat \cup {None}]

\* Every step of the controller, of its caches and of its users is a step of
\* the service or invisible to the tenant: whatever a stale read, a lost
\* answer or a restart does, an account is made only under the finalizer and
\* gone before it, and a Secret is written only with a live account's password
\* (controller 80-83, 136-147, 268-278).  This needs credentials that keep their
\* target (see NoOrphanUser) and no force cleanup, which leaves the account behind.
ImplementsService == Service!Spec
=============================================================================
