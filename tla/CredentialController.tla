------------------------ MODULE CredentialController ------------------------
(***************************************************************************)
(* internal/controller/surrealdbcredential_controller.go: the reconciler   *)
(* that gives every SurrealDBCredential a SurrealDB user and a Secret.     *)
(*                                                                         *)
(* One worker takes a key from the work queue and runs Reconcile for it.   *)
(* The job record holds the locals of that call; pc says which external    *)
(* call comes next (SurrealDB, or a write to the API server).  Everything  *)
(* a call computes between two external calls is one action: it only reads *)
(* the informer cache, which may lag the API server by any amount, so no   *)
(* interleaving is lost.  A call can fail, or take effect and still be     *)
(* reported as failed; the process can restart between any two steps.      *)
(***************************************************************************)
EXTENDS ApiServer, RotationDecision, TenantPolicy, FiniteSets

CONSTANTS
  Creds,         \* names of credentials, all in one Kubernetes namespace
  SecretNames,   \* names of Secrets in that namespace
  PolicyName,    \* the one tenant policy the credentials refer to
  Specs,         \* the credential specs users write
  Policies,      \* the policy specs platform teams write
  Triggers,      \* values of the rotate-at annotation
  Passwords,     \* the pool fresh passwords are drawn from
  Endpoints,     \* the URLs providers may have
  Unquotable,    \* the names of databases and namespaces with control characters
  EnvEdits,      \* the kinds of edit users make in this instance
  Persistent,    \* the kinds of call that may fail for ever
  MaxEdits,      \* bound: edits users make
  MaxFaults,     \* bound: failed calls and restarts
  MaxLag,        \* bound: reconciles started on a lagging cache
  MaxTime        \* bound: the clock

VARIABLES
  users,         \* SurrealDB: users[u] is the account of u, or None
  queue,         \* the work queue: keys waiting for the worker
  timer,         \* timer[c]: when RequeueAfter puts c back, or None
  job,           \* the worker's Reconcile call in progress
  now,           \* the clock
  edits, faults, lag   \* what has been used of the bounds

ASSUME NamesAssumption ==
  /\ Creds \cap SecretNames = {}
  /\ PolicyName \notin Creds \cup SecretNames
  /\ Passwords \subseteq Nat
  /\ MaxEdits \in Nat /\ MaxFaults \in Nat /\ MaxLag \in Nat /\ MaxTime \in Nat

vars == <<api, cache, pending, users, queue, timer, job, now, edits, faults, lag>>

Keys == Creds \cup SecretNames \cup {PolicyName}

\* What SurrealDB accounts can be named: every credential at every target.
Targets == {UserTarget(p, s) : p \in Policies, s \in Specs}
Users   == {Username(c, t) : c \in Creds, t \in Targets}

-----------------------------------------------------------------------------
(* Conditions (internal/conditions).  A condition is its reason and the    *)
(* generation it was observed at; its status follows from the reason.      *)

ConditionTypes == {"Ready", "PolicyAccepted", "UserDefined", "SecretReady"}

TrueReasons == {"Reconciled", "Allowed", "DefineUserSucceeded", "SecretWritten"}

FalseReasons == {"PolicyNotFound", "PolicyDenied", "ProviderNotFound",
                 "ProviderSecretInvalid", "SecretConflict", "RotationFailed",
                 "SurrealDBUnavailable", "DefineUserFailed", "RemoveUserFailed",
                 "SecretDeleteFailed"}

Set(conds, generation, type, reason) ==
  [conds EXCEPT ![type] = [reason |-> reason, gen |-> generation]]

Ready(conds, generation) == Set(conds, generation, "Ready", "Reconciled")

\* Mutant: the failure is not recorded.
NotReadyForgotten(conds, generation, reason) == conds

NotReady(conds, generation, reason) == Set(conds, generation, "Ready", reason)

-----------------------------------------------------------------------------
(* Objects.  status.user stands for the provider, namespace, database and  *)
(* username the status reports.                                            *)

NewStatus ==
  [obsGen  |-> 0,    user    |-> None, lastRot |-> None,
   nextRot |-> None, lastTrig |-> None,
   conds   |-> [t \in ConditionTypes |-> [reason |-> "Unset", gen |-> 0]]]

NewCredential(uid, spec) ==
  [uid |-> uid, gen |-> 1, deleting |-> FALSE, finalizer |-> FALSE,
   force |-> FALSE, rotateAt |-> None, spec |-> spec, status |-> NewStatus]

\* A Secret somebody else made under a target name.
ForeignSecret == [owner |-> None, user |-> None, pw |-> None, url |-> None]

OwnerReference(c, o) == [credential |-> c, uid |-> o.uid]

\* Mutant: the Secret has no owner reference.
BuildTargetSecretUnowned(c, o, user, password, url) ==
  [owner |-> None, user |-> user, pw |-> password, url |-> url]

\* secrets.BuildTargetSecret: the connection data is the user, its password and
\* the URL of the provider.
BuildTargetSecret(c, o, user, password, url) ==
  [owner |-> OwnerReference(c, o), user |-> user, pw |-> password, url |-> url]

IsOwnedByCredential(secret, c, o) == secret.owner = OwnerReference(c, o)

\* Mutant: any Secret of the right name will do.
EnsureCanManageAny(secret, c, o) == TRUE

EnsureCanManage(secret, c, o) ==
  secret # Absent => IsOwnedByCredential(secret, c, o)

\* The password to reuse, None when the Secret is missing or has none.
ExistingPassword(secret) == IF secret = Absent THEN None ELSE secret.pw

-----------------------------------------------------------------------------
(* Queries (internal/surreal/queries.go), by whether they can be built.  A  *)
(* username is never empty and has no control characters.                   *)

EscapeIdent(name) == name # "" /\ name \notin Unquotable

usePrefix(target) ==
  /\ EscapeIdent(target.SurrealNamespace)
  /\ target.Level = "Database" => EscapeIdent(target.Database)

renderRoles(roles) == roles # {} /\ roles \subseteq Roles

DefineUserQuery(target, roles) == usePrefix(target) /\ renderRoles(roles)

RemoveUserQuery(target) == usePrefix(target)

-----------------------------------------------------------------------------
(* External calls *)

Outcomes == {"ok", "failed", "lost"}   \* lost: took effect, reported as failed

\* Failures of a kind that is not Persistent are bounded.
Charge(kind, failed) ==
  IF failed /\ kind \notin Persistent
  THEN faults < MaxFaults /\ faults' = faults + 1
  ELSE UNCHANGED faults

\* A write of object o to key k, which the API server accepts or rejects.
Request(k, o, accepted, kind, out) ==
  /\ out = "ok" \/ accepted
  /\ IF accepted /\ out # "failed" THEN Commit(k, o) ELSE UNCHANGED store
  /\ Charge(kind, out # "ok")

\* Mutant: errors other than a rejection are dropped.
ErroredRejectedOnly(accepted, out) == ~accepted

\* The error the caller sees: a rejection, or a call that went wrong.
Errored(accepted, out) == ~accepted \/ out # "ok"

\* crypto/rand: 48 characters never repeat a password that is still around.
LivePasswords ==
  {users[u].pw : u \in {w \in Users : users[w] # None}} \cup
  UNION {{v.obj.pw : v \in {w \in Versions(s) : w.obj # Absent}} : s \in SecretNames}

FreshPasswords ==
  LET unused == Passwords \ LivePasswords
  IN  {p \in unused : \A q \in unused : p <= q}

-----------------------------------------------------------------------------
(* The worker *)

\* credential is what r.Get returned, with the version it carries; existing is
\* the target Secret that was read; after is what follows the status update.
IdleJob ==
  [pc |-> "idle", req |-> None, credential |-> None, existing |-> None,
   user |-> None, password |-> None, url |-> None, decision |-> None,
   status |-> None, after |-> None]

\* A Reconcile call for c that goes on to the external call at pc.
Call(c, pc) == [IdleJob EXCEPT !.pc = pc, !.req = c, !.credential = cache[c]]

CacheLags == \E k \in Keys : pending[k] # {}

\* The worker takes c from the queue.  Starts on a lagging cache are bounded.
Begin(c) ==
  /\ job.pc = "idle"
  /\ c \in queue
  /\ IF CacheLags THEN lag < MaxLag /\ lag' = lag + 1 ELSE UNCHANGED lag

\* The earlier of two times, either of which may be None.
Earlier(s, t) == IF s = None \/ (t # None /\ t < s) THEN t ELSE s

\* What controller-runtime does with the result of a call for c: an error and
\* Requeue put the key back, RequeueAfter sets a timer.
Requeue(c, result) ==
  queue' = IF result = "requeue" THEN queue \cup {c} ELSE queue \ {c}

\* The timers after RequeueAfter: a delay of exactly zero sets none.
Scheduled(c, time) ==
  {[timer EXCEPT ![c] = Earlier(@, time)]} \cup (IF time = now THEN {timer} ELSE {})

\* The same at the end of a call whose key has left the queue.
Return(result) ==
  /\ job' = IdleJob
  /\ queue' = IF result = "requeue" THEN queue \cup {job.req} ELSE queue
  /\ timer' \in IF result = "schedule" THEN Scheduled(job.req, job.status.nextRot)
                ELSE {timer}

\* The rest of a call that does not return yet.
Continue(next) == job' = next /\ UNCHANGED <<queue, timer>>

-----------------------------------------------------------------------------
(* resolve: the policy, the provider, its root Secret and its TLS Secrets.  *)
(* Only the policy is state here; what the reads of the provider and of its *)
(* Secrets find is chosen, and charged when it is not "Resolved".           *)

ProviderReads ==
  {"Resolved", "ProviderNotFound", "RootCredentialError", "ProviderSecretInvalid"}

\* What resolve says when it says no.
Refusals == {"PolicyNotFound", "PolicyDenied", "ProviderNotFound", "ProviderSecretInvalid"}

Evaluation(o) == Evaluate(cache[PolicyName].obj, o.spec)

resolve(o) ==
  IF cache[PolicyName].obj = Absent THEN {"PolicyNotFound"}
  ELSE IF ~Evaluation(o).Allowed THEN {"PolicyDenied"}
  ELSE ProviderReads

\* The status resolve leaves on a credential it could not resolve.
UnresolvedStatus(o, reason) ==
  [o.status EXCEPT
     !.obsGen = o.gen,
     !.conds  = IF reason = "PolicyDenied"
                THEN Set(NotReady(@, o.gen, reason), o.gen, "PolicyAccepted", reason)
                ELSE NotReady(@, o.gen, reason)]

-----------------------------------------------------------------------------
(* Reconcile *)

Gone(o)  == o # Absent => (o.deleting /\ ~o.finalizer)

\* Mutant: work starts without the finalizer.
LiveUnprotected(o) == o # Absent /\ ~o.deleting

Live(o)  == o # Absent /\ ~o.deleting /\ o.finalizer
Dying(o) == o # Absent /\ o.deleting /\ o.finalizer

\* Not found, or deleted without our finalizer: nothing to do.
ReconcileGone(c) ==
  /\ Begin(c)
  /\ Gone(cache[c].obj)
  /\ Requeue(c, "done")
  /\ UNCHANGED <<store, users, timer, job, now, edits, faults>>

\* The first reconcile only adds the finalizer.
AddFinalizer(c, out) ==
  LET o        == cache[c].obj
      accepted == AcceptsUpdate(c, cache[c].rv)
  IN  /\ Begin(c)
      /\ o # Absent /\ ~o.deleting /\ ~o.finalizer
      /\ Request(c, [o EXCEPT !.finalizer = TRUE], accepted, "AddFinalizer", out)
      /\ Requeue(c, IF Errored(accepted, out) THEN "requeue" ELSE "done")
      /\ UNCHANGED <<users, timer, job, now, edits>>

\* The root Secret is missing or incomplete: resolve returns the error.
ReconcileRootError(c) ==
  LET o == cache[c].obj
  IN  /\ Begin(c)
      /\ Live(o) \/ (Dying(o) /\ ~o.force)
      /\ "RootCredentialError" \in resolve(o)
      /\ Charge("Provider", TRUE)
      /\ UNCHANGED <<store, users, queue, timer, job, now, edits>>

\* resolve says no: its verdict goes to the status.  For TLS Secrets resolve
\* has updated the status itself, and Reconcile updates it once more.
ReconcileUnresolved(c, reason) ==
  LET o == cache[c].obj
  IN  /\ Begin(c)
      /\ Live(o)
      /\ reason \in resolve(o)
      /\ Charge("Provider", reason \in ProviderReads)
      /\ job' = [Call(c, "status") EXCEPT
                   !.status = UnresolvedStatus(o, reason),
                   !.after  = IF reason = "ProviderSecretInvalid"
                              THEN "repeat" ELSE "done"]
      /\ Requeue(c, "done")
      /\ UNCHANGED <<store, users, timer, now, edits>>

UserOf(c, o) == Username(c, Evaluation(o).Target)

\* The status as the policy check leaves it.
AcceptedStatus(c, o) ==
  [o.status EXCEPT
     !.user   = UserOf(c, o),
     !.obsGen = o.gen,
     !.conds  = Set(@, o.gen, "PolicyAccepted", "Allowed")]

\* A reconcile of c that resolve lets through, and the Secret it reads.
Resolved(c) ==
  /\ Begin(c)
  /\ Live(cache[c].obj)
  /\ "Resolved" \in resolve(cache[c].obj)

TargetSecret(o) == cache[o.spec.targetSecret]

\* The target Secret is somebody else's.
ReconcileConflict(c) ==
  LET o      == cache[c].obj
      status == AcceptedStatus(c, o)
  IN  /\ Resolved(c)
      /\ ~EnsureCanManage(TargetSecret(o).obj, c, o)
      /\ job' = [Call(c, "status") EXCEPT
                   !.status = [status EXCEPT !.conds =
                      Set(NotReady(@, o.gen, "SecretConflict"), o.gen,
                          "SecretReady", "SecretConflict")],
                   !.after  = "done"]
      /\ Requeue(c, "done")
      /\ UNCHANGED <<store, users, timer, now, edits, faults>>

\* rotation.Decide on what the reconcile has read.
DecisionFor(o) ==
  Decide(now, ExistingPassword(TargetSecret(o).obj) # None, o.rotateAt,
         o.status.lastTrig, o.status.lastRot, o.status.nextRot, o.spec.period)

\* Mutant: the first password is not generated.
MakesPasswordOnRotate(decision) == decision.Action = ActionRotate

MakesPassword(decision) == decision.Action \in {ActionGenerate, ActionRotate}

\* No randomness (RotationFailed), or no connection to SurrealDB.
ReconcileBlocked(c, reason) ==
  LET o      == cache[c].obj
      status == AcceptedStatus(c, o)
  IN  /\ Resolved(c)
      /\ EnsureCanManage(TargetSecret(o).obj, c, o)
      /\ reason = "RotationFailed" => MakesPassword(DecisionFor(o))
      /\ Charge(reason, TRUE)
      /\ job' = [Call(c, "status") EXCEPT
                   !.status = [status EXCEPT !.conds = NotReady(@, o.gen, reason)],
                   !.after  = IF reason = "RotationFailed" THEN "done" ELSE "requeue"]
      /\ Requeue(c, "done")
      /\ UNCHANGED <<store, users, timer, now, edits>>

\* The password is chosen and the connection to url is open: DefineUser is next.
ReconcileDefine(c, url) ==
  LET o        == cache[c].obj
      decision == DecisionFor(o)
  IN  /\ Resolved(c)
      /\ EnsureCanManage(TargetSecret(o).obj, c, o)
      /\ \E password \in IF MakesPassword(decision) THEN FreshPasswords
                         ELSE {ExistingPassword(TargetSecret(o).obj)} :
           job' = [Call(c, "define") EXCEPT
                     !.existing = TargetSecret(o),
                     !.user     = UserOf(c, o),
                     !.password = password,
                     !.url      = url,
                     !.decision = decision,
                     !.status   = AcceptedStatus(c, o)]
      /\ Requeue(c, "done")
      /\ UNCHANGED <<store, users, timer, now, edits, faults>>

\* The object the call works on, and its generation.
Cred == job.credential.obj

\* The status with Ready and one more condition set to the same verdict.
Failed(type, reason) ==
  [job.status EXCEPT !.conds =
     Set(NotReady(@, Cred.gen, reason), Cred.gen, type, reason)]

Succeeded(type, reason) ==
  [job.status EXCEPT !.conds = Set(@, Cred.gen, type, reason)]

\* DEFINE USER OVERWRITE.  An error ends the call without a retry.
DefinesUser == DefineUserQuery(job.user.target, Cred.spec.roles)

DefineUser(out) ==
  /\ job.pc = "define"
  /\ out = "ok" \/ DefinesUser
  /\ users' = IF ~DefinesUser \/ out = "failed" THEN users
              ELSE [users EXCEPT ![job.user] =
                      [pw |-> job.password, roles |-> Cred.spec.roles]]
  /\ Charge("DefineUser", out # "ok")
  /\ Continue(IF Errored(DefinesUser, out)
              THEN [job EXCEPT !.pc = "status", !.after = "done",
                               !.status = Failed("UserDefined", "DefineUserFailed")]
              ELSE [job EXCEPT !.pc = "secret",
                               !.status = Succeeded("UserDefined", "DefineUserSucceeded")])
  /\ UNCHANGED <<store, now, edits, lag>>

\* The status of a call that went through.
ReadyStatus ==
  [Succeeded("SecretReady", "SecretWritten") EXCEPT
     !.conds    = Ready(@, Cred.gen),
     !.lastRot  = IF MakesPassword(job.decision)
                  THEN job.decision.LastRotationTime ELSE @,
     !.lastTrig = job.decision.ManualTrigger,
     !.nextRot  = job.decision.NextRotationTime]

\* Mutant: the Secret is applied, whatever is there now.
AcceptsSecretAlways == TRUE

\* reconcileTargetSecret: Create when none was read, else Update what was.
AcceptsSecret ==
  IF job.existing.obj = Absent
  THEN AcceptsCreate(Cred.spec.targetSecret)
  ELSE AcceptsUpdate(Cred.spec.targetSecret, job.existing.rv)

reconcileTargetSecret(out) ==
  /\ job.pc = "secret"
  /\ Request(Cred.spec.targetSecret,
             BuildTargetSecret(job.req, Cred, job.user, job.password, job.url),
             AcceptsSecret, "WriteSecret", out)
  /\ Continue(IF Errored(AcceptsSecret, out)
              THEN [job EXCEPT !.pc = "status", !.after = "done",
                               !.status = Failed("SecretReady", "SecretConflict")]
              ELSE [job EXCEPT !.pc = "status", !.after = "schedule",
                               !.status = ReadyStatus])
  /\ UNCHANGED <<users, now, edits, lag>>

\* Status().Update carries the version that was read.
AcceptsStatus == AcceptsUpdate(job.req, job.credential.rv)

WriteStatus(kind, out) ==
  Request(job.req, [api[job.req].obj EXCEPT !.status = job.status],
          AcceptsStatus, kind, out)

\* The status update that ends a call, or the first of two.
UpdateStatus(out) ==
  /\ job.pc = "status"
  /\ WriteStatus("Status", out)
  /\ IF Errored(AcceptsStatus, out) THEN Return("requeue")
     ELSE IF job.after = "repeat"
     THEN Continue([job EXCEPT !.credential = api'[job.req], !.after = "done"])
     ELSE Return(job.after)
  /\ UNCHANGED <<users, now, edits, lag>>

-----------------------------------------------------------------------------
(* reconcileDelete *)

\* Policy missing, request denied or provider missing: give up for now.  For
\* TLS Secrets resolve has a status to write.
DeleteUnresolved(c, reason) ==
  LET o == cache[c].obj
  IN  /\ Begin(c)
      /\ Dying(o) /\ ~o.force
      /\ reason \in resolve(o)
      /\ Charge("Provider", reason \in ProviderReads)
      /\ job' = IF reason = "ProviderSecretInvalid"
                THEN [Call(c, "status") EXCEPT
                        !.status = UnresolvedStatus(o, reason), !.after = "done"]
                ELSE job
      /\ Requeue(c, "done")
      /\ UNCHANGED <<store, users, timer, now, edits>>

\* A cleanup failure: recordDeleteFailure comes next, then what after says.
Record(from, reason, markSecret, after) ==
  LET o == from.credential.obj
  IN  [from EXCEPT
         !.pc     = "recordFailure",
         !.after  = after,
         !.status = [o.status EXCEPT
            !.obsGen = o.gen,
            !.conds  = IF markSecret
                       THEN Set(NotReady(@, o.gen, reason), o.gen, "SecretReady", reason)
                       ELSE NotReady(@, o.gen, reason)]]

\* force-cleanup goes straight to the Secret; otherwise the user comes first,
\* over a connection that may fail.
DeleteForced(c) ==
  /\ Begin(c)
  /\ Dying(cache[c].obj) /\ cache[c].obj.force
  /\ job' = Call(c, "deleteSecret")
  /\ Requeue(c, "done")
  /\ UNCHANGED <<store, users, timer, now, edits, faults>>

DeleteBegin(c, connected) ==
  LET o == cache[c].obj
  IN  /\ Begin(c)
      /\ Dying(o) /\ ~o.force
      /\ "Resolved" \in resolve(o)
      /\ Charge("SurrealDBUnavailable", ~connected)
      /\ job' = IF connected
                THEN [Call(c, "removeUser") EXCEPT !.user = UserOf(c, o)]
                ELSE Record(Call(c, "recordFailure"), "SurrealDBUnavailable",
                            FALSE, "requeue")
      /\ Requeue(c, "done")
      /\ UNCHANGED <<store, users, timer, now, edits>>

\* Mutant: REMOVE USER without IF EXISTS.
RemoveFailsMissing(out) == out # "ok" \/ users[job.user] = None

\* Mutant: the error of REMOVE USER is only logged.
RemoveFailsNever(out) == FALSE

\* REMOVE USER IF EXISTS: a user that is not there is no error.
RemoveFails(out) == out # "ok"

RemovesUser == RemoveUserQuery(job.user.target)

RemoveUser(out) ==
  /\ job.pc = "removeUser"
  /\ out = "ok" \/ RemovesUser
  /\ users' = IF ~RemovesUser \/ out = "failed" THEN users
              ELSE [users EXCEPT ![job.user] = None]
  /\ Charge("RemoveUser", out # "ok")
  /\ Continue(IF ~RemovesUser \/ RemoveFails(out)
              THEN Record(job, "RemoveUserFailed", FALSE, "requeue")
              ELSE [job EXCEPT !.pc = "deleteSecret"])
  /\ UNCHANGED <<store, now, edits, lag>>

\* Mutant: force cleanup waits for the Secret like normal deletion.
AfterDeleteFailureRetry(o) == "requeue"

\* Force cleanup goes on without the Secret, normal deletion tries again.
AfterDeleteFailure(o) == IF o.force THEN "removeFinalizer" ELSE "requeue"

\* The Secret as the cache shows it must be ours; Delete goes by name.
deleteOwnedTargetSecret(out) ==
  LET k     == Cred.spec.targetSecret
      owned == cache[k].obj # Absent /\ IsOwnedByCredential(cache[k].obj, job.req, Cred)
  IN  /\ job.pc = "deleteSecret"
      /\ Request(k, Absent, owned, "DeleteSecret", out)
      /\ Continue(IF out # "ok"
                  THEN Record(job, "SecretDeleteFailed", TRUE,
                              AfterDeleteFailure(Cred))
                  ELSE [job EXCEPT !.pc = "removeFinalizer"])
      /\ UNCHANGED <<users, now, edits, lag>>

\* The failure goes to the status; an error of that update is only logged.
recordDeleteFailure(out) ==
  /\ job.pc = "recordFailure"
  /\ WriteStatus("Status", out)
  /\ IF job.after = "removeFinalizer"
     THEN Continue([job EXCEPT !.pc = "removeFinalizer"])
     ELSE Return(job.after)
  /\ UNCHANGED <<users, now, edits, lag>>

\* An object that is being deleted goes away with its last finalizer.
RemoveFinalizer(o) == IF o.deleting THEN Absent ELSE [o EXCEPT !.finalizer = FALSE]

\* The credential is read again, and loses its finalizer.
removeCredentialFinalizer(out) ==
  LET c        == job.req
      latest   == cache[c]
      needed   == latest.obj # Absent /\ latest.obj.finalizer
      accepted == needed /\ AcceptsUpdate(c, latest.rv)
  IN  /\ job.pc = "removeFinalizer"
      /\ Request(c, RemoveFinalizer(latest.obj), accepted, "RemoveFinalizer", out)
      /\ Return(IF needed /\ Errored(accepted, out) THEN "requeue" ELSE "done")
      /\ UNCHANGED <<users, now, edits, lag>>

-----------------------------------------------------------------------------
(* The cluster around the worker *)

\* An edit of kind by a user or a platform team.
Edit(kind, k, o) ==
  /\ kind \in EnvEdits
  /\ edits < MaxEdits
  /\ edits' = edits + 1
  /\ Commit(k, o)
  /\ UNCHANGED <<users, queue, timer, job, now, faults, lag>>

CreateCredential(c) ==
  /\ api[c].obj = Absent
  /\ \E spec \in Specs : Edit("Create", c, NewCredential(api[c].rv + 1, spec))

\* A new spec is a new generation.
UpdateSpec(c) ==
  LET o == api[c].obj
  IN  /\ o # Absent
      /\ \E spec \in Specs \ {o.spec} :
           Edit("Spec", c, [o EXCEPT !.spec = spec, !.gen = @ + 1])

AnnotateRotateAt(c) ==
  LET o == api[c].obj
  IN  /\ o # Absent
      /\ \E t \in Triggers \ {o.rotateAt} : Edit("RotateAt", c, [o EXCEPT !.rotateAt = t])

AnnotateForceCleanup(c) ==
  LET o == api[c].obj
  IN  /\ o # Absent /\ o.deleting
      /\ Edit("Force", c, [o EXCEPT !.force = TRUE])

\* With a finalizer the object only gets its deletion timestamp.
DeleteCredential(c) ==
  LET o == api[c].obj
  IN  /\ o # Absent /\ ~o.deleting
      /\ Edit("Delete", c, IF o.finalizer
                           THEN [o EXCEPT !.deleting = TRUE, !.gen = @ + 1]
                           ELSE Absent)

UpdatePolicy ==
  \E p \in (Policies \cup {Absent}) \ {api[PolicyName].obj} : Edit("Policy", PolicyName, p)

\* Users delete a Secret, blank its password, or put their own in its place.
TouchSecret(s) ==
  LET o == api[s].obj
  IN  \/ o # Absent /\ Edit("DeleteSecret", s, Absent)
      \/ o # Absent /\ o.pw # None /\ Edit("BlankSecret", s, [o EXCEPT !.pw = None])
      \/ o = Absent /\ Edit("ForeignSecret", s, ForeignSecret)

\* Kubernetes deletes a Secret whose owner is gone.
GarbageCollect(s) ==
  LET o == api[s].obj
  IN  /\ o # Absent /\ o.owner # None
      /\ LET owner == api[o.owner.credential].obj
         IN  owner # Absent => owner.uid # o.owner.uid
      /\ Commit(s, Absent)
      /\ UNCHANGED <<users, queue, timer, job, now, edits, faults, lag>>

\* For and Owns: the keys an event about k enqueues.  Policies and providers
\* are not watched.
Owners(o) == IF o = Absent \/ o.owner = None THEN {} ELSE {o.owner.credential}

Enqueued(k, old, new) ==
  IF k \in Creds THEN {k}
  ELSE IF k \in SecretNames THEN Owners(old) \cup Owners(new)
  ELSE {}

WatchEvent(k) ==
  /\ Deliver(k)
  /\ queue' = queue \cup Enqueued(k, cache[k].obj, cache'[k].obj)
  /\ UNCHANGED <<users, timer, job, now, edits, faults, lag>>

\* The informers replay every cached object from time to time.
Resync(c) ==
  /\ c \notin queue
  /\ cache[c].obj # Absent
  /\ queue' = queue \cup {c}
  /\ UNCHANGED <<store, users, timer, job, now, edits, faults, lag>>

\* RequeueAfter comes due; a time already past is due in a second.
TimerFires(c) ==
  /\ timer[c] # None /\ timer[c] <= now
  /\ queue' = queue \cup {c}
  /\ timer' = [timer EXCEPT ![c] = None]
  /\ UNCHANGED <<store, users, job, now, edits, faults, lag>>

Tick ==
  /\ now < MaxTime
  /\ now' = now + 1
  /\ UNCHANGED <<store, users, queue, timer, job, edits, faults, lag>>

\* The process dies between any two calls and comes back with a fresh cache.
Restart ==
  /\ faults < MaxFaults
  /\ faults' = faults + 1
  /\ Relist
  /\ job' = IdleJob
  /\ queue' = {c \in Creds : api[c].obj # Absent}
  /\ timer' = [c \in Creds |-> None]
  /\ UNCHANGED <<users, now, edits, lag>>

-----------------------------------------------------------------------------
Init ==
  /\ \E p \in Policies :
       api = [k \in Keys |-> [rv  |-> 0, obj |-> IF k = PolicyName THEN p ELSE Absent]]
  /\ cache = api
  /\ pending = [k \in Keys |-> {}]
  /\ users = [u \in Users |-> None]
  /\ queue = {}
  /\ timer = [c \in Creds |-> None]
  /\ job = IdleJob
  /\ now = 0 /\ edits = 0 /\ faults = 0 /\ lag = 0

\* The reconcile of one credential up to its first external call.
Reconcile(c) ==
  \/ ReconcileGone(c)
  \/ \E out \in Outcomes : AddFinalizer(c, out)
  \/ ReconcileRootError(c)
  \/ \E reason \in Refusals : ReconcileUnresolved(c, reason) \/ DeleteUnresolved(c, reason)
  \/ ReconcileConflict(c)
  \/ \E reason \in {"RotationFailed", "SurrealDBUnavailable"} : ReconcileBlocked(c, reason)
  \/ \E url \in Endpoints : ReconcileDefine(c, url)
  \/ DeleteForced(c)
  \/ \E connected \in BOOLEAN : DeleteBegin(c, connected)

\* The external call the job has come to.
Proceed(out) ==
  \/ DefineUser(out)
  \/ reconcileTargetSecret(out)
  \/ UpdateStatus(out)
  \/ RemoveUser(out)
  \/ deleteOwnedTargetSecret(out)
  \/ recordDeleteFailure(out)
  \/ removeCredentialFinalizer(out)

UserEdit ==
  \/ \E c \in Creds : \/ CreateCredential(c)
                      \/ UpdateSpec(c)
                      \/ AnnotateRotateAt(c)
                      \/ AnnotateForceCleanup(c)
                      \/ DeleteCredential(c)
  \/ UpdatePolicy
  \/ \E s \in SecretNames : TouchSecret(s)

Cluster ==
  \/ \E s \in SecretNames : GarbageCollect(s)
  \/ \E k \in Keys : WatchEvent(k)
  \/ \E c \in Creds : Resync(c) \/ TimerFires(c)
  \/ Tick
  \/ Restart

Next ==
  \/ \E c \in Creds : Reconcile(c)
  \/ \E out \in Outcomes : Proceed(out)
  \/ UserEdit
  \/ Cluster

Spec == Init /\ [][Next]_vars

\* The work queue is first in, first out, so every waiting key is served; the
\* call in progress goes on; watches, timers and resyncs come in the end and the
\* garbage collector runs.  Users owe nothing, and calls may fail within the
\* bounds (or for ever, for the Persistent kinds).
Fairness ==
  /\ \A c \in Creds : SF_vars(Reconcile(c)) /\ WF_vars(TimerFires(c)) /\ WF_vars(Resync(c))
  /\ WF_vars(\E out \in Outcomes : Proceed(out))
  /\ \A s \in SecretNames : WF_vars(GarbageCollect(s))
  /\ \A k \in Keys : WF_vars(WatchEvent(k))
  /\ WF_vars(Tick)

FairSpec == Spec /\ Fairness
=============================================================================
