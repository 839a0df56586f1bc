------------------------ MODULE CredentialProperties ------------------------
(***************************************************************************)
(* What the credential controller promises: types, safety, action          *)
(* properties and liveness, and the inductive invariants the proofs use.   *)
(***************************************************************************)
EXTENDS CredentialController

(* Types *)

SpecType ==
  [level : {"Database", "Namespace"}, database : STRING, roles : SUBSET Roles,
   targetSecret : SecretNames, period : Nat \cup {None}]

Reasons == {"Unset"} \cup TrueReasons \cup FalseReasons

Conditions == [ConditionTypes -> [reason : Reasons, gen : Nat]]

Status ==
  [obsGen  : Nat, user : Users \cup {None}, lastRot : Nat \cup {None},
   nextRot : Nat \cup {None}, lastTrig : Triggers \cup {None}, conds : Conditions]

Credential ==
  [uid : Nat, gen : Nat, deleting : BOOLEAN, finalizer : BOOLEAN, force : BOOLEAN,
   rotateAt : Triggers \cup {None}, spec : Specs, status : Status]

Owner == [credential : Creds, uid : Nat]

Secret ==
  [owner : Owner \cup {None}, user : Users \cup {None}, pw : Nat \cup {None},
   url : Endpoints \cup {None}]

Account == [pw : Nat, roles : SUBSET Roles]

Decision ==
  [Action : {ActionReuse, ActionGenerate, ActionRotate},
   ManualTrigger    : Triggers \cup {None},
   LastRotationTime : Nat \cup {None},
   NextRotationTime : Nat \cup {None}]

Version(S) == [rv : Nat, obj : S \cup {Absent}]

AnyVersion == Version(Credential \cup Secret \cup Policies)

ObjectsOf(k) ==
  IF k \in Creds THEN Credential
  ELSE IF k \in SecretNames THEN Secret
  ELSE Policies

\* Users write well-formed specs, and the markers are not values.
ASSUME ValuesAssumption ==
  /\ Specs \subseteq SpecType
  /\ None \notin Nat /\ None \notin Users /\ None \notin Owner
  /\ None \notin Account /\ None \notin Triggers
  /\ Absent \notin Credential /\ Absent \notin Secret /\ Absent \notin Policies

\* What the CRDs admit: a database for database-level users only, and a role.
ASSUME AdmissionAssumption ==
  /\ \A s \in Specs : (s.level = "Database") <=> (s.database # "")
  /\ \A s \in Specs : s.roles # {}
  /\ Policies \subseteq TenantPolicySpec

TypedStore ==
  /\ api \in [Keys -> AnyVersion]
  /\ cache \in [Keys -> AnyVersion]
  /\ pending \in [Keys -> SUBSET AnyVersion]
  /\ \A k \in Keys : Versions(k) \subseteq Version(ObjectsOf(k))

PCs == {"idle", "define", "secret", "status", "removeUser", "deleteSecret",
        "recordFailure", "removeFinalizer"}

Afters == {"done", "requeue", "schedule", "repeat", "removeFinalizer"}

Job ==
  [pc : PCs, req : Creds, credential : [rv : Nat, obj : Credential],
   existing : Version(Secret) \cup {None}, user : Users \cup {None},
   password : Nat \cup {None}, url : Endpoints \cup {None},
   decision : Decision \cup {None}, status : Status \cup {None},
   after : Afters \cup {None}]

\* What the locals of a call hold when it has come to its pc.
CallTyped(j) ==
  /\ j \in Job
  /\ j.pc # "idle"
  /\ j.pc \in {"define", "secret"} =>
       /\ j.existing \in Version(Secret)
       /\ j.user \in Users
       /\ j.password \in Nat
       /\ j.url \in Endpoints
       /\ j.decision \in Decision
  /\ j.pc \in {"define", "secret", "status", "recordFailure"} => j.status \in Status
  /\ j.pc = "removeUser" => j.user \in Users

TypedJob == job = IdleJob \/ CallTyped(job)

\* Every variable has its type, and the worker's locals are set when they are
\* used: no field of a Secret, status or decision is read before it is there.
TypeOK ==
  /\ TypedStore
  /\ users \in [Users -> Account \cup {None}]
  /\ queue \subseteq Creds
  /\ timer \in [Creds -> Nat \cup {None}]
  /\ TypedJob
  /\ now \in Nat /\ edits \in Nat /\ faults \in Nat /\ lag \in Nat

-----------------------------------------------------------------------------
(* Safety *)

\* A Secret never changes hands.  Whatever the informer cache shows and
\* whoever writes in between, EnsureCanManage and the version check of the
\* Secret update keep the operator from taking over a Secret that is not its
\* credential's (controller 104-112, 350-357).
OwnershipStable ==
  [][\A s \in SecretNames :
       api[s].obj # Absent /\ api'[s].obj # Absent =>
         api'[s].obj.owner = api[s].obj.owner]_vars

\* A step that puts a password into a Secret puts in one that SurrealDB has.
PublishesWorking(s) ==
  LET new == api'[s].obj
  IN  new # api[s].obj /\ new # Absent /\ new.pw # None =>
        users[new.user] # None /\ users[new.user].pw = new.pw

\* A password is published only while SurrealDB accepts it: in the step that
\* writes a password to a Secret, the account the Secret names has it.  This
\* is the order DefineUser, then Secret (controller 136-147), in spite of
\* stale reads, lost answers and restarts in between.
PublishedPasswordWorks == [][\A s \in SecretNames : PublishesWorking(s)]_vars

\* A credential that reports Ready for its current generation has its
\* SurrealDB user, with the roles it asks for: a status that was computed from
\* an older spec, or before a failed call, never passes for a current one
\* (controller 136-157).
ReadyIsHonest ==
  \A c \in Creds :
    LET o == api[c].obj
    IN  (o # Absent /\ ~o.deleting
           /\ o.status.conds["Ready"] = [reason |-> "Reconciled", gen |-> o.gen]) =>
          /\ users[o.status.user] # None
          /\ users[o.status.user].roles = o.spec.roles

\* No SurrealDB user without a credential that will remove it: the finalizer
\* is there before the user is defined and goes after the user is removed,
\* through failures, lost answers and restarts (controller 80-83, 262-278).
NoOrphanUser ==
  \A u \in Users :
    users[u] # None =>
      api[u.credential].obj # Absent /\ api[u.credential].obj.finalizer

\* What the operator deletes is an owned target Secret (controller 360-372).
DeletesOnlyOwnedSecrets ==
  [][\A s \in SecretNames :
       (/\ job.pc = "deleteSecret" /\ job' # job
        /\ api[s].obj # Absent /\ api'[s].obj = Absent) =>
         IsOwnedByCredential(api[s].obj, job.req, Cred)]_vars

\* A request asks for a new password that status does not record as made: by
\* its annotation, by the scheduled time, or by its period since the last one,
\* where a period of zero is always over.
RotationWanted(request, status) ==
  \/ request.rotateAt # None /\ request.rotateAt # status.lastTrig
  \/ /\ request.spec.period # None
     /\ \/ status.nextRot # None /\ status.nextRot <= now
        \/ status.lastRot # None /\ status.lastRot + request.spec.period <= now
        \/ request.spec.period = 0

\* A generated password is replaced only when rotation is requested or due: by
\* the request the reconcile has read, and not yet served according to the
\* committed status (controller 114-124, decision.go 38-52).
ReusesPassword ==
  [][\A s \in SecretNames :
       LET old == api[s].obj
           new == api'[s].obj
       IN  (/\ old # Absent /\ new # Absent
            /\ old.pw # None /\ new.pw # None /\ new.pw # old.pw) =>
             RotationWanted(Cred, api[job.req].obj.status)]_vars

\* The scheduled rotation moves later only in the status update of a reconcile
\* that made a new password: a longer period never delays a rotation that is
\* already scheduled (decision.go 62-81).
RotationNotDelayed ==
  [][\A c \in Creds :
       LET old == api[c].obj
           new == api'[c].obj
       IN  (/\ old # Absent /\ new # Absent
            /\ old.status.nextRot # None /\ new.status.nextRot # None
            /\ new.status.nextRot > old.status.nextRot) =>
             MakesPassword(job.decision)]_vars

\* A Ready credential knows when its password was generated or rotated
\* (controller 151-153).
LastRotationRecorded ==
  \A c \in Creds :
    LET o == api[c].obj
    IN  (o # Absent /\ o.status.conds["Ready"].reason = "Reconciled") =>
          o.status.lastRot # None

-----------------------------------------------------------------------------
(* The inductive invariant behind OwnershipStable and                      *)
(* PublishedPasswordWorks.                                                 *)

\* A version of k that somebody holds is no newer than the committed one, and
\* an equally new one is the committed one.
Current(k, v) == v.rv <= api[k].rv /\ (v.rv = api[k].rv => v = api[k])

StoreCoherent == \A k \in Keys : \A v \in Versions(k) : Current(k, v)

\* Until it writes the Secret, a call holds a version of it that was absent or
\* its own ...
HoldsOwnSecret ==
  job.pc \in {"define", "secret"} =>
    /\ Current(Cred.spec.targetSecret, job.existing)
    /\ EnsureCanManage(job.existing.obj, job.req, Cred)

\* ... and once DefineUser has answered, the account has the call's password.
UserDefined ==
  job.pc = "secret" =>
    users[job.user] = [pw |-> job.password, roles |-> Cred.spec.roles]

JobCoherent == HoldsOwnSecret /\ UserDefined

IInv == TypeOK /\ StoreCoherent /\ JobCoherent

-----------------------------------------------------------------------------
(* Liveness *)

\* The status says that the current generation is reconciled, and it is: the
\* policy allows it, the Secret is ours and holds the password of the account,
\* the account has the roles of the spec, no rotation is outstanding.
Settled(c) ==
  LET o      == api[c].obj
      secret == api[o.spec.targetSecret].obj
      user   == Username(c, UserTarget(api[PolicyName].obj, o.spec))
  IN  /\ api[PolicyName].obj # Absent
      /\ Evaluate(api[PolicyName].obj, o.spec).Allowed
      /\ o.finalizer
      /\ o.status.conds["Ready"] = [reason |-> "Reconciled", gen |-> o.gen]
      /\ o.status.user = user
      /\ users[user] # None
      /\ secret # Absent
      /\ secret = BuildTargetSecret(c, o, user, users[user].pw, secret.url)
      /\ users[user].roles = o.spec.roles
      /\ ~RotationWanted(o, o.status)

\* The credential cannot be had, and its status says why.
Refused(c) ==
  LET o      == api[c].obj
      secret == api[o.spec.targetSecret].obj
      reason == IF api[PolicyName].obj = Absent THEN "PolicyNotFound"
                ELSE IF ~Evaluate(api[PolicyName].obj, o.spec).Allowed
                THEN "PolicyDenied"
                ELSE IF ~EnsureCanManage(secret, c, o) THEN "SecretConflict"
                ELSE IF ~DefineUserQuery(UserTarget(api[PolicyName].obj, o.spec), o.spec.roles)
                THEN "DefineUserFailed"
                ELSE None
  IN  o.status.conds["Ready"] = [reason |-> reason, gen |-> o.gen]

\* Once users stop editing and calls stop failing, every credential that is
\* not being deleted ends up settled, or refused with the reason in its
\* status, and stays so: no failure path loses the work (controller 69-169).
Converges ==
  <>[](\A c \in Creds :
         LET o == api[c].obj
         IN  o # Absent /\ ~o.deleting => Settled(c) \/ Refused(c))

\* A deleted credential goes away (controller 242-305).
DeletionCompletes ==
  \A c \in Creds : []<>(~Dying(api[c].obj))

\* A Secret with an account's connection data does not outlive the credential:
\* where deletion read a cache that did not show the Secret yet, the owner
\* reference is what removes it (controller 360-367, target_secret 46-55).
SecretsFollowCredentials ==
  \A s \in SecretNames :
    []<>(LET o == api[s].obj
         IN  o # Absent /\ o.user # None => api[o.user.credential].obj # Absent)

\* Force cleanup removes the finalizer, whatever fails (controller 248-256).
ForceCleanupCompletes ==
  \A c \in Creds : []<>(~(Dying(api[c].obj) /\ api[c].obj.force))
=============================================================================
