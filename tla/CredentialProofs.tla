-------------------------- MODULE CredentialProofs --------------------------
(***************************************************************************)
(* Proofs about the credential controller, for every set of credentials,   *)
(* Secrets, specs, policies and edits and for every value of the bounds.   *)
(***************************************************************************)
EXTENDS CredentialProperties, TLAPS

-----------------------------------------------------------------------------
(* The store *)

\* Every key's objects are among the objects of all keys.
LEMMA ObjectsOfKey ==
  ASSUME NEW k
  PROVE  ObjectsOf(k) \subseteq Credential \cup Secret \cup Policies
BY DEF ObjectsOf

\* What a key holds, by the kind of the key.
LEMMA KeyKinds ==
  /\ \A c \in Creds : c \in Keys /\ ObjectsOf(c) = Credential
  /\ \A s \in SecretNames : s \in Keys /\ ObjectsOf(s) = Secret
  /\ PolicyName \in Keys /\ ObjectsOf(PolicyName) = Policies
BY NamesAssumption DEF Keys, ObjectsOf

\* The versions of a key are versions of its kind of object.
LEMMA StoreAt ==
  ASSUME TypedStore, NEW k \in Keys
  PROVE  /\ api[k] \in Version(ObjectsOf(k))
         /\ cache[k] \in Version(ObjectsOf(k))
         /\ pending[k] \subseteq Version(ObjectsOf(k))
BY DEF TypedStore, Versions

\* A commit of an object of the key's kind keeps the store typed.
LEMMA CommitTyped ==
  ASSUME TypedStore, NEW k \in Keys, NEW o \in ObjectsOf(k) \cup {Absent}, Commit(k, o)
  PROVE  TypedStore'
<1> DEFINE v == [rv |-> api[k].rv + 1, obj |-> o]
<1>1. CASE o = api[k].obj
  BY <1>1 DEF Commit, TypedStore, Versions
<1>2. CASE o # api[k].obj
  <2>1. v \in Version(ObjectsOf(k)) /\ v \in AnyVersion
    BY StoreAt, ObjectsOfKey DEF Version, AnyVersion
  <2>2. /\ api' = [api EXCEPT ![k] = v]
        /\ pending' = [pending EXCEPT ![k] = @ \cup {v}]
        /\ cache' = cache
    BY <1>2 DEF Commit
  <2> HIDE DEF v
  <2> QED BY <2>1, <2>2 DEF TypedStore, Versions
<1> QED BY <1>1, <1>2

\* Deliveries and relists move versions about and make none.
LEMMA DeliverTyped ==
  ASSUME TypedStore, NEW k \in Keys, Deliver(k)
  PROVE  TypedStore'
BY DEF Deliver, TypedStore, Versions

\* A relist keeps the store typed.
LEMMA RelistTyped ==
  ASSUME TypedStore, Relist
  PROVE  TypedStore'
BY DEF Relist, TypedStore, Versions

\* So does a request, accepted or not, with any outcome.
LEMMA RequestTyped ==
  ASSUME TypedStore, faults \in Nat, NEW k \in Keys, NEW o, NEW accepted, NEW kind, NEW out,
         accepted => o \in ObjectsOf(k) \cup {Absent},
         Request(k, o, accepted, kind, out)
  PROVE  TypedStore' /\ faults' \in Nat
<1>1. TypedStore'
  <2>1. CASE accepted /\ out # "failed"
    BY <2>1, CommitTyped DEF Request
  <2>2. CASE ~(accepted /\ out # "failed")
    BY <2>2 DEF Request, store, TypedStore, Versions
  <2> QED BY <2>1, <2>2
<1>2. faults' \in Nat
  BY DEF Request, Charge
<1> QED BY <1>1, <1>2

-----------------------------------------------------------------------------
(* Objects, statuses and decisions *)

\* The fields of a credential, and of the spec it carries.
LEMMA CredentialFields ==
  ASSUME NEW o \in Credential
  PROVE  /\ o # Absent
         /\ o.uid \in Nat /\ o.gen \in Nat /\ o.deleting \in BOOLEAN
         /\ o.finalizer \in BOOLEAN /\ o.force \in BOOLEAN
         /\ o.rotateAt \in Triggers \cup {None}
         /\ o.spec \in Specs /\ o.spec \in SpecType /\ o.status \in Status
BY ValuesAssumption DEF Credential

\* The fields of a spec that the controller reads.
LEMMA SpecFields ==
  ASSUME NEW spec \in Specs
  PROVE  /\ spec.roles \in SUBSET Roles /\ spec.targetSecret \in SecretNames
         /\ spec.period \in Nat \cup {None}
BY ValuesAssumption DEF SpecType

\* The fields of a status.
LEMMA StatusFields ==
  ASSUME NEW status \in Status
  PROVE  /\ status.lastRot \in Nat \cup {None} /\ status.nextRot \in Nat \cup {None}
         /\ status.lastTrig \in Triggers \cup {None} /\ status.conds \in Conditions
BY DEF Status

\* conditions.Set keeps the conditions well formed.
LEMMA SetTyped ==
  ASSUME NEW conds \in Conditions, NEW gen \in Nat,
         NEW type \in ConditionTypes, NEW reason \in Reasons
  PROVE  Set(conds, gen, type, reason) \in Conditions
BY DEF Set, Conditions

\* So does conditions.NotReady, with any reason of the package.
LEMMA NotReadyTyped ==
  ASSUME NEW conds \in Conditions, NEW gen \in Nat, NEW reason \in Reasons
  PROVE  NotReady(conds, gen, reason) \in Conditions
BY SetTyped DEF NotReady, ConditionTypes

\* Replacing the conditions, or the observed generation and the conditions.
LEMMA StatusConds ==
  ASSUME NEW status \in Status, NEW conds \in Conditions, NEW gen \in Nat
  PROVE  /\ [status EXCEPT !.conds = conds] \in Status
         /\ [status EXCEPT !.obsGen = gen, !.conds = conds] \in Status
BY DEF Status

\* What resolve leaves on a credential it refuses is a status.
LEMMA UnresolvedTyped ==
  ASSUME NEW o \in Credential, NEW reason \in Reasons
  PROVE  UnresolvedStatus(o, reason) \in Status
<1>1. o.gen \in Nat /\ o.status \in Status /\ o.status.conds \in Conditions
  BY CredentialFields, StatusFields
<1>2. NotReady(o.status.conds, o.gen, reason) \in Conditions
  BY <1>1, NotReadyTyped
<1>3. Set(NotReady(o.status.conds, o.gen, reason), o.gen, "PolicyAccepted", reason) \in Conditions
  BY <1>1, <1>2, SetTyped DEF ConditionTypes
<1> QED BY <1>1, <1>2, <1>3, StatusConds DEF UnresolvedStatus

\* A credential's username is one of the names SurrealDB may hold.
LEMMA UserTyped ==
  ASSUME NEW c \in Creds, NEW o \in Credential, cache[PolicyName].obj \in Policies
  PROVE  UserOf(c, o) \in Users
BY CredentialFields DEF UserOf, Evaluation, Evaluate, Users, Targets

\* What the policy check leaves on a credential is a status.
LEMMA AcceptedTyped ==
  ASSUME NEW c \in Creds, NEW o \in Credential, cache[PolicyName].obj \in Policies
  PROVE  AcceptedStatus(c, o) \in Status
<1>1. o.gen \in Nat /\ o.status \in Status /\ o.status.conds \in Conditions
  BY CredentialFields, StatusFields
<1>2. Set(o.status.conds, o.gen, "PolicyAccepted", "Allowed") \in Conditions
  BY <1>1, SetTyped DEF ConditionTypes, Reasons, TrueReasons
<1>3. UserOf(c, o) \in Users
  BY UserTyped
<1> QED BY <1>1, <1>2, <1>3 DEF AcceptedStatus, Status

\* A computed rotation time is a time, or none.
LEMMA computeNextTyped ==
  ASSUME NEW t \in Nat, NEW last \in Nat \cup {None}, NEW next \in Nat \cup {None},
         NEW period \in Nat \cup {None}
  PROVE  computeNext(t, last, next, period) \in Nat \cup {None}
BY DEF computeNext

\* rotation.Decide returns a decision.
LEMMA DecideTyped ==
  ASSUME NEW t \in Nat, NEW has, NEW manual \in Triggers \cup {None},
         NEW lastTrig \in Triggers \cup {None}, NEW last \in Nat \cup {None},
         NEW next \in Nat \cup {None}, NEW period \in Nat \cup {None}
  PROVE  Decide(t, has, manual, lastTrig, last, next, period) \in Decision
<1>1. computeNext(t, last, next, period) \in Nat \cup {None}
  BY computeNextTyped
<1>2. computeNext(t, t, None, period) \in Nat \cup {None}
  BY computeNextTyped
<1> QED BY <1>1, <1>2 DEF Decide, NewPassword, Reuse, Decision

-----------------------------------------------------------------------------
(* The job *)

\* The version a call starts from, when the credential is there.
LEMMA CachedCredential ==
  ASSUME TypedStore, NEW c \in Creds, cache[c].obj # Absent
  PROVE  /\ cache[c].obj \in Credential
         /\ cache[c] \in [rv : Nat, obj : Credential]
BY StoreAt, KeyKinds DEF Version

\* A cached policy that is there is one of the policies.
LEMMA CachedPolicy ==
  ASSUME TypedStore, NEW o, "Resolved" \in resolve(o)
  PROVE  cache[PolicyName].obj \in Policies
<1>1. cache[PolicyName].obj # Absent
  BY DEF resolve
<1> QED BY <1>1, StoreAt, KeyKinds DEF Version

\* A call that has a status to write.
LEMMA StatusCallTyped ==
  ASSUME NEW c \in Creds, cache[c] \in [rv : Nat, obj : Credential],
         NEW status \in Status, NEW after \in Afters
  PROVE  CallTyped([Call(c, "status") EXCEPT !.status = status, !.after = after])
BY DEF CallTyped, Call, IdleJob, Job, PCs

\* A call of forced deletion, on its way to the Secret.
LEMMA PlainCallTyped ==
  ASSUME NEW c \in Creds, cache[c] \in [rv : Nat, obj : Credential]
  PROVE  CallTyped(Call(c, "deleteSecret"))
BY DEF CallTyped, Call, IdleJob, Job, PCs

\* A call of normal deletion, on its way to RemoveUser.
LEMMA RemoveCallTyped ==
  ASSUME NEW c \in Creds, cache[c] \in [rv : Nat, obj : Credential], NEW user \in Users
  PROVE  CallTyped([Call(c, "removeUser") EXCEPT !.user = user])
BY DEF CallTyped, Call, IdleJob, Job, PCs

\* A call on its way to DefineUser, with everything it will write.
LEMMA DefineCallTyped ==
  ASSUME NEW c \in Creds, cache[c] \in [rv : Nat, obj : Credential],
         NEW existing \in Version(Secret), NEW user \in Users,
         NEW password \in Nat, NEW url \in Endpoints,
         NEW decision \in Decision, NEW status \in Status
  PROVE  CallTyped([Call(c, "define") EXCEPT
                      !.existing = existing, !.user = user, !.password = password,
                      !.url = url, !.decision = decision, !.status = status])
BY DEF CallTyped, Call, IdleJob, Job, PCs

\* A failure to record, in a call that works on a credential.
LEMMA RecordTyped ==
  ASSUME NEW j, j \in Job, NEW reason \in Reasons, NEW mark, NEW after \in Afters
  PROVE  CallTyped(Record(j, reason, mark, after))
<1> DEFINE o == j.credential.obj
<1>1. o \in Credential
  BY DEF Job
<1>2. o.gen \in Nat /\ o.status \in Status /\ o.status.conds \in Conditions
  BY <1>1, CredentialFields, StatusFields
<1>3. NotReady(o.status.conds, o.gen, reason) \in Conditions
  BY <1>2, NotReadyTyped
<1>4. Set(NotReady(o.status.conds, o.gen, reason), o.gen, "SecretReady", reason) \in Conditions
  BY <1>2, <1>3, SetTyped DEF ConditionTypes
<1>5. PICK status \in Status :
        Record(j, reason, mark, after) =
          [j EXCEPT !.pc = "recordFailure", !.after = after, !.status = status]
  BY <1>2, <1>3, <1>4, StatusConds DEF Record
<1>6. Record(j, reason, mark, after) \in Job
  BY <1>5 DEF Job, PCs
<1>7. /\ Record(j, reason, mark, after).pc = "recordFailure"
      /\ Record(j, reason, mark, after).status \in Status
  BY <1>5 DEF Job
<1> QED BY <1>6, <1>7 DEF CallTyped

\* A call in progress, by its pc.
LEMMA InCall ==
  ASSUME TypedJob, job.pc # "idle"
  PROVE  /\ CallTyped(job) /\ job \in Job /\ job.req \in Creds
         /\ job.credential \in [rv : Nat, obj : Credential]
         /\ Cred \in Credential /\ Cred.gen \in Nat /\ Cred.spec \in Specs
BY CredentialFields DEF TypedJob, CallTyped, IdleJob, Job, Cred

-----------------------------------------------------------------------------
(* Type correctness, one lemma per group of actions *)

\* How a process starts: Init, but for what the bound on failures leaves.
Starts ==
  /\ \E p \in Policies :
       api = [k \in Keys |-> [rv  |-> 0, obj |-> IF k = PolicyName THEN p ELSE Absent]]
  /\ cache = api /\ pending = [k \in Keys |-> {}]
  /\ users = [u \in Users |-> None] /\ queue = {} /\ timer = [c \in Creds |-> None]
  /\ job = IdleJob
  /\ now = 0 /\ edits = 0 /\ faults \in Nat /\ lag \in Nat

LEMMA InitStarts == Init => Starts
<1>1. Init => faults \in Nat /\ lag \in Nat
  BY DEF Init
<1> QED BY <1>1, Zenon DEF Init, Starts

\* Every variable has its type at the start.
LEMMA TypeStart == Starts => TypeOK
<1> SUFFICES ASSUME Starts PROVE TypeOK
  OBVIOUS
<1> PICK p \in Policies :
      api = [k \in Keys |-> [rv |-> 0, obj |-> IF k = PolicyName THEN p ELSE Absent]]
  BY DEF Starts
<1>1. \A k \in Keys : api[k] \in Version(ObjectsOf(k)) /\ api[k] \in AnyVersion
  BY KeyKinds, ObjectsOfKey DEF Version, AnyVersion
<1>2. TypedStore
  BY <1>1 DEF Starts, TypedStore, Versions
<1> QED BY <1>2 DEF Starts, TypeOK, TypedJob

LEMMA TypeInit == Init => TypeOK
BY InitStarts, TypeStart

\* Begin leaves the counter a number.
LEMMA BeginTyped ==
  ASSUME TypeOK, NEW c \in Creds, Begin(c)
  PROVE  lag' \in Nat /\ \A result : Requeue(c, result) => queue' \subseteq Creds
BY DEF Begin, TypeOK, Requeue

\* Charging a failure leaves the counter a number.
LEMMA ChargeTyped ==
  ASSUME TypeOK, NEW kind, NEW failed, Charge(kind, failed)
  PROVE  faults' \in Nat
BY DEF TypeOK, Charge

\* What is left to show for a step that writes nothing to the store.
LEMMA TypeUnchanged ==
  ASSUME TypeOK, UNCHANGED store, UNCHANGED users, UNCHANGED timer, UNCHANGED now,
         UNCHANGED edits,
         queue' \subseteq Creds, TypedJob', faults' \in Nat, lag' \in Nat
  PROVE  TypeOK'
BY DEF TypeOK, store, TypedStore, Versions

\* Every refusal of resolve is a reason of the conditions package.
LEMMA RefusalReasons == Refusals \subseteq Reasons
BY DEF Refusals, Reasons, FalseReasons

\* Reconciles that end at once, without a write.
LEMMA TypeSimpleBegin ==
  ASSUME TypeOK, NEW c \in Creds, ReconcileGone(c) \/ ReconcileRootError(c)
  PROVE  TypeOK'
<1>1. lag' \in Nat /\ queue' \subseteq Creds
  BY BeginTyped DEF ReconcileGone, ReconcileRootError, TypeOK
<1>2. faults' \in Nat
  BY ChargeTyped DEF ReconcileGone, ReconcileRootError, TypeOK
<1>3. TypedJob'
  BY DEF ReconcileGone, ReconcileRootError, TypeOK, TypedJob, CallTyped
<1> QED BY <1>1, <1>2, <1>3, TypeUnchanged DEF ReconcileGone, ReconcileRootError

\* The reconcile that adds the finalizer.
LEMMA TypeAddFinalizer ==
  ASSUME TypeOK, NEW c \in Creds, NEW out \in Outcomes, AddFinalizer(c, out)
  PROVE  TypeOK'
<1> DEFINE o == [cache[c].obj EXCEPT !.finalizer = TRUE]
<1>1. lag' \in Nat /\ queue' \subseteq Creds
  BY BeginTyped DEF AddFinalizer
<1>2. o \in Credential
  <2>1. cache[c].obj \in Credential
    BY CachedCredential DEF AddFinalizer, TypeOK
  <2> QED BY <2>1 DEF Credential
<1>3. c \in Keys /\ o \in ObjectsOf(c) \cup {Absent}
  BY <1>2, KeyKinds
<1>4. Request(c, o, AcceptsUpdate(c, cache[c].rv), "AddFinalizer", out)
  BY DEF AddFinalizer
<1> HIDE DEF o
<1>5. TypedStore' /\ faults' \in Nat
  BY <1>3, <1>4, RequestTyped DEF TypeOK
<1> QED BY <1>1, <1>5 DEF AddFinalizer, TypeOK, TypedJob, CallTyped

\* Reconcile and deletion of a credential that resolve refuses.
LEMMA TypeUnresolved ==
  ASSUME TypeOK, NEW c \in Creds, NEW reason \in Refusals,
         ReconcileUnresolved(c, reason) \/ DeleteUnresolved(c, reason)
  PROVE  TypeOK'
<1> DEFINE o == cache[c].obj
<1>1. lag' \in Nat /\ queue' \subseteq Creds
  BY BeginTyped DEF ReconcileUnresolved, DeleteUnresolved
<1>2. o \in Credential /\ cache[c] \in [rv : Nat, obj : Credential]
  BY CachedCredential DEF ReconcileUnresolved, DeleteUnresolved, Live, Dying, TypeOK
<1>3. PICK after \in Afters :
        \/ job' = [Call(c, "status") EXCEPT
                     !.status = UnresolvedStatus(o, reason), !.after = after]
        \/ job' = job
  BY DEF ReconcileUnresolved, DeleteUnresolved, Afters
<1>4. UnresolvedStatus(o, reason) \in Status
  BY <1>2, RefusalReasons, UnresolvedTyped
<1>5. CallTyped([Call(c, "status") EXCEPT
                   !.status = UnresolvedStatus(o, reason), !.after = after])
  BY <1>2, <1>4, StatusCallTyped
<1>6. TypedJob'
  BY <1>3, <1>5 DEF TypeOK, TypedJob, CallTyped
<1>7. faults' \in Nat
  BY ChargeTyped DEF ReconcileUnresolved, DeleteUnresolved
<1> QED BY <1>1, <1>6, <1>7, TypeUnchanged DEF ReconcileUnresolved, DeleteUnresolved

\* What a reconcile that resolve lets through knows.
LEMMA ResolvedFacts ==
  ASSUME TypeOK, NEW c \in Creds, Resolved(c)
  PROVE  /\ cache[c].obj \in Credential
         /\ cache[c] \in [rv : Nat, obj : Credential]
         /\ cache[PolicyName].obj \in Policies
         /\ AcceptedStatus(c, cache[c].obj) \in Status
         /\ AcceptedStatus(c, cache[c].obj).conds \in Conditions
         /\ UserOf(c, cache[c].obj) \in Users
         /\ cache[c].obj.gen \in Nat
<1>1. cache[c].obj \in Credential /\ cache[c] \in [rv : Nat, obj : Credential]
  BY CachedCredential DEF Resolved, Live, TypeOK
<1>2. cache[PolicyName].obj \in Policies
  BY CachedPolicy DEF Resolved, TypeOK
<1>3. AcceptedStatus(c, cache[c].obj) \in Status
  BY <1>1, <1>2, AcceptedTyped
<1> QED BY <1>1, <1>2, <1>3, UserTyped, StatusFields, CredentialFields

\* A reconcile that finds a foreign target Secret.
LEMMA TypeConflict ==
  ASSUME TypeOK, NEW c \in Creds, ReconcileConflict(c)
  PROVE  TypeOK'
<1> DEFINE o == cache[c].obj
           status == AcceptedStatus(c, o)
           conds == Set(NotReady(status.conds, o.gen, "SecretConflict"), o.gen,
                        "SecretReady", "SecretConflict")
<1>1. Resolved(c)
  BY DEF ReconcileConflict
<1>2. conds \in Conditions
  <2>1. NotReady(status.conds, o.gen, "SecretConflict") \in Conditions
    BY <1>1, ResolvedFacts, NotReadyTyped DEF Reasons, FalseReasons
  <2> QED BY <2>1, <1>1, ResolvedFacts, SetTyped DEF Reasons, FalseReasons, ConditionTypes
<1>3. [status EXCEPT !.conds = conds] \in Status
  BY <1>1, <1>2, ResolvedFacts, StatusConds
<1>4. CallTyped([Call(c, "status") EXCEPT
                   !.status = [status EXCEPT !.conds = conds], !.after = "done"])
  BY <1>1, <1>3, ResolvedFacts, StatusCallTyped DEF Afters
<1>5. job' = [Call(c, "status") EXCEPT
                !.status = [status EXCEPT !.conds = conds], !.after = "done"]
  BY DEF ReconcileConflict
<1>6. lag' \in Nat /\ queue' \subseteq Creds
  BY BeginTyped DEF ReconcileConflict, Resolved
<1> QED BY <1>4, <1>5, <1>6, TypeUnchanged DEF ReconcileConflict, TypedJob, TypeOK

\* A reconcile without randomness or without a connection.
LEMMA TypeBlocked ==
  ASSUME TypeOK, NEW c \in Creds,
         NEW reason \in {"RotationFailed", "SurrealDBUnavailable"},
         ReconcileBlocked(c, reason)
  PROVE  TypeOK'
<1> DEFINE o == cache[c].obj
           status == AcceptedStatus(c, o)
           new == [status EXCEPT !.conds = NotReady(@, o.gen, reason)]
           after == IF reason = "RotationFailed" THEN "done" ELSE "requeue"
<1>1. Resolved(c)
  BY DEF ReconcileBlocked
<1>2. NotReady(status.conds, o.gen, reason) \in Conditions
  BY <1>1, ResolvedFacts, NotReadyTyped DEF Reasons, FalseReasons
<1>3. new \in Status
  BY <1>1, <1>2, ResolvedFacts, StatusConds
<1>4. CallTyped([Call(c, "status") EXCEPT !.status = new, !.after = after])
  BY <1>1, <1>3, ResolvedFacts, StatusCallTyped DEF Afters
<1>5. job' = [Call(c, "status") EXCEPT !.status = new, !.after = after]
  BY DEF ReconcileBlocked
<1>6. lag' \in Nat /\ queue' \subseteq Creds /\ faults' \in Nat
  BY BeginTyped, ChargeTyped DEF ReconcileBlocked, Resolved
<1> QED BY <1>4, <1>5, <1>6, TypeUnchanged DEF ReconcileBlocked, TypedJob

\* The Secret a reconcile reads, and the decision and password that follow.
LEMMA DecisionFacts ==
  ASSUME TypeOK, NEW o \in Credential
  PROVE  /\ TargetSecret(o) \in Version(Secret)
         /\ DecisionFor(o) \in Decision
         /\ ~MakesPassword(DecisionFor(o)) =>
              ExistingPassword(TargetSecret(o).obj) \in Nat
<1>1. TargetSecret(o) \in Version(Secret)
  BY CredentialFields, SpecFields, StoreAt, KeyKinds DEF TypeOK, TargetSecret
<1>2. ExistingPassword(TargetSecret(o).obj) \in Nat \cup {None}
  BY <1>1 DEF ExistingPassword, Version, Secret
<1>3. DecisionFor(o) \in Decision
  BY CredentialFields, SpecFields, StatusFields, DecideTyped DEF TypeOK, DecisionFor
<1>4. ExistingPassword(TargetSecret(o).obj) = None => MakesPassword(DecisionFor(o))
  BY DEF DecisionFor, Decide, NewPassword, MakesPassword
<1> QED BY <1>1, <1>2, <1>3, <1>4

\* A reconcile that comes to DefineUser.
LEMMA TypeDefine ==
  ASSUME TypeOK, NEW c \in Creds, NEW url \in Endpoints, ReconcileDefine(c, url)
  PROVE  TypeOK'
<1> DEFINE o == cache[c].obj
<1>1. Resolved(c)
  BY DEF ReconcileDefine
<1>2. o \in Credential
  BY <1>1, ResolvedFacts
<1>3. PICK password \in Nat :
        job' = [Call(c, "define") EXCEPT
                  !.existing = TargetSecret(o), !.user = UserOf(c, o),
                  !.password = password, !.url = url,
                  !.decision = DecisionFor(o), !.status = AcceptedStatus(c, o)]
  BY <1>2, DecisionFacts, NamesAssumption DEF ReconcileDefine, FreshPasswords
<1>4. TypedJob'
  BY <1>1, <1>2, <1>3, ResolvedFacts, DecisionFacts, DefineCallTyped DEF TypedJob
<1>5. lag' \in Nat /\ queue' \subseteq Creds
  BY BeginTyped DEF ReconcileDefine, Resolved
<1> QED BY <1>4, <1>5, TypeUnchanged DEF ReconcileDefine, TypeOK

\* A forced deletion starts.
LEMMA TypeDeleteForced ==
  ASSUME TypeOK, NEW c \in Creds, DeleteForced(c)
  PROVE  TypeOK'
<1>1. cache[c] \in [rv : Nat, obj : Credential]
  BY CachedCredential DEF DeleteForced, Dying, TypeOK
<1>2. TypedJob'
  BY <1>1, PlainCallTyped DEF DeleteForced, TypedJob
<1>3. lag' \in Nat /\ queue' \subseteq Creds
  BY BeginTyped DEF DeleteForced
<1> QED BY <1>2, <1>3, TypeUnchanged DEF DeleteForced, TypeOK

\* A normal deletion starts, connected or not.
LEMMA TypeDeleteBegin ==
  ASSUME TypeOK, NEW c \in Creds, NEW connected \in BOOLEAN, DeleteBegin(c, connected)
  PROVE  TypeOK'
<1> DEFINE o == cache[c].obj
<1>1. o \in Credential /\ cache[c] \in [rv : Nat, obj : Credential]
  BY CachedCredential DEF DeleteBegin, Dying, TypeOK
<1>2. TypedJob'
  <2>1. CASE connected
    <3>1. UserOf(c, o) \in Users
      BY <1>1, CachedPolicy, UserTyped DEF DeleteBegin, TypeOK
    <3>2. job' = [Call(c, "removeUser") EXCEPT !.user = UserOf(c, o)]
      BY <2>1 DEF DeleteBegin
    <3> QED BY <1>1, <3>1, <3>2, RemoveCallTyped DEF TypedJob
  <2>2. CASE ~connected
    <3>1. Call(c, "recordFailure") \in Job
      BY <1>1 DEF Call, IdleJob, Job, PCs
    <3>2. job' = Record(Call(c, "recordFailure"), "SurrealDBUnavailable", FALSE, "requeue")
      BY <2>2 DEF DeleteBegin
    <3> QED BY <3>1, <3>2, RecordTyped DEF TypedJob, Reasons, FalseReasons, Afters
  <2> QED BY <2>1, <2>2
<1>3. lag' \in Nat /\ queue' \subseteq Creds /\ faults' \in Nat
  BY BeginTyped, ChargeTyped DEF DeleteBegin
<1> QED BY <1>2, <1>3, TypeUnchanged DEF DeleteBegin

\* The status a step of a call leaves in the job.
LEMMA JobStatusTyped ==
  ASSUME TypeOK, job.pc \in {"define", "secret"},
         NEW type \in ConditionTypes, NEW reason \in Reasons
  PROVE  Failed(type, reason) \in Status /\ Succeeded(type, reason) \in Status
<1>1. job.status \in Status /\ job.status.conds \in Conditions /\ Cred.gen \in Nat
  BY InCall, StatusFields DEF CallTyped, TypeOK
<1>2. NotReady(job.status.conds, Cred.gen, reason) \in Conditions
  BY <1>1, NotReadyTyped
<1>3. /\ Set(job.status.conds, Cred.gen, type, reason) \in Conditions
      /\ Set(NotReady(job.status.conds, Cred.gen, reason), Cred.gen, type, reason) \in Conditions
  BY <1>1, <1>2, SetTyped
<1> QED BY <1>1, <1>3, StatusConds DEF Failed, Succeeded

\* DefineUser, with any outcome.
LEMMA TypeDefineUser ==
  ASSUME TypeOK, NEW out \in Outcomes, DefineUser(out)
  PROVE  TypeOK'
<1>0. job.pc = "define" /\ CallTyped(job) /\ job \in Job
  BY InCall DEF DefineUser, TypeOK
<1>1. users' \in [Users -> Account \cup {None}]
  <2>1. [pw |-> job.password, roles |-> Cred.spec.roles] \in Account
    BY <1>0, InCall, SpecFields DEF CallTyped, Account, TypeOK
  <2> QED BY <1>0, <2>1 DEF DefineUser, TypeOK
<1>2. /\ Failed("UserDefined", "DefineUserFailed") \in Status
      /\ Succeeded("UserDefined", "DefineUserSucceeded") \in Status
  BY <1>0, JobStatusTyped DEF ConditionTypes, Reasons, TrueReasons, FalseReasons
<1>3. TypedJob'
  <2>1. PICK status \in Status :
          \/ job' = [job EXCEPT !.pc = "status", !.after = "done", !.status = status]
          \/ job' = [job EXCEPT !.pc = "secret", !.status = status]
    BY <1>2 DEF DefineUser, Continue
  <2>2. CallTyped([job EXCEPT !.pc = "status", !.after = "done", !.status = status])
    BY <1>0 DEF CallTyped, Job, PCs, Afters
  <2>3. CallTyped([job EXCEPT !.pc = "secret", !.status = status])
    BY <1>0 DEF CallTyped, Job, PCs
  <2> QED BY <2>1, <2>2, <2>3 DEF TypedJob
<1>4. faults' \in Nat
  BY ChargeTyped DEF DefineUser
<1> QED BY <1>1, <1>3, <1>4 DEF DefineUser, Continue, TypeOK, store, TypedStore, Versions

\* The status of a call that went through is a status.
LEMMA ReadyStatusTyped ==
  ASSUME TypeOK, job.pc = "secret"
  PROVE  ReadyStatus \in Status
<1> DEFINE status == Succeeded("SecretReady", "SecretWritten")
<1>1. status \in Status /\ status.conds \in Conditions
  BY JobStatusTyped, StatusFields DEF ConditionTypes, Reasons, TrueReasons
<1>2. job.decision \in Decision /\ Cred.gen \in Nat
  BY InCall DEF CallTyped, TypeOK
<1>3. Ready(status.conds, Cred.gen) \in Conditions
  BY <1>1, <1>2, SetTyped DEF Ready, ConditionTypes, Reasons, TrueReasons
<1> HIDE DEF status
<1>4. [status EXCEPT !.conds = Ready(@, Cred.gen),
                     !.lastRot = IF MakesPassword(job.decision)
                                 THEN job.decision.LastRotationTime ELSE @,
                     !.lastTrig = job.decision.ManualTrigger,
                     !.nextRot = job.decision.NextRotationTime] \in Status
  BY <1>1, <1>2, <1>3 DEF Status, Decision
<1> QED BY <1>4 DEF ReadyStatus, status

\* The write of the target Secret, with any outcome.
LEMMA TypeWriteSecret ==
  ASSUME TypeOK, NEW out \in Outcomes, reconcileTargetSecret(out)
  PROVE  TypeOK'
<1> DEFINE new == BuildTargetSecret(job.req, Cred, job.user, job.password, job.url)
           k == Cred.spec.targetSecret
<1>0. job.pc = "secret" /\ CallTyped(job) /\ job \in Job
  BY InCall DEF reconcileTargetSecret, TypeOK
<1>1. new \in Secret
  BY <1>0, InCall, CredentialFields
     DEF CallTyped, BuildTargetSecret, OwnerReference, Secret, Owner, TypeOK
<1>2. k \in Keys /\ new \in ObjectsOf(k) \cup {Absent}
  BY <1>0, <1>1, InCall, SpecFields, KeyKinds DEF TypeOK
<1>3. Request(k, new, AcceptsSecret, "WriteSecret", out)
  BY DEF reconcileTargetSecret
<1>4. TypedStore' /\ faults' \in Nat
  <2> HIDE DEF k, new
  <2> QED BY <1>2, <1>3, RequestTyped DEF TypeOK
<1>5. TypedJob'
  <2>1. Failed("SecretReady", "SecretConflict") \in Status /\ ReadyStatus \in Status
    BY <1>0, JobStatusTyped, ReadyStatusTyped DEF ConditionTypes, Reasons, FalseReasons
  <2>2. PICK status \in Status, after \in Afters :
          job' = [job EXCEPT !.pc = "status", !.after = after, !.status = status]
    BY <2>1 DEF reconcileTargetSecret, Continue, Afters
  <2>3. CallTyped([job EXCEPT !.pc = "status", !.after = after, !.status = status])
    BY <1>0 DEF CallTyped, Job, PCs
  <2> QED BY <2>2, <2>3 DEF TypedJob
<1> QED BY <1>4, <1>5 DEF reconcileTargetSecret, Continue, TypeOK

\* Returning leaves the worker idle and queue and timers typed.
LEMMA ReturnTyped ==
  ASSUME TypeOK, job.pc # "idle", NEW result, result = "schedule" => job.status \in Status,
         Return(result)
  PROVE  TypedJob' /\ queue' \subseteq Creds /\ timer' \in [Creds -> Nat \cup {None}]
<1>1. job.req \in Creds
  BY InCall DEF TypeOK
<1>2. result = "schedule" => Earlier(timer[job.req], job.status.nextRot) \in Nat \cup {None}
  BY <1>1, StatusFields DEF Earlier, TypeOK
<1>3. timer' \in [Creds -> Nat \cup {None}]
  BY <1>1, <1>2 DEF Return, Scheduled, TypeOK
<1> QED BY <1>1, <1>3 DEF Return, TypedJob, TypeOK

\* Writing the job's status keeps the store typed.
LEMMA WriteStatusTyped ==
  ASSUME TypeOK, job.pc \in {"status", "recordFailure"}, NEW kind, NEW out,
         WriteStatus(kind, out)
  PROVE  TypedStore' /\ faults' \in Nat
<1> DEFINE k == job.req
           new == [api[k].obj EXCEPT !.status = job.status]
<1>1. k \in Creds /\ k \in Keys /\ ObjectsOf(k) = Credential /\ job.status \in Status
  BY InCall, KeyKinds DEF CallTyped, TypeOK
<1>2. AcceptsStatus => new \in Credential
  <2>1. AcceptsStatus => api[k].obj \in Credential
    BY <1>1, StoreAt DEF AcceptsStatus, AcceptsUpdate, TypeOK, Version
  <2> QED BY <1>1, <2>1 DEF Credential
<1>3. Request(k, new, AcceptsStatus, kind, out)
  BY DEF WriteStatus
<1> HIDE DEF k, new
<1> QED BY <1>1, <1>2, <1>3, RequestTyped DEF TypeOK

\* The status update, the last one or the first of two.
LEMMA TypeUpdateStatus ==
  ASSUME TypeOK, NEW out \in Outcomes, UpdateStatus(out)
  PROVE  TypeOK'
<1>0. job.pc = "status" /\ CallTyped(job) /\ job \in Job /\ job.req \in Creds
  BY InCall DEF UpdateStatus, TypeOK
<1>1. TypedStore' /\ faults' \in Nat
  BY <1>0, WriteStatusTyped DEF UpdateStatus
<1>2. TypedJob' /\ queue' \subseteq Creds /\ timer' \in [Creds -> Nat \cup {None}]
  <2>1. CASE \E result : Return(result)
    BY <1>0, <2>1, ReturnTyped DEF CallTyped
  <2>2. CASE ~Errored(AcceptsStatus, out) /\
             Continue([job EXCEPT !.credential = api'[job.req], !.after = "done"])
    <3>1. api'[job.req].obj # Absent
      <4> DEFINE new == [api[job.req].obj EXCEPT !.status = job.status]
      <4>1. api[job.req].obj \in Credential /\ job.req \in Keys
        BY <1>0, <2>2, StoreAt, KeyKinds
           DEF Errored, AcceptsStatus, AcceptsUpdate, TypeOK, Version
      <4>2. new \in Credential
        BY <1>0, <4>1 DEF Credential, CallTyped
      <4>3. Commit(job.req, new)
        BY <2>2 DEF UpdateStatus, WriteStatus, Request, Errored
      <4> HIDE DEF new
      <4> QED BY <4>1, <4>2, <4>3, ValuesAssumption DEF Commit, TypeOK, TypedStore
    <3>2. api'[job.req] \in Version(Credential)
      BY <1>0, <1>1, KeyKinds DEF TypedStore, Versions
    <3>3. api'[job.req] \in [rv : Nat, obj : Credential]
      BY <3>1, <3>2 DEF Version
    <3>4. CallTyped([job EXCEPT !.credential = api'[job.req], !.after = "done"])
      BY <1>0, <3>3 DEF CallTyped, Job, Afters
    <3> QED BY <2>2, <3>4 DEF Continue, TypedJob, TypeOK
  <2> QED BY <2>1, <2>2 DEF UpdateStatus
<1> QED BY <1>1, <1>2 DEF UpdateStatus, TypeOK

\* RemoveUser, with any outcome.
LEMMA TypeRemoveUser ==
  ASSUME TypeOK, NEW out \in Outcomes, RemoveUser(out)
  PROVE  TypeOK'
<1>0. job.pc = "removeUser" /\ CallTyped(job) /\ job \in Job
  BY InCall DEF RemoveUser, TypeOK
<1>1. TypedJob'
  <2>1. CallTyped([job EXCEPT !.pc = "deleteSecret"])
    BY <1>0 DEF CallTyped, Job, PCs
  <2>2. CallTyped(Record(job, "RemoveUserFailed", FALSE, "requeue"))
    BY <1>0, RecordTyped DEF Reasons, FalseReasons, Afters
  <2> QED BY <2>1, <2>2 DEF RemoveUser, Continue, TypedJob
<1>2. users' \in [Users -> Account \cup {None}]
  BY <1>0 DEF RemoveUser, TypeOK
<1>3. faults' \in Nat
  BY ChargeTyped DEF RemoveUser
<1> QED BY <1>1, <1>2, <1>3 DEF RemoveUser, Continue, TypeOK, store, TypedStore, Versions

\* The deletion of the target Secret, with any outcome.
LEMMA TypeDeleteSecret ==
  ASSUME TypeOK, NEW out \in Outcomes, deleteOwnedTargetSecret(out)
  PROVE  TypeOK'
<1>0. job.pc = "deleteSecret" /\ CallTyped(job) /\ job \in Job
  BY InCall DEF deleteOwnedTargetSecret, TypeOK
<1>1. TypedJob'
  <2>1. CallTyped([job EXCEPT !.pc = "removeFinalizer"])
    BY <1>0 DEF CallTyped, Job, PCs
  <2>2. \A after \in Afters : CallTyped(Record(job, "SecretDeleteFailed", TRUE, after))
    BY <1>0, RecordTyped DEF Reasons, FalseReasons
  <2> QED BY <2>1, <2>2 DEF deleteOwnedTargetSecret, Continue, TypedJob, Afters, AfterDeleteFailure
<1>2. PICK accepted : Request(Cred.spec.targetSecret, Absent, accepted, "DeleteSecret", out)
  BY DEF deleteOwnedTargetSecret
<1>3. Cred.spec.targetSecret \in Keys
  BY <1>0, InCall, SpecFields, KeyKinds DEF TypeOK
<1>4. TypedStore' /\ faults' \in Nat
  BY <1>2, <1>3, RequestTyped DEF TypeOK
<1> QED BY <1>1, <1>4 DEF deleteOwnedTargetSecret, Continue, TypeOK

\* The record of a cleanup failure.
LEMMA TypeRecordFailure ==
  ASSUME TypeOK, NEW out \in Outcomes, recordDeleteFailure(out)
  PROVE  TypeOK'
<1>0. job.pc = "recordFailure" /\ CallTyped(job) /\ job \in Job
  BY InCall DEF recordDeleteFailure, TypeOK
<1>1. TypedStore' /\ faults' \in Nat
  BY <1>0, WriteStatusTyped DEF recordDeleteFailure
<1>2. TypedJob' /\ queue' \subseteq Creds /\ timer' \in [Creds -> Nat \cup {None}]
  <2>1. CallTyped([job EXCEPT !.pc = "removeFinalizer"])
    BY <1>0 DEF CallTyped, Job, PCs
  <2>2. CASE Return(job.after)
    BY <1>0, <2>2, ReturnTyped DEF CallTyped
  <2>3. CASE Continue([job EXCEPT !.pc = "removeFinalizer"])
    BY <2>1, <2>3 DEF Continue, TypedJob, TypeOK
  <2> QED BY <2>2, <2>3 DEF recordDeleteFailure
<1> QED BY <1>1, <1>2 DEF recordDeleteFailure, TypeOK

\* The removal of the finalizer.
LEMMA TypeRemoveFinalizer ==
  ASSUME TypeOK, NEW out \in Outcomes, removeCredentialFinalizer(out)
  PROVE  TypeOK'
<1>0. job.pc = "removeFinalizer" /\ job.req \in Creds /\ job.req \in Keys
  BY InCall, KeyKinds DEF removeCredentialFinalizer, TypeOK
<1> DEFINE new == RemoveFinalizer(cache[job.req].obj)
<1>1. PICK accepted : /\ accepted => cache[job.req].obj # Absent
                      /\ Request(job.req, new, accepted, "RemoveFinalizer", out)
  BY DEF removeCredentialFinalizer
<1>2. TypedStore' /\ faults' \in Nat
  <2>1. accepted => new \in ObjectsOf(job.req) \cup {Absent}
    <3> SUFFICES ASSUME accepted PROVE new \in Credential \cup {Absent}
      BY <1>0, KeyKinds
    <3>1. cache[job.req].obj \in Credential
      BY <1>0, <1>1, CachedCredential DEF TypeOK
    <3> QED BY <3>1 DEF RemoveFinalizer, Credential
  <2> HIDE DEF new
  <2> QED BY <1>0, <1>1, <2>1, RequestTyped DEF TypeOK
<1>3. PICK result \in {"requeue", "done"} : Return(result)
  BY DEF removeCredentialFinalizer
<1>4. TypedJob' /\ queue' \subseteq Creds /\ timer' \in [Creds -> Nat \cup {None}]
  BY <1>0, <1>3, ReturnTyped
<1> QED BY <1>2, <1>4 DEF removeCredentialFinalizer, TypeOK

-----------------------------------------------------------------------------
\* A user's edit keeps the types if the new object has its kind's type.
LEMMA TypeEdit ==
  ASSUME TypeOK, NEW kind, NEW k \in Keys, NEW o \in ObjectsOf(k) \cup {Absent},
         Edit(kind, k, o)
  PROVE  TypeOK'
<1>1. TypedStore'
  BY CommitTyped DEF Edit, TypeOK
<1> QED BY <1>1 DEF Edit, TypeOK, TypedJob, CallTyped

\* A new credential is a credential.
LEMMA NewCredentialTyped ==
  ASSUME NEW uid \in Nat, NEW spec \in Specs
  PROVE  NewCredential(uid, spec) \in Credential
<1>1. NewStatus \in Status
  BY DEF NewStatus, Status, Conditions, Reasons
<1> QED BY <1>1 DEF NewCredential, Credential

\* A credential with an edited field is a credential.
LEMMA EditedTyped ==
  ASSUME NEW o \in Credential
  PROVE  /\ \A spec \in Specs : [o EXCEPT !.spec = spec, !.gen = o.gen + 1] \in Credential
         /\ [o EXCEPT !.deleting = TRUE, !.gen = o.gen + 1] \in Credential
<1>1. PICK gen \in Nat : gen = o.gen + 1
  BY CredentialFields
<1>2. \A spec \in Specs : [o EXCEPT !.spec = spec, !.gen = gen] \in Credential
  BY DEF Credential
<1>3. [o EXCEPT !.deleting = TRUE, !.gen = gen] \in Credential
  BY DEF Credential
<1> QED BY <1>1, <1>2, <1>3

\* Every edit keeps the types.
LEMMA TypeUserEdit ==
  ASSUME TypeOK, UserEdit
  PROVE  TypeOK'
<1>1. ASSUME NEW c \in Creds, CreateCredential(c) PROVE TypeOK'
  <2>1. PICK spec \in Specs : Edit("Create", c, NewCredential(api[c].rv + 1, spec))
    BY <1>1 DEF CreateCredential
  <2>2. NewCredential(api[c].rv + 1, spec) \in ObjectsOf(c) \cup {Absent} /\ c \in Keys
    BY StoreAt, KeyKinds, NewCredentialTyped DEF Version, TypeOK
  <2> QED BY <2>1, <2>2, TypeEdit
<1>2. ASSUME NEW c \in Creds, api[c].obj # Absent PROVE api[c].obj \in Credential
  BY <1>2, StoreAt, KeyKinds DEF Version, TypeOK
<1>3. ASSUME NEW c \in Creds, UpdateSpec(c) PROVE TypeOK'
  <2>1. PICK spec \in Specs :
          Edit("Spec", c, [api[c].obj EXCEPT !.spec = spec, !.gen = @ + 1])
    BY <1>3 DEF UpdateSpec
  <2>2. api[c].obj \in Credential
    BY <1>2, <1>3 DEF UpdateSpec
  <2>3. [api[c].obj EXCEPT !.spec = spec, !.gen = @ + 1] \in Credential
    BY <2>2, CredentialFields, EditedTyped
  <2> QED BY <2>1, <2>3, KeyKinds, TypeEdit
<1>4. ASSUME NEW c \in Creds, AnnotateRotateAt(c) PROVE TypeOK'
  <2>1. PICK t \in Triggers : Edit("RotateAt", c, [api[c].obj EXCEPT !.rotateAt = t])
    BY <1>4 DEF AnnotateRotateAt
  <2>2. api[c].obj \in Credential
    BY <1>2, <1>4 DEF AnnotateRotateAt
  <2>3. [api[c].obj EXCEPT !.rotateAt = t] \in Credential
    BY <2>2 DEF Credential
  <2> QED BY <2>1, <2>3, KeyKinds, TypeEdit
<1>5. ASSUME NEW c \in Creds, AnnotateForceCleanup(c) PROVE TypeOK'
  <2>1. api[c].obj \in Credential
    BY <1>2, <1>5 DEF AnnotateForceCleanup
  <2>2. [api[c].obj EXCEPT !.force = TRUE] \in Credential
    BY <2>1 DEF Credential
  <2> QED BY <1>5, <2>2, KeyKinds, TypeEdit DEF AnnotateForceCleanup
<1>6. ASSUME NEW c \in Creds, DeleteCredential(c) PROVE TypeOK'
  <2>1. api[c].obj \in Credential
    BY <1>2, <1>6 DEF DeleteCredential
  <2>2. [api[c].obj EXCEPT !.deleting = TRUE, !.gen = @ + 1] \in Credential
    BY <2>1, CredentialFields, EditedTyped
  <2>3. PICK o \in Credential \cup {Absent} : Edit("Delete", c, o)
    BY <1>6, <2>2 DEF DeleteCredential
  <2> QED BY <2>3, KeyKinds, TypeEdit
<1>7. ASSUME UpdatePolicy PROVE TypeOK'
  BY <1>7, KeyKinds, TypeEdit DEF UpdatePolicy
<1>8. ASSUME NEW s \in SecretNames, TouchSecret(s) PROVE TypeOK'
  <2>1. api[s].obj \in Secret \cup {Absent}
    BY StoreAt, KeyKinds DEF Version, TypeOK
  <2>2. api[s].obj # Absent => [api[s].obj EXCEPT !.pw = None] \in Secret
    BY <2>1 DEF Secret
  <2>3. ForeignSecret \in Secret
    BY DEF ForeignSecret, Secret
  <2>4. \E o \in Secret \cup {Absent} : \E kind : Edit(kind, s, o)
    BY <1>8, <2>2, <2>3 DEF TouchSecret
  <2> QED BY <2>4, KeyKinds, TypeEdit
<1> QED BY <1>1, <1>3, <1>4, <1>5, <1>6, <1>7, <1>8 DEF UserEdit

\* So does every step of the cluster, a restart included.
LEMMA TypeCluster ==
  ASSUME TypeOK, Cluster
  PROVE  TypeOK'
<1>1. ASSUME NEW s \in SecretNames, GarbageCollect(s) PROVE TypeOK'
  <2>1. TypedStore'
    BY <1>1, CommitTyped, KeyKinds DEF GarbageCollect, TypeOK
  <2> QED BY <1>1, <2>1 DEF GarbageCollect, TypeOK, TypedJob, CallTyped
<1>2. ASSUME NEW k \in Keys, WatchEvent(k) PROVE TypeOK'
  <2>1. TypedStore'
    BY <1>2, DeliverTyped DEF WatchEvent, TypeOK
  <2>2. \A o \in Secret \cup {Absent} : Owners(o) \subseteq Creds
    BY DEF Owners, Secret, Owner
  <2>3. queue' \subseteq Creds
    <3>1. CASE k \in SecretNames
      <4>1. cache[k].obj \in Secret \cup {Absent} /\ cache'[k].obj \in Secret \cup {Absent}
        BY <3>1, <2>1, StoreAt, KeyKinds DEF TypeOK, TypedStore, Versions, Version
      <4> QED BY <1>2, <2>2, <3>1, <4>1, NamesAssumption DEF WatchEvent, Enqueued, TypeOK
    <3>2. CASE k \notin SecretNames
      BY <1>2, <3>2 DEF WatchEvent, Enqueued, TypeOK
    <3> QED BY <3>1, <3>2
  <2> QED BY <1>2, <2>1, <2>3 DEF WatchEvent, TypeOK, TypedJob, CallTyped
<1>3. ASSUME NEW c \in Creds, Resync(c) \/ TimerFires(c) PROVE TypeOK'
  BY <1>3 DEF Resync, TimerFires, TypeOK, TypedJob, CallTyped, store, TypedStore, Versions
<1>4. ASSUME Tick PROVE TypeOK'
  BY <1>4 DEF Tick, TypeOK, TypedJob, CallTyped, store, TypedStore, Versions
<1>5. ASSUME Restart PROVE TypeOK'
  <2>1. TypedStore'
    BY <1>5, RelistTyped DEF Restart, TypeOK
  <2> QED BY <1>5, <2>1 DEF Restart, TypeOK, TypedJob
<1> QED BY <1>1, <1>2, <1>3, <1>4, <1>5 DEF Cluster

\* Every step keeps the types.
LEMMA TypeStep ==
  ASSUME TypeOK, [Next]_vars
  PROVE  TypeOK'
<1>1. ASSUME NEW c \in Creds, Reconcile(c) PROVE TypeOK'
  BY <1>1, TypeSimpleBegin, TypeAddFinalizer, TypeUnresolved, TypeConflict, TypeBlocked,
     TypeDefine, TypeDeleteForced, TypeDeleteBegin DEF Reconcile
<1>2. ASSUME NEW out \in Outcomes, Proceed(out) PROVE TypeOK'
  BY <1>2, TypeDefineUser, TypeWriteSecret, TypeUpdateStatus, TypeRemoveUser,
     TypeDeleteSecret, TypeRecordFailure, TypeRemoveFinalizer DEF Proceed
<1>3. CASE UNCHANGED vars
  BY <1>3 DEF vars, TypeOK, TypedJob, CallTyped, TypedStore, Versions
<1> QED BY <1>1, <1>2, <1>3, TypeUserEdit, TypeCluster DEF Next

\* Every variable keeps its type and no local of a call is used before it is
\* set, for every instance of the constants.
THEOREM TypeCorrect == Spec => []TypeOK
BY TypeInit, TypeStep, PTL DEF Spec

-----------------------------------------------------------------------------
(* Coherence.  A step moves a key at most one version on, and what the      *)
(* cache and the watch hold afterwards they held before, or it is the new   *)
(* version.                                                                 *)

KeyMoves(k) ==
  /\ api'[k] = api[k] \/ api'[k].rv = api[k].rv + 1
  /\ Versions(k)' \subseteq Versions(k) \cup {api'[k]}

StoreMoves == \A k \in Keys : KeyMoves(k)

\* A commit moves its key one version on, and no other key.
LEMMA CommitMoves ==
  ASSUME TypedStore, NEW k \in Keys, NEW o, Commit(k, o)
  PROVE  StoreMoves /\ (\A j \in Keys \ {k} : api'[j] = api[j])
                    /\ (api'[k] = api[k] \/ api'[k].obj = o)
<1> DEFINE v == [rv |-> api[k].rv + 1, obj |-> o]
<1>1. CASE o = api[k].obj
  BY <1>1 DEF Commit, StoreMoves, KeyMoves, Versions
<1>2. CASE o # api[k].obj
  <2>1. /\ api' = [api EXCEPT ![k] = v]
        /\ pending' = [pending EXCEPT ![k] = @ \cup {v}]
        /\ cache' = cache
    BY <1>2 DEF Commit
  <2>2. v.rv = api[k].rv + 1 /\ v.obj = o
    OBVIOUS
  <2> HIDE DEF v
  <2> QED BY <2>1, <2>2 DEF StoreMoves, KeyMoves, Versions, TypedStore
<1> QED BY <1>1, <1>2

\* A request moves keys as its commit does, or not at all.
LEMMA RequestMoves ==
  ASSUME TypedStore, NEW k \in Keys, NEW o, NEW accepted, NEW kind, NEW out,
         Request(k, o, accepted, kind, out)
  PROVE  StoreMoves /\ (\A j \in Keys \ {k} : api'[j] = api[j])
                    /\ (api'[k] = api[k] \/ (accepted /\ api'[k].obj = o))
<1>1. CASE accepted /\ out # "failed"
  BY <1>1, CommitMoves DEF Request
<1>2. CASE ~(accepted /\ out # "failed")
  BY <1>2 DEF Request, store, StoreMoves, KeyMoves, Versions
<1> QED BY <1>1, <1>2

\* A step that leaves the store alone moves nothing.
LEMMA UnchangedMoves ==
  ASSUME UNCHANGED store
  PROVE  StoreMoves /\ api' = api
BY DEF store, StoreMoves, KeyMoves, Versions

\* What a held version is to the committed one survives such a step.
LEMMA CurrentStable ==
  ASSUME TypedStore, NEW k \in Keys, NEW v, v.rv \in Nat, KeyMoves(k), Current(k, v)
  PROVE  Current(k, v)'
<1>1. api[k].rv \in Nat
  BY StoreAt DEF Version
<1> QED BY <1>1 DEF KeyMoves, Current

\* A step that moves the store on keeps it coherent.
LEMMA CoherentStep ==
  ASSUME TypedStore, TypedStore', StoreCoherent, StoreMoves
  PROVE  StoreCoherent'
<1> SUFFICES ASSUME NEW k \in Keys, NEW v \in Versions(k)' PROVE Current(k, v)'
  BY DEF StoreCoherent
<1>1. KeyMoves(k)
  BY DEF StoreMoves
<1>2. CASE v = api'[k]
  <2>1. api'[k].rv \in Nat
    BY DEF TypedStore, Versions, Version
  <2> QED BY <1>2, <2>1 DEF Current
<1>3. CASE v \in Versions(k)
  <2>1. v.rv \in Nat
    BY <1>3 DEF TypedStore, Version
  <2> QED BY <1>1, <1>3, <2>1, CurrentStable DEF StoreCoherent
<1> QED BY <1>1, <1>2, <1>3 DEF KeyMoves

\* All that can happen to a Secret in a step.
SecretStep(s) ==
  \/ api'[s] = api[s]
  \/ api'[s].obj = Absent
  \/ api[s].obj = Absent /\ api'[s].obj = ForeignSecret
  \/ api[s].obj # Absent /\ api'[s].obj = [api[s].obj EXCEPT !.pw = None]
  \/ /\ job.pc = "secret" /\ s = Cred.spec.targetSecret /\ AcceptsSecret
     /\ api'[s].obj = BuildTargetSecret(job.req, Cred, job.user, job.password, job.url)

SecretSteps == \A s \in SecretNames : SecretStep(s)

\* A write to a credential or to the policy touches no Secret.
LEMMA OtherKey ==
  ASSUME NEW k \in Creds \cup {PolicyName}, \A j \in Keys \ {k} : api'[j] = api[j]
  PROVE  SecretSteps
BY NamesAssumption, KeyKinds DEF SecretSteps, SecretStep

\* The start of a reconcile touches at most the credential.
LEMMA ReconcileMoves ==
  ASSUME TypeOK, NEW c \in Creds, Reconcile(c)
  PROVE  StoreMoves /\ SecretSteps
<1>1. CASE UNCHANGED store
  BY <1>1, UnchangedMoves DEF SecretSteps, SecretStep
<1>2. ASSUME NEW out \in Outcomes, AddFinalizer(c, out) PROVE StoreMoves /\ SecretSteps
  <2>1. PICK o, accepted : Request(c, o, accepted, "AddFinalizer", out)
    BY <1>2 DEF AddFinalizer
  <2> QED BY <2>1, RequestMoves, OtherKey, KeyKinds DEF TypeOK
<1> QED BY <1>1, <1>2
        DEF Reconcile, ReconcileGone, ReconcileRootError, ReconcileUnresolved,
            ReconcileConflict, ReconcileBlocked, ReconcileDefine, DeleteUnresolved,
            DeleteForced, DeleteBegin

\* An external call moves the store on, and changes Secrets in its own ways.
LEMMA ProceedMoves ==
  ASSUME TypeOK, NEW out \in Outcomes, Proceed(out)
  PROVE  StoreMoves /\ SecretSteps
<1>1. CASE UNCHANGED store
  BY <1>1, UnchangedMoves DEF SecretSteps, SecretStep
<1>2. CASE reconcileTargetSecret(out)
  <2> DEFINE k == Cred.spec.targetSecret
             new == BuildTargetSecret(job.req, Cred, job.user, job.password, job.url)
  <2>1. job.pc = "secret" /\ Request(k, new, AcceptsSecret, "WriteSecret", out)
    BY <1>2 DEF reconcileTargetSecret
  <2>2. k \in SecretNames /\ k \in Keys
    BY <2>1, InCall, SpecFields, KeyKinds DEF TypeOK
  <2>3. StoreMoves /\ (\A j \in Keys \ {k} : api'[j] = api[j])
                   /\ (api'[k] = api[k] \/ (AcceptsSecret /\ api'[k].obj = new))
    <3> HIDE DEF k, new
    <3> QED BY <2>1, <2>2, RequestMoves DEF TypeOK
  <2> QED BY <2>1, <2>3, KeyKinds DEF SecretSteps, SecretStep
<1>3. CASE UpdateStatus(out) \/ recordDeleteFailure(out)
  <2>1. job.req \in Creds
    BY <1>3, InCall DEF UpdateStatus, recordDeleteFailure, TypeOK
  <2>2. PICK o, accepted : Request(job.req, o, accepted, "Status", out)
    BY <1>3 DEF UpdateStatus, recordDeleteFailure, WriteStatus
  <2> QED BY <2>1, <2>2, RequestMoves, OtherKey, KeyKinds DEF TypeOK
<1>4. CASE removeCredentialFinalizer(out)
  <2>1. job.req \in Creds
    BY <1>4, InCall DEF removeCredentialFinalizer, TypeOK
  <2>2. PICK o, accepted : Request(job.req, o, accepted, "RemoveFinalizer", out)
    BY <1>4 DEF removeCredentialFinalizer
  <2> QED BY <2>1, <2>2, RequestMoves, OtherKey, KeyKinds DEF TypeOK
<1>5. CASE deleteOwnedTargetSecret(out)
  <2>1. Cred.spec.targetSecret \in Keys
    BY <1>5, InCall, SpecFields, KeyKinds DEF deleteOwnedTargetSecret, TypeOK
  <2>2. PICK accepted : Request(Cred.spec.targetSecret, Absent, accepted, "DeleteSecret", out)
    BY <1>5 DEF deleteOwnedTargetSecret
  <2> QED BY <2>1, <2>2, RequestMoves, KeyKinds DEF TypeOK, SecretSteps, SecretStep
<1> QED BY <1>1, <1>2, <1>3, <1>4, <1>5 DEF Proceed, DefineUser, RemoveUser

\* The same of the edits of users.
LEMMA UserEditMoves ==
  ASSUME TypeOK, UserEdit
  PROVE  StoreMoves /\ SecretSteps
<1>1. ASSUME NEW k \in Creds \cup {PolicyName}, NEW kind, NEW o, Edit(kind, k, o)
      PROVE  StoreMoves /\ SecretSteps
  BY <1>1, CommitMoves, OtherKey, KeyKinds DEF Edit, TypeOK
<1>2. ASSUME NEW s \in SecretNames, TouchSecret(s) PROVE StoreMoves /\ SecretSteps
  <2>1. PICK o : /\ Commit(s, o)
                 /\ \/ o = Absent
                    \/ api[s].obj = Absent /\ o = ForeignSecret
                    \/ api[s].obj # Absent /\ o = [api[s].obj EXCEPT !.pw = None]
    BY <1>2 DEF TouchSecret, Edit
  <2> QED BY <2>1, CommitMoves, KeyKinds DEF TypeOK, SecretSteps, SecretStep
<1>3. CASE UpdatePolicy
  BY <1>1, <1>3 DEF UpdatePolicy
<1>4. ASSUME NEW c \in Creds,
             \/ CreateCredential(c) \/ UpdateSpec(c) \/ AnnotateRotateAt(c)
             \/ AnnotateForceCleanup(c) \/ DeleteCredential(c)
      PROVE  StoreMoves /\ SecretSteps
  BY <1>1, <1>4 DEF CreateCredential, UpdateSpec, AnnotateRotateAt, AnnotateForceCleanup,
                    DeleteCredential
<1> QED BY <1>2, <1>3, <1>4 DEF UserEdit

\* The same of deliveries, garbage collection and restarts.
LEMMA ClusterMoves ==
  ASSUME TypeOK, Cluster
  PROVE  StoreMoves /\ SecretSteps
<1>1. CASE UNCHANGED store
  BY <1>1, UnchangedMoves DEF SecretSteps, SecretStep
<1>2. ASSUME NEW s \in SecretNames, GarbageCollect(s) PROVE StoreMoves /\ SecretSteps
  BY <1>2, CommitMoves, KeyKinds DEF GarbageCollect, TypeOK, SecretSteps, SecretStep
<1>3. ASSUME NEW k \in Keys, WatchEvent(k) PROVE StoreMoves /\ SecretSteps
  BY <1>3 DEF WatchEvent, Deliver, TypeOK, TypedStore, StoreMoves, KeyMoves, Versions,
              SecretSteps, SecretStep
<1>4. CASE Restart
  BY <1>4 DEF Restart, Relist, TypeOK, TypedStore, StoreMoves, KeyMoves, Versions,
              SecretSteps, SecretStep
<1> QED BY <1>1, <1>2, <1>3, <1>4 DEF Cluster, Resync, TimerFires, Tick

\* The same of every step.
LEMMA NextMoves ==
  ASSUME TypeOK, [Next]_vars
  PROVE  StoreMoves /\ SecretSteps
<1>1. CASE UNCHANGED vars
  BY <1>1, UnchangedMoves DEF vars, store, SecretSteps, SecretStep
<1> QED BY <1>1, ReconcileMoves, ProceedMoves, UserEditMoves, ClusterMoves DEF Next

-----------------------------------------------------------------------------
(* The call in progress *)

\* The part of IInv that no other process can take away.
SharedInv == TypeOK /\ StoreCoherent /\ HoldsOwnSecret

JobStep == HoldsOwnSecret' /\ (UserDefined => UserDefined')

\* A step that leaves the call alone, and the accounts too.
LEMMA HoldsKept ==
  ASSUME SharedInv, StoreMoves, UNCHANGED job
  PROVE  HoldsOwnSecret'
<1>1. CASE job.pc \in {"define", "secret"}
  <2>1. Cred.spec.targetSecret \in Keys /\ job.existing.rv \in Nat
    BY <1>1, InCall, SpecFields, KeyKinds DEF SharedInv, TypeOK, CallTyped, Version
  <2>2. Current(Cred.spec.targetSecret, job.existing)
    BY <1>1 DEF SharedInv, HoldsOwnSecret
  <2>3. TypedStore /\ KeyMoves(Cred.spec.targetSecret)
    BY <2>1 DEF SharedInv, TypeOK, StoreMoves
  <2>4. Current(Cred.spec.targetSecret, job.existing)'
    BY <2>1, <2>2, <2>3, CurrentStable DEF Current, Cred
  <2> QED BY <1>1, <2>4 DEF SharedInv, HoldsOwnSecret, Cred
<1>2. CASE job.pc \notin {"define", "secret"}
  BY <1>2 DEF HoldsOwnSecret
<1> QED BY <1>1, <1>2

LEMMA JobKept ==
  ASSUME SharedInv, StoreMoves, UNCHANGED job, UNCHANGED users
  PROVE  JobStep
BY HoldsKept DEF JobStep, UserDefined, Cred

\* A step that takes the call past the Secret, or ends it.
LEMMA JobElsewhere ==
  ASSUME job'.pc \notin {"define", "secret"}
  PROVE  JobStep
BY DEF JobStep, HoldsOwnSecret, UserDefined

\* The target Secret as the cache shows it, vetted by EnsureCanManage.
LEMMA JobDefine ==
  ASSUME SharedInv, NEW c \in Creds, NEW url \in Endpoints, ReconcileDefine(c, url)
  PROVE  JobStep
<1> DEFINE o == cache[c].obj
<1>1. Resolved(c)
  BY DEF ReconcileDefine
<1>2. o \in Credential
  BY <1>1, ResolvedFacts DEF SharedInv
<1>3. /\ job'.pc = "define" /\ job'.req = c /\ job'.credential = cache[c]
      /\ job'.existing = TargetSecret(o)
  BY DEF ReconcileDefine, Call, IdleJob
<1>4. o.spec.targetSecret \in Keys
  BY <1>2, CredentialFields, SpecFields, KeyKinds
<1>5. Current(o.spec.targetSecret, TargetSecret(o))
  BY <1>4 DEF SharedInv, StoreCoherent, Versions, TargetSecret
<1>6. EnsureCanManage(TargetSecret(o).obj, c, o) /\ api' = api
  BY DEF ReconcileDefine, store
<1> QED BY <1>3, <1>5, <1>6 DEF JobStep, HoldsOwnSecret, UserDefined, Current, Cred

\* DefineUser keeps the Secret that was read and sets the account.
LEMMA JobDefineUser ==
  ASSUME SharedInv, NEW out \in Outcomes, DefineUser(out)
  PROVE  JobStep
<1>0. job.pc = "define" /\ job \in Job /\ job.user \in Users /\ api' = api
  BY InCall DEF DefineUser, SharedInv, TypeOK, CallTyped, store
<1>1. CASE Errored(DefinesUser, out)
  BY <1>0, <1>1, JobElsewhere DEF DefineUser, Continue, Job
<1>2. CASE ~Errored(DefinesUser, out)
  <2>1. job' = [job EXCEPT !.pc = "secret",
                           !.status = Succeeded("UserDefined", "DefineUserSucceeded")]
    BY <1>2 DEF DefineUser, Continue
  <2>2. /\ job'.pc = "secret" /\ job'.existing = job.existing /\ job'.req = job.req
        /\ job'.credential = job.credential /\ job'.user = job.user
        /\ job'.password = job.password
    BY <1>0, <2>1 DEF Job
  <2>3. users'[job.user] = [pw |-> job.password, roles |-> Cred.spec.roles]
    BY <1>0, <1>2 DEF DefineUser, Errored, SharedInv, TypeOK
  <2> QED BY <1>0, <2>2, <2>3 DEF SharedInv, JobStep, HoldsOwnSecret, UserDefined, Current, Cred
<1> QED BY <1>1, <1>2

\* A call that starts holds a Secret version it may write.
LEMMA JobReconcile ==
  ASSUME SharedInv, StoreMoves, NEW c \in Creds, Reconcile(c)
  PROVE  JobStep
<1>1. CASE UNCHANGED <<job, users>>
  BY <1>1, JobKept
<1>2. ASSUME NEW url \in Endpoints, ReconcileDefine(c, url) PROVE JobStep
  BY <1>2, JobDefine
<1>3. CASE ReconcileConflict(c) \/ DeleteForced(c)
  <2>1. CASE ReconcileConflict(c)
    BY <2>1, JobElsewhere DEF ReconcileConflict, Call, IdleJob
  <2>2. CASE DeleteForced(c)
    BY <2>2, JobElsewhere DEF DeleteForced, Call, IdleJob
  <2> QED BY <1>3, <2>1, <2>2
<1>4. ASSUME NEW reason, ReconcileUnresolved(c, reason) \/ DeleteUnresolved(c, reason)
      PROVE  JobStep
  <2>1. job' = job \/ job'.pc = "status"
    BY <1>4 DEF ReconcileUnresolved, DeleteUnresolved, Call, IdleJob
  <2> QED BY <1>1, <1>4, <2>1, JobElsewhere DEF ReconcileUnresolved, DeleteUnresolved
<1>5. ASSUME NEW connected \in BOOLEAN, DeleteBegin(c, connected) PROVE JobStep
  BY <1>5, JobElsewhere DEF DeleteBegin, Call, IdleJob, Record
<1>6. ASSUME NEW reason, ReconcileBlocked(c, reason) PROVE JobStep
  BY <1>6, JobElsewhere DEF ReconcileBlocked, Call, IdleJob
<1> QED BY <1>1, <1>2, <1>3, <1>4, <1>5, <1>6
        DEF Reconcile, ReconcileGone, AddFinalizer, ReconcileRootError

\* A call that goes on still does, and DefineUser gives its user its password.
LEMMA JobProceed ==
  ASSUME SharedInv, NEW out \in Outcomes, Proceed(out)
  PROVE  JobStep
<1>1. CASE DefineUser(out)
  BY <1>1, JobDefineUser
<1>2. ASSUME ~DefineUser(out) PROVE job'.pc \notin {"define", "secret"}
  <2>1. job.pc # "idle" /\ job \in Job
    BY <1>2, InCall
       DEF Proceed, reconcileTargetSecret, UpdateStatus, RemoveUser,
           deleteOwnedTargetSecret, recordDeleteFailure, removeCredentialFinalizer,
           SharedInv, TypeOK
  <2>2. CASE \E result : Return(result)
    BY <2>2 DEF Return, IdleJob
  <2>3. CASE reconcileTargetSecret(out)
    BY <2>1, <2>3 DEF reconcileTargetSecret, Continue, Job
  <2>4. CASE UpdateStatus(out)
    BY <2>1, <2>2, <2>4 DEF UpdateStatus, Continue, Job
  <2>5. CASE RemoveUser(out)
    BY <2>1, <2>5 DEF RemoveUser, Continue, Record, Job
  <2>6. CASE deleteOwnedTargetSecret(out)
    BY <2>1, <2>6 DEF deleteOwnedTargetSecret, Continue, Record, Job
  <2>7. CASE recordDeleteFailure(out)
    BY <2>1, <2>2, <2>7 DEF recordDeleteFailure, Continue, Job
  <2>8. CASE removeCredentialFinalizer(out)
    BY <2>2, <2>8 DEF removeCredentialFinalizer
  <2> QED BY <1>2, <2>3, <2>4, <2>5, <2>6, <2>7, <2>8 DEF Proceed
<1> QED BY <1>1, <1>2, JobElsewhere

\* Nobody else can take that away from the call.
LEMMA JobEnvironment ==
  ASSUME SharedInv, StoreMoves, UserEdit \/ Cluster
  PROVE  JobStep
<1>1. CASE Restart
  BY <1>1, JobElsewhere DEF Restart, IdleJob
<1>2. CASE ~Restart
  <2>1. UNCHANGED job /\ UNCHANGED users
    BY <1>2 DEF UserEdit, CreateCredential, UpdateSpec, AnnotateRotateAt,
                AnnotateForceCleanup, DeleteCredential, UpdatePolicy, TouchSecret, Edit,
                Cluster, GarbageCollect, WatchEvent, Resync, TimerFires, Tick
  <2> QED BY <2>1, JobKept
<1> QED BY <1>1, <1>2

-----------------------------------------------------------------------------
\* The inductive invariant holds at the start.
LEMMA InvStart == Starts => IInv
<1> SUFFICES ASSUME Starts PROVE StoreCoherent /\ JobCoherent
  BY TypeStart DEF IInv
<1>1. \A k \in Keys : api[k].rv = 0 /\ Versions(k) = {api[k]}
  BY DEF Starts, Versions
<1>2. StoreCoherent
  BY <1>1 DEF StoreCoherent, Current
<1>3. JobCoherent
  BY DEF Starts, JobCoherent, HoldsOwnSecret, UserDefined, IdleJob
<1> QED BY <1>2, <1>3

LEMMA InvInit == Init => IInv
BY InitStarts, InvStart

\* Every step keeps the inductive invariant.
LEMMA SharedStep ==
  ASSUME SharedInv, [Next]_vars
  PROVE  TypeOK' /\ StoreCoherent' /\ JobStep
<1>1. TypeOK' /\ StoreMoves
  BY TypeStep, NextMoves DEF SharedInv
<1>2. StoreCoherent'
  BY <1>1, CoherentStep DEF SharedInv, TypeOK
<1>3. JobStep
  <2>1. CASE UNCHANGED vars
    BY <1>1, <2>1, JobKept DEF vars
  <2> QED BY <1>1, <2>1, JobReconcile, JobProceed, JobEnvironment DEF Next
<1> QED BY <1>1, <1>2, <1>3

LEMMA InvStep ==
  ASSUME IInv, [Next]_vars
  PROVE  IInv'
BY SharedStep DEF IInv, JobCoherent, SharedInv, JobStep

\* A step of somebody else keeps what it leaves alone.
LEMMA SharedKept ==
  ASSUME SharedInv, TypedStore', StoreMoves,
         users' \in [Users -> Account \cup {None}], queue' \subseteq Creds,
         timer' \in [Creds -> Nat \cup {None}], job' = job \/ job' = IdleJob,
         now' \in Nat, edits' \in Nat, faults' \in Nat, lag' \in Nat
  PROVE  SharedInv'
<1>1. StoreCoherent'
  BY CoherentStep DEF SharedInv, TypeOK
<1>2. TypedJob'
  BY DEF SharedInv, TypeOK, TypedJob, CallTyped, IdleJob
<1>3. CASE job' = job
  BY <1>1, <1>2, <1>3, HoldsKept DEF SharedInv, TypeOK
<1>4. CASE job' = IdleJob
  BY <1>1, <1>2, <1>4 DEF SharedInv, TypeOK, HoldsOwnSecret, IdleJob
<1> QED BY <1>3, <1>4

\* A cache that hears of a step of somebody else.
LEMMA HeardStore ==
  ASSUME TypedStore, StoreCoherent, UNCHANGED cache,
         pending' = [k \in Keys |-> pending[k] \cup ({api'[k]} \ {api[k]})],
         api' \in [Keys -> AnyVersion],
         \A k \in Keys : api'[k] \in Version(ObjectsOf(k)),
         \A k \in Keys : api'[k] = api[k] \/ api'[k].rv = api[k].rv + 1
  PROVE  TypedStore' /\ StoreCoherent' /\ StoreMoves
<1>1. StoreMoves
  BY DEF StoreMoves, KeyMoves, Versions
<1>2. \A k \in Keys : api'[k] \in AnyVersion
  OBVIOUS
<1>3. \A k \in Keys : Versions(k)' \subseteq Version(ObjectsOf(k))
  BY <1>1 DEF StoreMoves, KeyMoves, TypedStore
<1>4. pending' \in [Keys -> SUBSET AnyVersion]
  BY <1>2 DEF TypedStore
<1>5. TypedStore'
  BY <1>3, <1>4 DEF TypedStore
<1> QED BY <1>1, <1>5, CoherentStep

\* A cache that is to be filled by a list.
LEMMA ListedStore ==
  ASSUME TypedStore, StoreCoherent, cache' = api', pending' = [k \in Keys |-> {}],
         api' \in [Keys -> AnyVersion],
         \A k \in Keys : api'[k] \in Version(ObjectsOf(k)),
         \A k \in Keys : api'[k] = api[k] \/ api'[k].rv = api[k].rv + 1
  PROVE  TypedStore' /\ StoreCoherent' /\ StoreMoves
<1>1. \A k \in Keys : Versions(k)' = {api'[k]}
  BY DEF Versions
<1>2. StoreMoves
  BY <1>1 DEF StoreMoves, KeyMoves
<1>3. TypedStore'
  BY <1>1 DEF TypedStore
<1> QED BY <1>2, <1>3, CoherentStep

\* A process that lists everything anew.
LEMMA RelistMoves ==
  ASSUME TypedStore, Relist
  PROVE  StoreMoves
BY DEF Relist, TypedStore, StoreMoves, KeyMoves, Versions

\* The cache never runs ahead of the API server, and a call that is about to
\* write a Secret holds one it may write, and a password that works.
THEOREM Coherence == Spec => []IInv
BY InvInit, InvStep, PTL DEF Spec

\* A step leaves the owner of a Secret as it is.
OwnerKept(s) ==
  api[s].obj # Absent /\ api'[s].obj # Absent => api'[s].obj.owner = api[s].obj.owner

LEMMA OwnershipStep ==
  ASSUME SharedInv, [Next]_vars, NEW s \in SecretNames
  PROVE  OwnerKept(s)
<1>1. SecretStep(s) /\ s \in Keys
  BY NextMoves, KeyKinds DEF SharedInv, SecretSteps
<1>2. CASE api[s].obj # Absent /\ api'[s].obj = [api[s].obj EXCEPT !.pw = None]
  <2>1. api[s].obj \in Secret
    BY <1>1, <1>2, StoreAt, KeyKinds DEF SharedInv, TypeOK, Version
  <2> QED BY <1>2, <2>1 DEF Secret, OwnerKept
<1>3. CASE /\ job.pc = "secret" /\ s = Cred.spec.targetSecret /\ AcceptsSecret
           /\ api'[s].obj = BuildTargetSecret(job.req, Cred, job.user, job.password, job.url)
  <2>1. /\ Current(s, job.existing)
        /\ EnsureCanManage(job.existing.obj, job.req, Cred)
    BY <1>3 DEF SharedInv, HoldsOwnSecret
  <2>2. CASE job.existing.obj = Absent
    BY <1>3, <2>2 DEF AcceptsSecret, AcceptsCreate, OwnerKept
  <2>3. CASE job.existing.obj # Absent
    BY <1>3, <2>1, <2>3
       DEF AcceptsSecret, AcceptsUpdate, Current, EnsureCanManage, IsOwnedByCredential,
           BuildTargetSecret, OwnerKept
  <2> QED BY <2>2, <2>3
<1> QED BY <1>1, <1>2, <1>3 DEF SecretStep, OwnerKept

\* A Secret never changes hands, whatever the cache shows, users edit, calls
\* lose or the process forgets (controller 104-112, 350-357).
THEOREM OwnershipIsStable == Spec => OwnershipStable
<1>1. IInv /\ [Next]_vars => [\A s \in SecretNames : OwnerKept(s)]_vars
  BY OwnershipStep DEF IInv, JobCoherent, SharedInv
<1>2. OwnershipStable <=> [][\A s \in SecretNames : OwnerKept(s)]_vars
  BY PTL DEF OwnershipStable, OwnerKept
<1> QED BY <1>1, <1>2, Coherence, PTL DEF Spec

\* A step that writes a password to a Secret writes the one the account has.
LEMMA PublishingStep ==
  ASSUME IInv, [Next]_vars, NEW s \in SecretNames
  PROVE  PublishesWorking(s)
<1>1. SecretStep(s) /\ s \in Keys
  BY NextMoves, KeyKinds DEF IInv, SecretSteps
<1>2. CASE api[s].obj # Absent /\ api'[s].obj = [api[s].obj EXCEPT !.pw = None]
  <2>1. api[s].obj \in Secret
    BY <1>1, <1>2, StoreAt, KeyKinds DEF IInv, TypeOK, Version
  <2> QED BY <1>2, <2>1 DEF Secret, PublishesWorking
<1>3. CASE api'[s].obj = ForeignSecret
  BY <1>3 DEF ForeignSecret, PublishesWorking
<1>4. CASE /\ job.pc = "secret"
           /\ api'[s].obj = BuildTargetSecret(job.req, Cred, job.user, job.password, job.url)
  <2>1. users[job.user] = [pw |-> job.password, roles |-> Cred.spec.roles]
    BY <1>4 DEF IInv, JobCoherent, UserDefined
  <2>2. users[job.user] # None
    BY <1>4, <2>1, InCall, SpecFields, ValuesAssumption DEF IInv, TypeOK, CallTyped, Account
  <2> QED BY <1>4, <2>1, <2>2 DEF BuildTargetSecret, PublishesWorking
<1> QED BY <1>1, <1>2, <1>3, <1>4 DEF SecretStep, PublishesWorking

\* A password reaches a Secret only while SurrealDB accepts it for the account
\* the Secret names (controller 136-147).
THEOREM PublishedPasswordsWork == Spec => PublishedPasswordWorks
<1>1. IInv /\ [Next]_vars => [\A s \in SecretNames : PublishesWorking(s)]_vars
  BY PublishingStep
<1> QED BY <1>1, Coherence, PTL DEF Spec, PublishedPasswordWorks

=============================================================================
