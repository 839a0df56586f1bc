--------------------------- MODULE CustodyProofs ---------------------------
(***************************************************************************)
(* No SurrealDB user is orphaned, for every instance, where nobody changes *)
(* the target of a credential or asks for force cleanup.  What an account  *)
(* is owed is kept by Custody: who may still hold a version of a           *)
(* credential on which he would make an account, which account that is,    *)
(* and what the call in progress knows.                                    *)
(***************************************************************************)
EXTENDS CredentialInvariants, CredentialProofs

-----------------------------------------------------------------------------
(* All that can happen to the store, to a credential and to the accounts in *)
(* a step.                                                                  *)

StoreStep ==
  \/ UNCHANGED store
  \/ \E k \in Keys : \E o : Commit(k, o)
  \/ \E k \in Keys : Deliver(k)
  \/ Relist

Bare(o) == o # Absent /\ ~o.deleting /\ ~o.finalizer

\* What custody looks at survives the edits of other fields.
SameCustody(o, n) ==
  n.uid = o.uid /\ n.force = o.force /\ n.deleting = o.deleting /\ n.finalizer = o.finalizer

Created(c) ==
  /\ api[c].obj = Absent
  /\ Bare(api'[c].obj) /\ api'[c].obj.uid = api'[c].rv /\ ~api'[c].obj.force
  /\ api'[c].obj.status = NewStatus /\ api'[c].obj.gen = 1

\* What Ready is about, and the status that says so.
SameRequest(o, n) == n.spec = o.spec /\ n.gen = o.gen /\ n.status = o.status

\* The status that the call in progress reports.
Reported(c) ==
  /\ job.pc \in {"status", "recordFailure"} /\ job.req = c /\ AcceptsStatus
  /\ api'[c].obj = [api[c].obj EXCEPT !.status = job.status]

\* A new annotation, spec or status.
Rewritten(c) ==
  LET o == api[c].obj
      n == api'[c].obj
  IN  /\ o # Absent /\ n # Absent
      /\ SameCustody(o, n)
      /\ SameRequest(o, n) \/ (n.gen = o.gen + 1 /\ n.status = o.status) \/ Reported(c)

Protected(c) ==
  LET o == api[c].obj
      n == api'[c].obj
  IN  /\ job.pc = "idle" /\ cache[c] = api[c] /\ Bare(o)
      /\ Live(n) /\ n.uid = o.uid /\ n.force = o.force
      /\ SameRequest(o, n)

Withdrawn(c) ==
  LET o == api[c].obj
      n == api'[c].obj
  IN  \/ Bare(o) /\ n = Absent
      \/ Live(o) /\ Dying(n) /\ n.uid = o.uid /\ n.force = o.force /\ n.status = o.status

Released(c) ==
  /\ job.pc = "removeFinalizer" /\ job.req = c
  /\ cache[c] = api[c] /\ Guarded(c)
  /\ api'[c].obj = RemoveFinalizer(api[c].obj)

CredentialStep(c) ==
  \/ api'[c] = api[c]
  \/ Created(c) \/ Rewritten(c) \/ Protected(c) \/ Withdrawn(c) \/ Released(c)

CredentialSteps == \A c \in Creds : CredentialStep(c)

AccountStep ==
  \/ users' = users
  \/ /\ job.pc = "define"
     /\ users' = [users EXCEPT ![job.user] = [pw |-> job.password, roles |-> Cred.spec.roles]]
     /\ UNCHANGED store
  \/ /\ job.pc = "removeUser"
     /\ users' = [users EXCEPT ![job.user] = None]
     /\ UNCHANGED store

Effects == StoreStep /\ CredentialSteps /\ AccountStep

\* A step that leaves store and accounts alone.
LEMMA NoEffects ==
  ASSUME UNCHANGED store, UNCHANGED users
  PROVE  Effects
BY DEF Effects, StoreStep, CredentialSteps, CredentialStep, AccountStep, store

\* A commit to one credential, which is one of its steps.
LEMMA CommitEffects ==
  ASSUME TypedStore, NEW c \in Creds, NEW o, Commit(c, o), UNCHANGED users,
         api'[c] # api[c] => CredentialStep(c)
  PROVE  Effects
<1>1. c \in Keys /\ Creds \subseteq Keys
  BY KeyKinds
<1>2. \A d \in Creds \ {c} : api'[d] = api[d]
  BY <1>1, CommitMoves
<1>3. CredentialSteps
  BY <1>2 DEF CredentialSteps, CredentialStep
<1> QED BY <1>1, <1>3 DEF Effects, StoreStep, AccountStep

\* A request that writes to one credential, and does one of its steps.
LEMMA RequestEffects ==
  ASSUME TypedStore, NEW c \in Creds, NEW o, NEW accepted, NEW kind, NEW out,
         Request(c, o, accepted, kind, out), UNCHANGED users,
         accepted /\ api'[c].obj = o /\ api'[c] # api[c] => CredentialStep(c)
  PROVE  Effects
<1>1. CASE accepted /\ out # "failed"
  <2>1. c \in Keys /\ Commit(c, o)
    BY <1>1, KeyKinds DEF Request
  <2>2. api'[c] = api[c] \/ api'[c].obj = o
    BY <2>1, CommitMoves
  <2> QED BY <1>1, <2>1, <2>2, CommitEffects
<1>2. CASE ~(accepted /\ out # "failed")
  BY <1>2, NoEffects DEF Request
<1> QED BY <1>1, <1>2

\* A commit to a Secret or to the policy.
LEMMA OtherEffects ==
  ASSUME TypedStore, NEW k \in SecretNames \cup {PolicyName}, NEW o, Commit(k, o),
         UNCHANGED users
  PROVE  Effects
<1>1. k \in Keys /\ Creds \subseteq Keys \ {k}
  BY KeyKinds, NamesAssumption
<1>2. \A d \in Creds : api'[d] = api[d]
  BY <1>1, CommitMoves
<1> QED BY <1>1, <1>2 DEF Effects, StoreStep, CredentialSteps, CredentialStep, AccountStep

\* The cached version that an update is accepted for is the committed one.
LEMMA AcceptedIsCurrent ==
  ASSUME StoreCoherent, NEW k \in Keys, AcceptsUpdate(k, cache[k].rv)
  PROVE  cache[k] = api[k] /\ api[k].obj # Absent
BY DEF StoreCoherent, Current, Versions, AcceptsUpdate

\* A new status, annotation or spec keeps it; a deletion timestamp is all a
\* deletion adds.
LEMMA EditedFields ==
  ASSUME NEW o \in Credential
  PROVE  /\ \A x : SameCustody(o, [o EXCEPT !.status = x])
         /\ \A x : SameCustody(o, [o EXCEPT !.rotateAt = x])
         /\ \A x : SameRequest(o, [o EXCEPT !.rotateAt = x])
         /\ \A x : LET n == [o EXCEPT !.spec = x, !.gen = o.gen + 1]
                  IN  SameCustody(o, n) /\ n.gen = o.gen + 1 /\ n.status = o.status
         /\ LET n == [o EXCEPT !.deleting = TRUE, !.gen = o.gen + 1]
            IN  SameCustody([o EXCEPT !.deleting = TRUE], n) /\ n.status = o.status
<1>1. PICK gen : gen = o.gen + 1
  OBVIOUS
<1>2. \A x : SameCustody(o, [o EXCEPT !.status = x])
  BY DEF Credential, SameCustody
<1>3. \A x : LET n == [o EXCEPT !.rotateAt = x] IN SameCustody(o, n) /\ SameRequest(o, n)
  BY DEF Credential, SameCustody, SameRequest
<1>4. \A x : LET n == [o EXCEPT !.spec = x, !.gen = gen]
             IN  SameCustody(o, n) /\ n.gen = gen /\ n.status = o.status
  BY DEF Credential, SameCustody
<1>5. LET n == [o EXCEPT !.deleting = TRUE, !.gen = gen]
      IN  SameCustody([o EXCEPT !.deleting = TRUE], n) /\ n.status = o.status
  BY DEF Credential, SameCustody
<1> QED BY <1>1, <1>2, <1>3, <1>4, <1>5

\* The start of a reconcile writes nothing but the finalizer.
LEMMA ReconcileEffects ==
  ASSUME TypeOK, StoreCoherent, NEW c \in Creds, Reconcile(c)
  PROVE  Effects
<1>1. CASE UNCHANGED store /\ UNCHANGED users
  BY <1>1, NoEffects
<1>2. ASSUME NEW out \in Outcomes, AddFinalizer(c, out) PROVE Effects
  <2> DEFINE o == cache[c].obj
             new == [o EXCEPT !.finalizer = TRUE]
             accepted == AcceptsUpdate(c, cache[c].rv)
  <2>1. /\ Request(c, new, accepted, "AddFinalizer", out)
        /\ Bare(o) /\ job.pc = "idle" /\ UNCHANGED users
    BY <1>2 DEF AddFinalizer, Begin, Bare
  <2>2. ASSUME accepted, api'[c].obj = new PROVE CredentialStep(c)
    <3>1. cache[c] = api[c] /\ o \in Credential
      BY <2>1, <2>2, AcceptedIsCurrent, KeyKinds, CachedCredential DEF TypeOK, Bare
    <3>2. new \in Credential
      BY <3>1 DEF Credential
    <3>3. Live(new) /\ new.uid = o.uid /\ new.force = o.force /\ SameRequest(o, new)
      BY <2>1, <3>1, <3>2, CredentialFields DEF Live, Credential, Bare, SameRequest
    <3> QED BY <2>1, <2>2, <3>1, <3>3 DEF CredentialStep, Protected
  <2> HIDE DEF new, accepted
  <2> QED BY <2>1, <2>2, RequestEffects DEF TypeOK
<1> QED BY <1>1, <1>2
        DEF Reconcile, ReconcileGone, ReconcileRootError, ReconcileUnresolved,
            ReconcileConflict, ReconcileBlocked, ReconcileDefine, DeleteUnresolved,
            DeleteForced, DeleteBegin

\* A status update rewrites the credential of the call.
LEMMA StatusEffects ==
  ASSUME TypeOK, job.pc \in {"status", "recordFailure"}, NEW kind, NEW out,
         WriteStatus(kind, out), UNCHANGED users
  PROVE  Effects
<1> DEFINE c == job.req
           o == api[c].obj
           new == [o EXCEPT !.status = job.status]
<1>1. c \in Creds /\ c \in Keys /\ Request(c, new, AcceptsStatus, kind, out)
  BY InCall, KeyKinds DEF TypeOK, WriteStatus
<1>2. ASSUME AcceptsStatus, api'[c].obj = new PROVE CredentialStep(c)
  <2>1. o \in Credential
    BY <1>1, <1>2, StoreAt, KeyKinds DEF AcceptsStatus, AcceptsUpdate, TypeOK, Version
  <2>2. job.status \in Status
    BY InCall DEF TypeOK, CallTyped
  <2>3. new \in Credential
    BY <2>1, <2>2 DEF Credential
  <2>4. SameCustody(o, new)
    BY <2>1, EditedFields
  <2>5. o # Absent /\ new # Absent
    BY <2>1, <2>3, ValuesAssumption
  <2>6. Reported(c)
    BY <1>2 DEF Reported
  <2> HIDE DEF o, new
  <2> QED BY <1>2, <2>4, <2>5, <2>6 DEF CredentialStep, Rewritten, o
<1> HIDE DEF new
<1> QED BY <1>1, <1>2, RequestEffects DEF TypeOK

\* The last step of a cleanup releases the credential of the call.
LEMMA ReleaseEffects ==
  ASSUME TypeOK, StoreCoherent, NEW out \in Outcomes, removeCredentialFinalizer(out)
  PROVE  Effects
<1> DEFINE c == job.req
           new == RemoveFinalizer(cache[c].obj)
           accepted == /\ cache[c].obj # Absent /\ cache[c].obj.finalizer
                       /\ AcceptsUpdate(c, cache[c].rv)
<1>1. /\ job.pc = "removeFinalizer" /\ UNCHANGED users
      /\ Request(c, new, accepted, "RemoveFinalizer", out)
  BY DEF removeCredentialFinalizer
<1>2. c \in Creds /\ c \in Keys
  BY <1>1, InCall, KeyKinds DEF TypeOK
<1>3. ASSUME accepted, api'[c].obj = new PROVE CredentialStep(c)
  <2>1. cache[c] = api[c]
    BY <1>2, <1>3, AcceptedIsCurrent
  <2> QED BY <1>1, <1>3, <2>1 DEF CredentialStep, Released, Guarded
<1> HIDE DEF new, accepted
<1> QED BY <1>1, <1>2, <1>3, RequestEffects DEF TypeOK

\* An external call changes one thing.
LEMMA ProceedEffects ==
  ASSUME TypeOK, StoreCoherent, NEW out \in Outcomes, Proceed(out)
  PROVE  Effects
<1>1. CASE DefineUser(out)
  BY <1>1, NoEffects
     DEF DefineUser, Effects, StoreStep, CredentialSteps, CredentialStep, AccountStep, store
<1>2. CASE RemoveUser(out)
  BY <1>2, NoEffects
     DEF RemoveUser, Effects, StoreStep, CredentialSteps, CredentialStep, AccountStep, store
<1>3. CASE reconcileTargetSecret(out) \/ deleteOwnedTargetSecret(out)
  <2>1. Cred.spec.targetSecret \in SecretNames
    BY <1>3, InCall, SpecFields DEF reconcileTargetSecret, deleteOwnedTargetSecret, TypeOK
  <2>2. PICK o, accepted, kind : Request(Cred.spec.targetSecret, o, accepted, kind, out)
    BY <1>3 DEF reconcileTargetSecret, deleteOwnedTargetSecret
  <2>3. UNCHANGED users
    BY <1>3 DEF reconcileTargetSecret, deleteOwnedTargetSecret
  <2> QED BY <2>1, <2>2, <2>3, OtherEffects, NoEffects DEF Request, TypeOK
<1>4. CASE UpdateStatus(out)
  BY <1>4, StatusEffects DEF UpdateStatus
<1>5. CASE recordDeleteFailure(out)
  BY <1>5, StatusEffects DEF recordDeleteFailure
<1>6. CASE removeCredentialFinalizer(out)
  BY <1>6, ReleaseEffects
<1> QED BY <1>1, <1>2, <1>3, <1>4, <1>5, <1>6 DEF Proceed

\* Users create, rewrite and withdraw credentials, force cleanup apart.
LEMMA UserEditEffects ==
  ASSUME TypeOK, \A c \in Creds : ~AnnotateForceCleanup(c), UserEdit
  PROVE  Effects
<1>1. ASSUME NEW k \in SecretNames \cup {PolicyName}, NEW kind, NEW o, Edit(kind, k, o)
      PROVE  Effects
  BY <1>1, OtherEffects DEF Edit, TypeOK
<1>2. CASE UpdatePolicy
  BY <1>1, <1>2 DEF UpdatePolicy
<1>3. ASSUME NEW s \in SecretNames, TouchSecret(s) PROVE Effects
  BY <1>1, <1>3 DEF TouchSecret
<1>4. ASSUME NEW c \in Creds, NEW kind, NEW o, Edit(kind, c, o),
             api'[c].obj = o /\ api'[c].rv = api[c].rv + 1 => CredentialStep(c)
      PROVE  Effects
  <2>1. c \in Keys /\ TypedStore /\ Commit(c, o) /\ UNCHANGED users
    BY <1>4, KeyKinds DEF Edit, TypeOK
  <2>2. api'[c] # api[c] => api'[c].obj = o /\ api'[c].rv = api[c].rv + 1
    BY <2>1, CommitMoves DEF StoreMoves, KeyMoves
  <2> QED BY <1>4, <2>1, <2>2, CommitEffects
<1>5. ASSUME NEW c \in Creds, CreateCredential(c) PROVE Effects
  <2>1. PICK spec \in Specs : Edit("Create", c, NewCredential(api[c].rv + 1, spec))
    BY <1>5 DEF CreateCredential
  <2> DEFINE new == NewCredential(api[c].rv + 1, spec)
  <2>2. new \in Credential /\ new.uid = api[c].rv + 1 /\ ~new.force
        /\ ~new.deleting /\ ~new.finalizer /\ new.status = NewStatus /\ new.gen = 1
    <3>1. api[c].rv \in Nat
      BY StoreAt, KeyKinds DEF TypeOK, Version
    <3> QED BY <3>1, NewCredentialTyped DEF NewCredential
  <2>3. new # Absent /\ api[c].obj = Absent
    BY <1>5, <2>2, ValuesAssumption DEF CreateCredential
  <2> HIDE DEF new
  <2>4. api'[c].obj = new /\ api'[c].rv = api[c].rv + 1 => CredentialStep(c)
    BY <2>2, <2>3 DEF CredentialStep, Created, Bare
  <2> QED BY <1>4, <2>1, <2>4 DEF new
<1>6. ASSUME NEW c \in Creds, UpdateSpec(c) \/ AnnotateRotateAt(c) PROVE Effects
  <2> DEFINE o == api[c].obj
  <2>1. o \in Credential /\ o # Absent
    BY <1>6, StoreAt, KeyKinds DEF UpdateSpec, AnnotateRotateAt, TypeOK, Version
  <2>2. PICK kind, new : /\ Edit(kind, c, new)
                         /\ \/ \E spec \in Specs : new = [o EXCEPT !.spec = spec, !.gen = o.gen + 1]
                            \/ \E t \in Triggers : new = [o EXCEPT !.rotateAt = t]
    BY <1>6 DEF UpdateSpec, AnnotateRotateAt
  <2>3. /\ new \in Credential /\ SameCustody(o, new)
        /\ SameRequest(o, new) \/ (new.gen = o.gen + 1 /\ new.status = o.status)
    <3>1. ASSUME NEW spec \in Specs, new = [o EXCEPT !.spec = spec, !.gen = o.gen + 1]
          PROVE  new \in Credential /\ SameCustody(o, new)
                 /\ new.gen = o.gen + 1 /\ new.status = o.status
      <4>1. new \in Credential
        BY <2>1, <3>1, EditedTyped
      <4> QED BY <2>1, <3>1, <4>1, EditedFields, Zenon
    <3>2. ASSUME NEW t \in Triggers, new = [o EXCEPT !.rotateAt = t]
          PROVE  new \in Credential /\ SameCustody(o, new) /\ SameRequest(o, new)
      <4>1. [o EXCEPT !.rotateAt = t] \in Credential
        BY <2>1 DEF Credential
      <4> QED BY <2>1, <3>2, <4>1, EditedFields
    <3> QED BY <2>2, <3>1, <3>2
  <2>4. new # Absent
    BY <2>3, ValuesAssumption
  <2>5. api'[c].obj = new => CredentialStep(c)
    BY <2>1, <2>3, <2>4 DEF CredentialStep, Rewritten
  <2> QED BY <1>4, <2>2, <2>5
<1>7. ASSUME NEW c \in Creds, DeleteCredential(c) PROVE Effects
  <2> DEFINE o == api[c].obj
  <2>1. o \in Credential /\ o # Absent /\ ~o.deleting
    BY <1>7, StoreAt, KeyKinds DEF DeleteCredential, TypeOK, Version
  <2>2. PICK kind, new : /\ Edit(kind, c, new)
                         /\ \/ o.finalizer /\ new = [o EXCEPT !.deleting = TRUE, !.gen = o.gen + 1]
                            \/ ~o.finalizer /\ new = Absent
    BY <1>7 DEF DeleteCredential
  <2>3. CASE o.finalizer
    <3>1. /\ new \in Credential /\ SameCustody([o EXCEPT !.deleting = TRUE], new)
          /\ new.status = o.status
      BY <2>1, <2>2, <2>3, EditedTyped, EditedFields
    <3>2. new.uid = o.uid /\ new.force = o.force /\ new.deleting /\ new.finalizer
      BY <2>1, <2>3, <3>1 DEF SameCustody, Credential
    <3>3. new # Absent
      BY <3>1, ValuesAssumption
    <3>4. api'[c].obj = new => CredentialStep(c)
      BY <2>1, <2>3, <3>1, <3>2, <3>3 DEF CredentialStep, Withdrawn, Live, Dying
    <3> QED BY <1>4, <2>2, <3>4
  <2>4. CASE ~o.finalizer
    <3>1. api'[c].obj = new => CredentialStep(c)
      BY <2>1, <2>2, <2>4 DEF CredentialStep, Withdrawn, Bare
    <3> QED BY <1>4, <2>2, <3>1
  <2> QED BY <2>3, <2>4
<1> QED BY <1>2, <1>3, <1>5, <1>6, <1>7 DEF UserEdit

\* The cluster commits nothing to credentials.
LEMMA ClusterEffects ==
  ASSUME TypeOK, Cluster
  PROVE  Effects
<1>1. CASE UNCHANGED store /\ UNCHANGED users
  BY <1>1, NoEffects
<1>2. ASSUME NEW s \in SecretNames, GarbageCollect(s) PROVE Effects
  BY <1>2, OtherEffects DEF GarbageCollect, TypeOK
<1>3. ASSUME NEW k \in Keys, WatchEvent(k) PROVE Effects
  BY <1>3 DEF WatchEvent, Deliver, Effects, StoreStep, CredentialSteps, CredentialStep,
              AccountStep
<1>4. CASE Restart
  BY <1>4 DEF Restart, Relist, Effects, StoreStep, CredentialSteps, CredentialStep,
              AccountStep
<1> QED BY <1>1, <1>2, <1>3, <1>4 DEF Cluster, Resync, TimerFires, Tick

\* Every step has one of these effects, or asks for force cleanup.
LEMMA ForcedOrEffects ==
  ASSUME TypeOK, StoreCoherent, [Next]_vars
  PROVE  Effects \/ \E c \in Creds : AnnotateForceCleanup(c)
<1>1. CASE UNCHANGED vars
  BY <1>1, NoEffects DEF vars, store
<1> QED BY <1>1, ReconcileEffects, ProceedEffects, UserEditEffects, ClusterEffects DEF Next

\* Every step has one of these effects, where nobody asks for that.
LEMMA NextEffects ==
  ASSUME TypeOK, StoreCoherent, "Force" \notin EnvEdits, [Next]_vars
  PROVE  Effects
BY ForcedOrEffects DEF AnnotateForceCleanup, Edit

-----------------------------------------------------------------------------
(* Versions in custody *)

\* Whatever happens to the store, the watch has only newer versions to deliver.
LEMMA PendingStep ==
  ASSUME TypedStore, StoreCoherent, \A k \in Keys : PendingNewer(k), StoreStep
  PROVE  \A k \in Keys : PendingNewer(k)'
<1> SUFFICES ASSUME NEW k \in Keys PROVE PendingNewer(k)'
  OBVIOUS
<1>1. CASE UNCHANGED store
  BY <1>1 DEF store, PendingNewer
<1>2. ASSUME NEW j \in Keys, NEW o, Commit(j, o) PROVE PendingNewer(k)'
  <2>1. CASE UNCHANGED <<api, pending>>
    BY <1>2, <2>1 DEF Commit, PendingNewer
  <2>2. CASE ~UNCHANGED <<api, pending>>
    <3> DEFINE v == [rv |-> api[j].rv + 1, obj |-> o]
    <3>1. /\ pending' = [pending EXCEPT ![j] = @ \cup {v}]
          /\ cache' = cache
      BY <1>2, <2>2 DEF Commit
    <3>2. v.rv = api[j].rv + 1 /\ api[j].rv \in Nat /\ cache[j].rv \in Nat
      BY StoreAt DEF Version
    <3>3. cache[j].rv <= api[j].rv
      BY DEF StoreCoherent, Current, Versions
    <3>4. \A w \in pending[j] : w.rv <= api[j].rv /\ w.rv \in Nat
      BY StoreAt DEF StoreCoherent, Current, Versions, Version
    <3>5. pending \in [Keys -> SUBSET AnyVersion]
      BY DEF TypedStore
    <3> HIDE DEF v
    <3>6. CASE k # j
      BY <3>1, <3>5, <3>6 DEF PendingNewer
    <3>7. CASE k = j
      <4>1. pending'[j] = pending[j] \cup {v} /\ cache'[j] = cache[j]
        BY <3>1, <3>5
      <4>2. \A w \in pending[j] : w.rv # v.rv
        BY <3>2, <3>4
      <4>3. cache[j].rv < v.rv
        BY <3>2, <3>3
      <4> QED BY <3>7, <4>1, <4>2, <4>3 DEF PendingNewer
    <3> QED BY <3>6, <3>7
  <2> QED BY <2>1, <2>2
<1>3. ASSUME NEW j \in Keys, Deliver(j) PROVE PendingNewer(k)'
  <2>1. PICK v \in pending[j] : /\ \A w \in pending[j] : v.rv <= w.rv
                                /\ cache' = [cache EXCEPT ![j] = v]
                                /\ pending' = [pending EXCEPT ![j] = @ \ {v}]
    BY <1>3 DEF Deliver
  <2>2. /\ pending \in [Keys -> SUBSET AnyVersion] /\ cache \in [Keys -> AnyVersion]
        /\ \A w \in pending[j] : w.rv \in Nat
    BY StoreAt DEF TypedStore, Version
  <2>3. CASE k # j
    BY <2>1, <2>2, <2>3 DEF PendingNewer
  <2>4. CASE k = j
    <3>1. pending'[j] = pending[j] \ {v} /\ cache'[j] = v
      BY <2>1, <2>2
    <3>2. \A w \in pending'[j] : v.rv < w.rv
      BY <2>1, <2>2, <3>1 DEF PendingNewer
    <3> QED BY <2>4, <3>1, <3>2 DEF PendingNewer
  <2> QED BY <2>3, <2>4
<1>4. CASE Relist
  BY <1>4 DEF Relist, PendingNewer, TypedStore
<1> QED BY <1>1, <1>2, <1>3, <1>4 DEF StoreStep

\* Where the cache is up to date, there is one version to hold.
LEMMA NothingElse ==
  ASSUME TypedStore, StoreCoherent, NEW k \in Keys, PendingNewer(k), cache[k] = api[k]
  PROVE  Versions(k) = {api[k]}
<1>1. \A v \in pending[k] : v.rv <= api[k].rv /\ v.rv \in Nat
  BY StoreAt DEF StoreCoherent, Current, Versions, Version
<1>2. api[k].rv \in Nat
  BY StoreAt DEF Version
<1>3. pending[k] = {}
  BY <1>1, <1>2 DEF PendingNewer
<1> QED BY <1>3 DEF Versions

\* No live version is held once the cache shows that a credential is dying.
LEMMA DyingLast ==
  ASSUME TypedStore, StoreCoherent, NEW c \in Creds, PendingNewer(c), HeldInCustody(c),
         Dying(cache[c].obj)
  PROVE  \A v \in Versions(c) : ~Live(v.obj)
<1> SUFFICES ASSUME NEW v \in Versions(c), Live(v.obj) PROVE FALSE
  OBVIOUS
<1>1. c \in Keys /\ v.rv \in Nat /\ cache[c].rv \in Nat /\ api[c].rv \in Nat
  BY KeyKinds, StoreAt DEF TypedStore, Version
<1>2. v.rv < cache[c].rv
  BY DEF HeldInCustody, Versions
<1>3. v # cache[c] /\ v \notin pending[c]
  BY <1>1, <1>2 DEF PendingNewer
<1>4. v = api[c] /\ cache[c].rv <= api[c].rv
  BY <1>1, <1>3 DEF Versions, StoreCoherent, Current
<1> QED BY <1>1, <1>2, <1>4

\* What a step does to the guard of a credential.
LEMMA GuardKept ==
  ASSUME NEW c \in Creds, CredentialStep(c), Guarded(c), job.pc # "removeFinalizer"
  PROVE  Guarded(c)' /\ api'[c].obj.uid = api[c].obj.uid
BY DEF CredentialStep, Created, Rewritten, SameCustody, Protected, Withdrawn, Released,
       Guarded, Bare, Live, Dying

\* A credential becomes live only at the start of a reconcile.
LEMMA LifeKept ==
  ASSUME TypedStore, NEW c \in Creds, CredentialStep(c), Live(api'[c].obj)
  PROVE  Live(api[c].obj) \/ (Protected(c) /\ job.pc = "idle")
<1>1. CASE Released(c)
  <2>1. api[c].obj \in Credential
    BY <1>1, StoreAt, KeyKinds DEF Released, Guarded, Version
  <2> QED BY <1>1, <2>1 DEF Released, Guarded, RemoveFinalizer, Live, Credential
<1>2. CASE Protected(c)
  BY <1>2 DEF Protected
<1>3. CASE api'[c] = api[c]
  BY <1>3
<1>4. CASE Rewritten(c)
  BY <1>4 DEF Rewritten, SameCustody, Live
<1>5. CASE Created(c) \/ Withdrawn(c)
  BY <1>5 DEF Created, Withdrawn, Bare, Live, Dying
<1> QED BY <1>1, <1>2, <1>3, <1>4, <1>5 DEF CredentialStep

\* A cleanup that knows of no live version hears of none.
LEMMA NoLifeKept ==
  ASSUME TypedStore, NEW c \in Creds, CredentialStep(c), KeyMoves(c), job.pc # "idle",
         \A v \in Versions(c) : ~Live(v.obj)
  PROVE  \A v \in Versions(c)' : ~Live(v.obj)
<1>1. ~Live(api'[c].obj)
  BY LifeKept DEF Versions
<1> QED BY <1>1 DEF KeyMoves

\* What a step leaves of a credential is new, or the incarnation it was.
LEMMA Inherits ==
  ASSUME TypedStore, NEW c \in Creds, CredentialStep(c), api'[c] # api[c], api'[c].obj # Absent
  PROVE  \/ Created(c)
         \/ /\ api[c].obj # Absent
            /\ api'[c].obj.uid = api[c].obj.uid /\ api'[c].obj.force = api[c].obj.force
<1>1. CASE Released(c)
  <2>1. api[c].obj \in Credential
    BY <1>1, StoreAt, KeyKinds DEF Released, Guarded, Version
  <2> QED BY <1>1, <2>1 DEF Released, Guarded, RemoveFinalizer, Credential
<1>2. CASE ~Released(c)
  BY <1>2 DEF CredentialStep, Rewritten, SameCustody, Protected, Withdrawn, Bare, Live
<1> QED BY <1>1, <1>2

\* Custody of the versions of a credential survives every step of it.
LEMMA HeldStep ==
  ASSUME TypeOK, StoreCoherent, JobInCustody, NEW c \in Creds,
         PendingNewer(c), HeldInCustody(c), CredentialStep(c), KeyMoves(c)
  PROVE  HeldInCustody(c)'
<1>1. /\ TypedStore /\ c \in Keys /\ api[c].rv \in Nat
      /\ \A v \in Versions(c) : v.rv \in Nat /\ v.rv <= api[c].rv
  BY KeyKinds, StoreAt DEF TypeOK, TypedStore, Version, StoreCoherent, Current
<1>2. Versions(c)' \subseteq Versions(c) \cup {api'[c]} /\ api[c] \in Versions(c)
  BY DEF KeyMoves, Versions
<1>3. api'[c] # api[c] => api'[c].rv = api[c].rv + 1
  BY DEF KeyMoves
<1>4. ASSUME NEW v \in Versions(c)', v.obj # Absent PROVE v.obj.uid <= v.rv /\ ~v.obj.force
  <2>1. CASE v \in Versions(c)
    BY <1>4, <2>1 DEF HeldInCustody
  <2>2. CASE v = api'[c] /\ v # api[c] /\ Created(c)
    <3>1. v.rv \in Nat
      BY <1>1, <1>3, <2>2
    <3> QED BY <2>2, <3>1 DEF Created
  <2>3. CASE v = api'[c] /\ v # api[c] /\ ~Created(c)
    <3>1. /\ api[c].obj # Absent /\ v.obj.uid = api[c].obj.uid
          /\ v.obj.force = api[c].obj.force
      BY <1>1, <1>4, <2>3, Inherits
    <3>2. api[c].obj.uid <= api[c].rv /\ ~api[c].obj.force
      BY <1>2, <3>1 DEF HeldInCustody
    <3>3. api[c].obj.uid \in Nat
      BY <1>1, <3>1, StoreAt, KeyKinds, CredentialFields DEF Version
    <3> QED BY <1>1, <1>3, <2>3, <3>1, <3>2, <3>3
  <2> QED BY <1>2, <2>1, <2>2, <2>3
<1>5. ASSUME NEW v \in Versions(c)', Live(v.obj)
      PROVE  Guarded(c)' /\ api'[c].obj.uid = v.obj.uid
  <2>1. CASE v = api'[c]
    BY <1>5, <2>1 DEF Live, Guarded
  <2>2. CASE v \in Versions(c)
    <3>1. Guarded(c) /\ api[c].obj.uid = v.obj.uid
      BY <1>5, <2>2 DEF HeldInCustody
    <3>2. CASE Released(c)
      BY <1>5, <2>2, <3>2 DEF Released, JobInCustody, Cleaned
    <3>3. CASE ~Released(c)
      BY <3>1, <3>3, GuardKept
         DEF CredentialStep, Created, Rewritten, SameCustody, Protected, Withdrawn,
         Guarded, Bare, Live, Dying
    <3> QED BY <3>2, <3>3
  <2> QED BY <1>2, <2>1, <2>2
<1>6. ASSUME NEW v \in Versions(c)', NEW w \in Versions(c)', Dying(v.obj), Live(w.obj)
      PROVE  w.rv < v.rv
  <2>1. CASE v \in Versions(c) /\ w \in Versions(c)
    BY <1>6, <2>1 DEF HeldInCustody
  <2>2. CASE v = api'[c] /\ v # api[c] /\ w \in Versions(c)
    BY <1>1, <1>3, <2>2
  <2>3. CASE w = api'[c] /\ w # api[c] /\ v \in Versions(c)
    <3>1. CASE Live(api[c].obj)
      <4>1. api[c].rv < v.rv
        BY <1>2, <1>6, <2>3, <3>1 DEF HeldInCustody
      <4> QED BY <1>1, <2>3, <4>1
    <3>2. CASE Protected(c)
      <4>1. Versions(c) = {api[c]}
        BY <1>1, <3>2, NothingElse DEF Protected
      <4> QED BY <1>6, <2>3, <3>2, <4>1 DEF Protected, Bare, Dying
    <3> QED BY <1>1, <1>6, <2>3, <3>1, <3>2, LifeKept
  <2>4. CASE v = api'[c] /\ w = api'[c]
    BY <1>6, <2>4 DEF Dying, Live
  <2> QED BY <1>2, <2>1, <2>2, <2>3, <2>4
<1> QED BY <1>4, <1>5, <1>6 DEF HeldInCustody

-----------------------------------------------------------------------------
(* The call in custody *)

\* Nothing is asked of a call that is neither before the Secret nor in a cleanup.
Unbound(j) == j.pc \notin {"define", "secret", "removeUser"} /\ ~Cleaned(j)

\* The account of c that the cached spec asks for.
AsksFor(c, u) == u.credential = c /\ u.target \in TargetsOf(cache[c].obj.spec)

\* All that can happen to the call in a step.
CallStep ==
  \/ job' = job
  \/ Unbound(job')
  \/ /\ job'.pc = "define" /\ UNCHANGED store
     /\ job'.req \in Creds /\ Live(cache[job'.req].obj)
     /\ Cred' = cache[job'.req].obj /\ AsksFor(job'.req, job'.user)
  \/ /\ job.pc = "define" /\ job'.pc = "secret" /\ UNCHANGED store
     /\ job'.req = job.req /\ Cred' = Cred /\ job'.user = job.user
  \/ /\ job'.pc = "removeUser" /\ UNCHANGED store
     /\ job'.req \in Creds /\ Dying(cache[job'.req].obj)
     /\ AsksFor(job'.req, job'.user)
  \/ /\ job.pc = "removeUser" /\ job'.pc = "deleteSecret" /\ UNCHANGED store
     /\ job'.req = job.req /\ users' = [users EXCEPT ![job.user] = None]
  \/ /\ Cleaned(job) /\ Cleaned(job') /\ UNCHANGED users
     /\ job'.pc \notin {"define", "secret", "removeUser"}
     /\ job'.req = job.req

\* resolve names the account that the cached spec asks for.
LEMMA ResolvesAsked ==
  ASSUME TypeOK, NEW c, "Resolved" \in resolve(cache[c].obj)
  PROVE  AsksFor(c, UserOf(c, cache[c].obj))
<1>1. cache[PolicyName].obj \in Policies
  BY CachedPolicy DEF TypeOK
<1> QED BY <1>1 DEF AsksFor, TargetsOf, UserOf, Username, Evaluation, Evaluate

\* A new call is unbound, or starts with what the cache shows.
LEMMA ReconcileCall ==
  ASSUME TypeOK, \A c \in Creds : HeldInCustody(c), NEW c \in Creds, Reconcile(c)
  PROVE  CallStep
<1>1. CASE UNCHANGED job
  BY <1>1 DEF CallStep
<1>2. CASE Unbound(job')
  BY <1>2 DEF CallStep
<1>3. ASSUME NEW url \in Endpoints, ReconcileDefine(c, url) PROVE CallStep
  <2>1. /\ job'.pc = "define" /\ job'.req = c /\ job'.credential = cache[c]
        /\ job'.user = UserOf(c, cache[c].obj) /\ UNCHANGED store
    BY <1>3 DEF ReconcileDefine, Call, IdleJob
  <2>2. Live(cache[c].obj) /\ "Resolved" \in resolve(cache[c].obj)
    BY <1>3 DEF ReconcileDefine, Resolved
  <2> QED BY <2>1, <2>2, ResolvesAsked DEF CallStep, Cred
<1>4. ASSUME NEW connected \in BOOLEAN, DeleteBegin(c, connected) PROVE CallStep
  <2>1. CASE connected
    <3>1. /\ job'.pc = "removeUser" /\ job'.req = c /\ UNCHANGED store
          /\ job'.user = UserOf(c, cache[c].obj) /\ Dying(cache[c].obj)
          /\ "Resolved" \in resolve(cache[c].obj)
      BY <1>4, <2>1 DEF DeleteBegin, Call, IdleJob
    <3> QED BY <3>1, ResolvesAsked DEF CallStep
  <2>2. CASE ~connected
    BY <1>2, <1>4, <2>2 DEF DeleteBegin, Call, IdleJob, Record, Unbound, Cleaned
  <2> QED BY <2>1, <2>2
<1>5. ~DeleteForced(c)
  BY DEF DeleteForced, Dying, HeldInCustody, Versions
<1>6. ASSUME NEW reason, ReconcileUnresolved(c, reason) PROVE CallStep
  BY <1>2, <1>6 DEF ReconcileUnresolved, Call, IdleJob, Unbound, Cleaned
<1>7. ASSUME NEW reason, DeleteUnresolved(c, reason) PROVE CallStep
  <2>1. CASE reason = "ProviderSecretInvalid"
    BY <1>2, <1>7, <2>1 DEF DeleteUnresolved, Call, IdleJob, Unbound, Cleaned
  <2>2. CASE reason # "ProviderSecretInvalid"
    BY <1>1, <1>7, <2>2 DEF DeleteUnresolved
  <2> QED BY <2>1, <2>2
<1>8. ASSUME NEW reason, ReconcileBlocked(c, reason) PROVE CallStep
  BY <1>2, <1>8 DEF ReconcileBlocked, Call, IdleJob, Unbound, Cleaned
<1>9. CASE ReconcileConflict(c)
  BY <1>2, <1>9 DEF ReconcileConflict, Call, IdleJob, Unbound, Cleaned
<1> QED BY <1>1, <1>3, <1>4, <1>5, <1>6, <1>7, <1>8, <1>9
        DEF Reconcile, ReconcileGone, AddFinalizer, ReconcileRootError

\* A call goes on in the order of the code.
LEMMA ProceedCall ==
  ASSUME TypeOK, NEW out \in Outcomes, Proceed(out)
  PROVE  CallStep
<1>1. job.pc # "idle" /\ job \in Job
  BY InCall DEF Proceed, DefineUser, reconcileTargetSecret, UpdateStatus, RemoveUser,
                deleteOwnedTargetSecret, recordDeleteFailure, removeCredentialFinalizer,
                TypeOK
<1>2. CASE Unbound(job')
  BY <1>2 DEF CallStep
<1>3. CASE \E result : Return(result)
  BY <1>2, <1>3 DEF Return, IdleJob, Unbound, Cleaned
<1>4. CASE DefineUser(out)
  <2>1. CASE Errored(DefinesUser, out)
    BY <1>1, <1>2, <1>4, <2>1 DEF DefineUser, Continue, Job, Unbound, Cleaned
  <2>2. CASE ~Errored(DefinesUser, out)
    <3>1. /\ job.pc = "define" /\ UNCHANGED store
          /\ job' = [job EXCEPT !.pc = "secret",
                                !.status = Succeeded("UserDefined", "DefineUserSucceeded")]
      BY <1>4, <2>2 DEF DefineUser, Continue
    <3>2. /\ job'.pc = "secret" /\ job'.req = job.req /\ job'.user = job.user
          /\ job'.credential = job.credential
      BY <1>1, <3>1 DEF Job
    <3> QED BY <3>1, <3>2 DEF CallStep, Cred
  <2> QED BY <2>1, <2>2
<1>5. CASE reconcileTargetSecret(out)
  BY <1>1, <1>2, <1>5 DEF reconcileTargetSecret, Continue, Job, Unbound, Cleaned
<1>6. CASE UpdateStatus(out)
  BY <1>1, <1>2, <1>3, <1>6 DEF UpdateStatus, Continue, Job, Unbound, Cleaned
<1>7. CASE RemoveUser(out)
  <2>1. CASE ~RemovesUser \/ RemoveFails(out)
    BY <1>1, <1>2, <1>7, <2>1 DEF RemoveUser, Continue, Record, Job, Unbound, Cleaned
  <2>2. CASE ~(~RemovesUser \/ RemoveFails(out))
    <3>1. /\ job.pc = "removeUser" /\ UNCHANGED store
          /\ job' = [job EXCEPT !.pc = "deleteSecret"]
          /\ users' = [users EXCEPT ![job.user] = None]
      BY <1>7, <2>2 DEF RemoveUser, RemoveFails, Continue
    <3>2. job'.pc = "deleteSecret" /\ job'.req = job.req
      BY <1>1, <3>1 DEF Job
    <3> QED BY <3>1, <3>2 DEF CallStep
  <2> QED BY <2>1, <2>2
<1>8. CASE deleteOwnedTargetSecret(out)
  <2>1. /\ job.pc = "deleteSecret" /\ UNCHANGED users
        /\ \/ job' = [job EXCEPT !.pc = "removeFinalizer"]
           \/ job' = Record(job, "SecretDeleteFailed", TRUE, AfterDeleteFailure(Cred))
    BY <1>8 DEF deleteOwnedTargetSecret, Continue
  <2>2. /\ job'.req = job.req
        /\ job'.pc = "removeFinalizer" \/ job'.pc = "recordFailure"
    BY <1>1, <2>1 DEF Record, Job
  <2> QED BY <1>2, <2>1, <2>2 DEF CallStep, Cleaned, Unbound
<1>9. CASE recordDeleteFailure(out)
  <2>1. CASE job.after = "removeFinalizer"
    <3>1. /\ job.pc = "recordFailure" /\ UNCHANGED users
          /\ job' = [job EXCEPT !.pc = "removeFinalizer"]
      BY <1>9, <2>1 DEF recordDeleteFailure, Continue
    <3>2. job'.pc = "removeFinalizer" /\ job'.req = job.req
      BY <1>1, <3>1 DEF Job
    <3> QED BY <2>1, <3>1, <3>2 DEF CallStep, Cleaned
  <2>2. CASE job.after # "removeFinalizer"
    BY <1>3, <1>9, <2>2 DEF recordDeleteFailure
  <2> QED BY <2>1, <2>2
<1>10. CASE removeCredentialFinalizer(out)
  BY <1>3, <1>10 DEF removeCredentialFinalizer
<1> QED BY <1>4, <1>5, <1>6, <1>7, <1>8, <1>9, <1>10 DEF Proceed

\* Every step does one of these to the call.
LEMMA NextCall ==
  ASSUME TypeOK, \A c \in Creds : HeldInCustody(c), [Next]_vars
  PROVE  CallStep
<1>1. CASE UNCHANGED job
  BY <1>1 DEF CallStep
<1>2. CASE Restart
  BY <1>2 DEF Restart, IdleJob, CallStep, Unbound, Cleaned
<1>3. CASE UserEdit \/ (Cluster /\ ~Restart)
  BY <1>1, <1>3 DEF UserEdit, CreateCredential, UpdateSpec, AnnotateRotateAt,
                AnnotateForceCleanup, DeleteCredential, UpdatePolicy, TouchSecret, Edit,
                Cluster, GarbageCollect, WatchEvent, Resync, TimerFires, Tick
<1>4. CASE UNCHANGED vars
  BY <1>1, <1>4 DEF vars
<1> QED BY <1>2, <1>3, <1>4, ReconcileCall, ProceedCall DEF Next

\* The accounts of a credential stay away unless the call defines one.
LEMMA NoAccountsKept ==
  ASSUME TypeOK, AccountStep, NEW c, NoAccounts(c), job.pc # "define"
  PROVE  NoAccounts(c)'
BY DEF AccountStep, NoAccounts, TypeOK

\* A spec asks for one account: the policies agree on the target.
LEMMA OneTarget ==
  ASSUME SafeEdits, NEW spec \in Specs, NEW t1 \in TargetsOf(spec), NEW t2 \in TargetsOf(spec)
  PROVE  t1 = t2
BY DEF SafeEdits, TargetsOf

\* The account that a cleanup removes is the only one of its credential.
LEMMA OnlyAccount ==
  ASSUME TypeOK, SafeEdits, NoOrphanUser, AccountsFound, JobInCustody, job.pc = "removeUser",
         job.user \in Users, job.req \in Creds,
         NEW u \in Users, u.credential = job.req, users[u] # None
  PROVE  u = job.user
<1>1. Guarded(job.req)
  BY DEF NoOrphanUser, Guarded
<1>2. api[job.req].obj.spec \in Specs
  BY <1>1, StoreAt, KeyKinds, CredentialFields DEF TypeOK, Guarded, Version
<1>3. u.target = job.user.target
  BY <1>1, <1>2, OneTarget DEF AccountsFound
<1>4. u.credential = job.user.credential
  BY DEF JobInCustody
<1> QED BY <1>3, <1>4 DEF Users, Username

\* Custody of the call survives every step.
LEMMA CallKept ==
  ASSUME TypeOK, TypeOK', SafeEdits, StoreCoherent, StoreMoves, Effects, CallStep, Custody
  PROVE  JobInCustody'
<1>0. /\ JobInCustody /\ CredentialSteps /\ AccountStep /\ TypedStore
      /\ \A c \in Creds : /\ c \in Keys /\ HeldInCustody(c) /\ PendingNewer(c)
                          /\ CredentialStep(c) /\ KeyMoves(c)
  BY KeyKinds DEF Custody, Effects, CredentialSteps, StoreMoves, TypeOK
<1>1. CASE job' = job
  <2>1. CASE job.pc = "idle"
    BY <1>1, <2>1 DEF JobInCustody, Cleaned
  <2>2. CASE job.pc # "idle"
    <3>1. PICK c \in Creds : c = job.req /\ c = job'.req
      BY <1>1, <2>2, InCall DEF TypeOK
    <3>2. job.pc \in {"define", "secret"} =>
            Guarded(c)' /\ api'[c].obj.uid = Cred.uid
      BY <1>0, <3>1, GuardKept DEF JobInCustody
    <3>3. job.pc = "removeUser" \/ Cleaned(job) => \A v \in Versions(c)' : ~Live(v.obj)
      BY <1>0, <2>2, <3>1, NoLifeKept DEF JobInCustody
    <3>4. Cleaned(job) => NoAccounts(c)'
      BY <1>0, <3>1, NoAccountsKept DEF JobInCustody, Cleaned
    <3> QED
      BY <1>0, <1>1, <3>1, <3>2, <3>3, <3>4
         DEF JobInCustody, Cred, Guarded, NoAccounts, Cleaned, Versions
  <2> QED BY <2>1, <2>2
<1>2. CASE Unbound(job')
  BY <1>2 DEF Unbound, JobInCustody, Cleaned
<1>3. CASE /\ job'.pc = "define" /\ UNCHANGED store
           /\ job'.req \in Creds /\ Live(cache[job'.req].obj)
           /\ Cred' = cache[job'.req].obj /\ AsksFor(job'.req, job'.user)
  <2>1. Guarded(job'.req) /\ api[job'.req].obj.uid = cache[job'.req].obj.uid
    BY <1>0, <1>3 DEF HeldInCustody, Versions
  <2> QED BY <1>3, <2>1 DEF JobInCustody, AsksFor, Guarded, store, Cleaned
<1>4. CASE /\ job.pc = "define" /\ job'.pc = "secret" /\ UNCHANGED store
           /\ job'.req = job.req /\ Cred' = Cred /\ job'.user = job.user
  BY <1>0, <1>4 DEF JobInCustody, Guarded, store, Cleaned
<1>5. CASE /\ job'.pc = "removeUser" /\ UNCHANGED store
           /\ job'.req \in Creds /\ Dying(cache[job'.req].obj)
           /\ AsksFor(job'.req, job'.user)
  <2>1. \A v \in Versions(job'.req) : ~Live(v.obj)
    BY <1>0, <1>5, DyingLast
  <2> QED BY <1>5, <2>1 DEF JobInCustody, AsksFor, store, Cleaned, Versions
<1>6. CASE /\ job.pc = "removeUser" /\ job'.pc = "deleteSecret" /\ UNCHANGED store
           /\ job'.req = job.req /\ users' = [users EXCEPT ![job.user] = None]
  <2>1. job.user \in Users /\ job.user.credential = job.req /\ job.req \in Creds
    BY <1>0, <1>6, InCall DEF JobInCustody, TypeOK, CallTyped
  <2>2. \A u \in Users : u.credential = job.req /\ users[u] # None => u = job.user
    BY <1>0, <1>6, <2>1, OnlyAccount DEF Custody
  <2>3. NoAccounts(job.req)'
    BY <1>6, <2>1, <2>2 DEF NoAccounts, TypeOK
  <2>4. \A v \in Versions(job.req)' : ~Live(v.obj)
    BY <1>0, <1>6 DEF JobInCustody, store, Versions
  <2> QED BY <1>6, <2>3, <2>4 DEF JobInCustody, NoAccounts, Versions
<1>7. CASE /\ Cleaned(job) /\ Cleaned(job') /\ UNCHANGED users
           /\ job'.pc \notin {"define", "secret", "removeUser"}
           /\ job'.req = job.req
  <2>1. job.pc # "idle" /\ job.req \in Creds
    BY <1>7, InCall DEF Cleaned, TypeOK
  <2>2. \A v \in Versions(job.req)' : ~Live(v.obj)
    BY <1>0, <1>7, <2>1, NoLifeKept DEF JobInCustody
  <2>3. NoAccounts(job.req)'
    BY <1>0, <1>7 DEF JobInCustody, NoAccounts
  <2> QED BY <1>7, <2>2, <2>3 DEF JobInCustody, NoAccounts, Versions
<1> QED BY <1>1, <1>2, <1>3, <1>4, <1>5, <1>6, <1>7 DEF CallStep

\* So does what is known of the owners of Secrets.
LEMMA OwnersKept ==
  ASSUME TypeOK, OwnersKnown, job.pc = "secret" => Custody, StoreMoves, SecretSteps
  PROVE  OwnersKnown'
<1> SUFFICES ASSUME NEW s \in SecretNames, api'[s].obj # Absent, api'[s].obj.owner # None
             PROVE  api'[s].obj.owner.uid <= api'[api'[s].obj.owner.credential].rv
  BY DEF OwnersKnown
<1>1. \A c \in Creds : /\ c \in Keys /\ api[c].rv \in Nat
                       /\ (api'[c].rv = api[c].rv \/ api'[c].rv = api[c].rv + 1)
  BY KeyKinds, StoreAt DEF TypeOK, Version, StoreMoves, KeyMoves
<1>2. ASSUME api[s].obj # Absent, api'[s].obj.owner = api[s].obj.owner
      PROVE  api'[s].obj.owner.uid <= api'[api'[s].obj.owner.credential].rv
  <2> DEFINE owner == api[s].obj.owner
  <2>1. owner \in Owner
    <3>1. owner # None
      BY <1>2
    <3>2. api[s].obj \in Secret
      BY <1>2, StoreAt, KeyKinds DEF TypeOK, Version
    <3> QED BY <3>1, <3>2 DEF Secret
  <2>2. owner.credential \in Creds /\ owner.uid \in Nat
    BY <2>1 DEF Owner
  <2>3. owner.uid <= api[owner.credential].rv
    BY <1>2 DEF OwnersKnown
  <2> QED BY <1>1, <1>2, <2>2, <2>3
<1>3. CASE /\ api[s].obj # Absent /\ api'[s].obj = [api[s].obj EXCEPT !.pw = None]
  <2>1. api[s].obj \in Secret
    BY <1>3, StoreAt, KeyKinds DEF TypeOK, Version
  <2>2. api'[s].obj.owner = api[s].obj.owner
    BY <1>3, <2>1 DEF Secret
  <2> QED BY <1>2, <1>3, <2>2
<1>4. CASE /\ job.pc = "secret"
           /\ api'[s].obj = BuildTargetSecret(job.req, Cred, job.user, job.password, job.url)
  <2>1. /\ job.req \in Creds /\ Guarded(job.req) /\ api[job.req].obj.uid = Cred.uid
        /\ Cred.uid \in Nat
    BY <1>4, InCall, CredentialFields DEF TypeOK, Custody, JobInCustody
  <2>2. Cred.uid <= api[job.req].rv
    BY <1>4, <2>1 DEF Custody, HeldInCustody, Versions, Guarded
  <2>3. Cred.uid <= api'[job.req].rv
    BY <1>1, <2>1, <2>2
  <2>4. /\ api'[s].obj.owner.uid = Cred.uid
        /\ api'[s].obj.owner.credential = job.req
    BY <1>4 DEF BuildTargetSecret, OwnerReference
  <2> QED BY <2>3, <2>4
<1>5. CASE api'[s].obj = ForeignSecret
  BY <1>5 DEF ForeignSecret
<1>6. CASE api'[s] = api[s]
  BY <1>2, <1>6
<1> QED BY <1>2, <1>3, <1>4, <1>5, <1>6 DEF SecretSteps, SecretStep

\* An account has a guarded credential after every step: it is defined for a
\* guarded one, and removed before its credential is released.
LEMMA OrphansKept ==
  ASSUME TypeOK, StoreCoherent, Effects, Custody
  PROVE  NoOrphanUser'
<1>0. JobInCustody /\ CredentialSteps /\ AccountStep /\ NoOrphanUser
  BY DEF Custody, Effects
<1> SUFFICES ASSUME NEW u \in Users, users'[u] # None PROVE Guarded(u.credential)'
  BY DEF NoOrphanUser, Guarded
<1>1. u.credential \in Creds
  BY DEF Users, Username
<1>2. CredentialStep(u.credential)
  BY <1>0, <1>1 DEF CredentialSteps
<1>3. CASE users[u] = None
  <2>1. job.pc = "define" /\ u = job.user /\ UNCHANGED store
    BY <1>0, <1>3 DEF AccountStep, TypeOK
  <2>2. Guarded(u.credential)
    BY <1>0, <2>1 DEF JobInCustody
  <2> QED BY <2>1, <2>2 DEF Guarded, store
<1>4. CASE users[u] # None
  <2>1. Guarded(u.credential)
    BY <1>0, <1>4 DEF NoOrphanUser, Guarded
  <2>2. CASE Released(u.credential)
    <3>1. users[u] = None
      BY <1>0, <2>2 DEF Released, JobInCustody, Cleaned, NoAccounts
    <3> QED BY <1>4, <3>1
  <2>3. CASE ~Released(u.credential)
    BY <1>2, <2>1, <2>3 DEF CredentialStep, Created, Rewritten, SameCustody, Protected,
       Withdrawn, Guarded, Bare, Live, Dying
  <2> QED BY <2>2, <2>3
<1> QED BY <1>3, <1>4

\* A guarded credential was guarded under the same target, or everybody knows
\* it only as it was before it got its finalizer.
LEMMA GuardedBefore ==
  ASSUME NEW c \in Creds, CredentialStep(c), KeepsTarget(c), Guarded(c)'
  PROVE  /\ api[c].obj # Absent
         /\ TargetsOf(api'[c].obj.spec) = TargetsOf(api[c].obj.spec)
         /\ Guarded(c) \/ Protected(c)
BY DEF CredentialStep, Created, Rewritten, SameCustody, Protected, Withdrawn, Released,
       RemoveFinalizer, KeepsTarget, Guarded, Bare, Live, Dying

\* The versions that are held of a guarded credential have one target.
LEMMA VersionsFound ==
  ASSUME TypedStore, StoreCoherent, NEW c \in Creds, PendingNewer(c), CredentialStep(c),
         KeyMoves(c), KeepsTarget(c), AccountsFound, Guarded(c)',
         NEW v \in Versions(c)', v.obj # Absent
  PROVE  TargetsOf(v.obj.spec) = TargetsOf(api'[c].obj.spec)
<1>1. /\ api[c].obj # Absent
      /\ TargetsOf(api'[c].obj.spec) = TargetsOf(api[c].obj.spec)
      /\ Guarded(c) \/ Protected(c)
  BY GuardedBefore
<1>2. v \in Versions(c) \/ v = api'[c]
  BY DEF KeyMoves
<1>3. CASE Guarded(c)
  BY <1>1, <1>2, <1>3 DEF AccountsFound
<1>4. CASE Protected(c)
  <2>1. Versions(c) = {api[c]}
    BY <1>4, NothingElse, KeyKinds DEF Protected
  <2> QED BY <1>1, <1>2, <2>1
<1> QED BY <1>1, <1>3, <1>4

\* Accounts are found after every step.
LEMMA FoundKept ==
  ASSUME TypeOK, StoreCoherent, StoreMoves, Effects, CallStep, Custody, NoOrphanUser',
         \A c \in Creds : KeepsTarget(c)
  PROVE  AccountsFound'
<1>0. /\ JobInCustody /\ AccountStep /\ TypedStore /\ AccountsFound /\ NoOrphanUser
      /\ \A c \in Creds : c \in Keys /\ PendingNewer(c) /\ CredentialStep(c) /\ KeyMoves(c)
  BY KeyKinds DEF Custody, Effects, CredentialSteps, StoreMoves, TypeOK
<1>1. ASSUME NEW c \in Creds, Guarded(c)', NEW v \in Versions(c)', v.obj # Absent
      PROVE  TargetsOf(v.obj.spec) = TargetsOf(api'[c].obj.spec)
  BY <1>0, <1>1, VersionsFound
<1>2. ASSUME NEW u \in Users, users'[u] # None
      PROVE  u.target \in TargetsOf(api'[u.credential].obj.spec)
  <2>1. u.credential \in Creds /\ Guarded(u.credential)'
    BY <1>2 DEF Users, Username, NoOrphanUser, Guarded
  <2>2. CASE users[u] # None
    BY <1>0, <2>1, <2>2, GuardedBefore DEF AccountsFound
  <2>3. CASE users[u] = None
    <3>1. job.pc = "define" /\ u = job.user /\ UNCHANGED store
      BY <1>0, <1>2, <2>3 DEF AccountStep, TypeOK
    <3>2. Guarded(job.req) /\ u.credential = job.req
      BY <1>0, <3>1 DEF JobInCustody
    <3> QED BY <1>0, <3>1, <3>2 DEF AccountsFound, store
  <2> QED BY <2>2, <2>3
<1>3. ASSUME job'.pc \in {"define", "secret", "removeUser"}, Guarded(job.req)'
      PROVE  job'.user.target \in TargetsOf(api'[job'.req].obj.spec)
  <2>1. CASE /\ job'.req = job.req /\ job'.user = job.user
             /\ job.pc \in {"define", "secret", "removeUser"}
    <3> DEFINE c == job.req
    <3>1. c \in Creds /\ job.pc # "idle"
      BY <2>1, InCall DEF TypeOK
    <3>2. api'[c].obj # Absent /\ api'[c].obj.finalizer
      BY <1>3, <2>1 DEF Guarded
    <3>3. /\ Guarded(c)
          /\ TargetsOf(api'[c].obj.spec) = TargetsOf(api[c].obj.spec)
      <4> SUFFICES ASSUME NEW d \in Creds, d = c
                   PROVE  /\ Guarded(d)
                          /\ TargetsOf(api'[d].obj.spec) = TargetsOf(api[d].obj.spec)
        BY <3>1
      <4>1. Guarded(d)'
        BY <3>2 DEF Guarded
      <4> QED BY <1>0, <3>1, <4>1, GuardedBefore DEF Protected
    <3> QED BY <1>0, <2>1, <3>3 DEF AccountsFound
  <2>2. CASE /\ UNCHANGED store /\ job'.req \in Creds /\ cache[job'.req].obj # Absent
             /\ AsksFor(job'.req, job'.user)
    BY <1>0, <1>3, <2>2 DEF AccountsFound, AsksFor, Guarded, store, Versions
  <2> QED BY <1>3, <2>1, <2>2 DEF CallStep, Unbound, Live, Dying
<1> QED BY <1>1, <1>2, <1>3 DEF AccountsFound, Guarded, Versions

-----------------------------------------------------------------------------
\* Custody holds at the start.
LEMMA CustodyInit == Init => Custody
<1> SUFFICES ASSUME Init PROVE Custody
  OBVIOUS
<1> PICK p \in Policies :
      api = [k \in Keys |-> [rv |-> 0, obj |-> IF k = PolicyName THEN p ELSE Absent]]
  BY DEF Init
<1>0. /\ \A k \in Creds \cup SecretNames : k \in Keys /\ k # PolicyName
      /\ cache = api /\ pending = [k \in Keys |-> {}] /\ users = [u \in Users |-> None]
      /\ job = IdleJob
  BY NamesAssumption, KeyKinds DEF Init
<1>1. /\ \A k \in Keys : pending[k] = {} /\ cache[k] = api[k]
      /\ \A k \in Creds \cup SecretNames : api[k].obj = Absent
      /\ \A u \in Users : users[u] = None
      /\ job = IdleJob
  BY <1>0
<1>2. \A c \in Creds : HeldInCustody(c)
  <2> SUFFICES ASSUME NEW c \in Creds, NEW v \in Versions(c) PROVE v.obj = Absent
    BY DEF HeldInCustody, Live, Dying
  <2>1. api[c].obj = Absent /\ cache[c] = api[c] /\ pending[c] = {}
    BY <1>1, KeyKinds
  <2> QED BY <2>1 DEF Versions
<1>3. JobInCustody
  BY <1>1 DEF JobInCustody, IdleJob, Cleaned
<1>4. AccountsFound
  BY <1>1 DEF AccountsFound, Guarded, IdleJob
<1> QED BY <1>1, <1>2, <1>3, <1>4 DEF Custody, PendingNewer, OwnersKnown, NoOrphanUser

\* Every step keeps it.
LEMMA CustodyStep ==
  ASSUME SafeEdits, IInv, Custody, [Next]_vars, [\A c \in Creds : KeepsTarget(c)]_vars
  PROVE  Custody'
<1>1. /\ TypeOK /\ TypeOK' /\ TypedStore /\ StoreCoherent /\ StoreMoves /\ SecretSteps
  BY TypeStep, NextMoves DEF IInv, TypeOK
<1>2. Effects /\ CallStep
  BY <1>1, NextEffects, NextCall DEF SafeEdits, Custody
<1>3. \A k \in Keys : PendingNewer(k)'
  BY <1>1, <1>2, PendingStep DEF Effects, Custody
<1>4. \A c \in Creds : HeldInCustody(c)'
  BY <1>1, <1>2, HeldStep, KeyKinds DEF Effects, CredentialSteps, Custody, StoreMoves
<1>5. JobInCustody' /\ OwnersKnown' /\ NoOrphanUser'
  BY <1>1, <1>2, CallKept, OwnersKept, OrphansKept DEF Custody
<1>6. \A c \in Creds : KeepsTarget(c)
  BY DEF KeepsTarget, vars
<1>7. AccountsFound'
  BY <1>1, <1>2, <1>5, <1>6, FoundKept
<1> QED BY <1>3, <1>4, <1>5, <1>7 DEF Custody

\* Where nobody changes a target or asks for force cleanup, custody is never
\* lost.
THEOREM CustodyHolds ==
  ASSUME SafeEdits
  PROVE  Spec /\ TargetsKept => []Custody
<1>1. Init => Custody
  BY CustodyInit
<1>2. IInv /\ Custody /\ [Next]_vars /\ [\A c \in Creds : KeepsTarget(c)]_vars => Custody'
  BY CustodyStep
<1> QED BY <1>1, <1>2, Coherence, PTL DEF Spec, TargetsKept

\* Then no SurrealDB user is left without the credential that will remove it,
\* whatever the cache shows, calls lose or the process forgets.
THEOREM NoUserIsOrphaned ==
  ASSUME SafeEdits
  PROVE  Spec /\ TargetsKept => []NoOrphanUser
<1>1. Custody => NoOrphanUser
  BY DEF Custody
<1> QED BY <1>1, CustodyHolds, PTL
=============================================================================
