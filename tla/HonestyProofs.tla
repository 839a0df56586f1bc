--------------------------- MODULE HonestyProofs ---------------------------
(***************************************************************************)
(* A credential that reports Ready for its current generation has its      *)
(* SurrealDB user, with the roles it asks for: ReadyIsHonest, for every    *)
(* instance, where nobody changes the target of a credential or asks for   *)
(* force cleanup.                                                          *)
(***************************************************************************)
EXTENDS CustodyProofs

-----------------------------------------------------------------------------
(* What the statuses that a call writes say of Ready *)

\* conditions.NotReady and conditions.Ready set it, the others leave it alone.
LEMMA ReadyOf ==
  ASSUME NEW conds \in Conditions, NEW gen, NEW reason
  PROVE  /\ NotReady(conds, gen, reason)["Ready"] = [reason |-> reason, gen |-> gen]
         /\ Ready(conds, gen)["Ready"] = [reason |-> "Reconciled", gen |-> gen]
         /\ \A type \in ConditionTypes \ {"Ready"} :
              Set(conds, gen, type, reason)["Ready"] = conds["Ready"]
BY DEF NotReady, Ready, Set, Conditions, ConditionTypes

\* A NotReady with one more condition is still one.
LEMMA NotReadyAnd ==
  ASSUME NEW conds \in Conditions, NEW gen \in Nat, NEW reason \in Reasons, NEW other,
         NEW type \in ConditionTypes \ {"Ready"}
  PROVE  Set(NotReady(conds, gen, reason), gen, type, other)["Ready"]
           = [reason |-> reason, gen |-> gen]
BY DEF NotReady, Set, Conditions, ConditionTypes

\* Every failure is a reason other than Reconciled.
LEMMA FailureReasons ==
  /\ Refusals \cup FalseReasons \subseteq Reasons
  /\ "Reconciled" \notin Refusals \cup FalseReasons
BY DEF Refusals, FalseReasons, Reasons

\* resolve leaves its refusal.
LEMMA UnresolvedReady ==
  ASSUME NEW o \in Credential, NEW reason \in Reasons
  PROVE  UnresolvedStatus(o, reason).conds["Ready"] = [reason |-> reason, gen |-> o.gen]
<1>1. o.gen \in Nat /\ o.status \in Status /\ o.status.conds \in Conditions
  BY CredentialFields, StatusFields
<1> DEFINE first == NotReady(o.status.conds, o.gen, reason)
           conds == IF reason = "PolicyDenied"
                    THEN Set(first, o.gen, "PolicyAccepted", reason) ELSE first
<1>2. conds["Ready"] = [reason |-> reason, gen |-> o.gen]
  <2>1. first["Ready"] = [reason |-> reason, gen |-> o.gen]
    BY <1>1 DEF NotReady, Set, Conditions, ConditionTypes
  <2>2. Set(first, o.gen, "PolicyAccepted", reason)["Ready"] = [reason |-> reason, gen |-> o.gen]
    BY <1>1, NotReadyAnd DEF ConditionTypes
  <2> QED BY <2>1, <2>2
<1>3. UnresolvedStatus(o, reason).conds = conds
  BY <1>1 DEF UnresolvedStatus, Status
<1> QED BY <1>2, <1>3

\* A recorded failure is about the generation of the call, which it leaves
\* otherwise as it was.
LEMMA RecordReady ==
  ASSUME NEW j \in Job, NEW reason \in Reasons, NEW mark, NEW after,
         NEW new, new = Record(j, reason, mark, after)
  PROVE  /\ new.pc = "recordFailure"
         /\ new.req = j.req /\ new.credential = j.credential
         /\ new.status.conds["Ready"] = [reason |-> reason, gen |-> j.credential.obj.gen]
<1> DEFINE o == j.credential.obj
<1>1. o \in Credential
  BY DEF Job
<1>2. o.gen \in Nat /\ o.status \in Status /\ o.status.conds \in Conditions
  BY <1>1, CredentialFields, StatusFields
<1> DEFINE first == NotReady(o.status.conds, o.gen, reason)
           conds == IF mark THEN Set(first, o.gen, "SecretReady", reason) ELSE first
           status == [o.status EXCEPT !.obsGen = o.gen, !.conds = conds]
<1>3. conds["Ready"] = [reason |-> reason, gen |-> o.gen]
  <2>1. first["Ready"] = [reason |-> reason, gen |-> o.gen]
    BY <1>2 DEF NotReady, Set, Conditions, ConditionTypes
  <2>2. Set(first, o.gen, "SecretReady", reason)["Ready"] = [reason |-> reason, gen |-> o.gen]
    BY <1>2, NotReadyAnd DEF ConditionTypes
  <2> QED BY <2>1, <2>2
<1>4. status.conds = conds
  BY <1>2 DEF Status
<1>5. Record(j, reason, mark, after)
        = [j EXCEPT !.pc = "recordFailure", !.after = after, !.status = status]
  BY DEF Record
<1> HIDE DEF conds, status
<1> QED BY <1>3, <1>4, <1>5 DEF Job

\* So is the failure of DefineUser or of the Secret.
LEMMA FailedReady ==
  ASSUME TypeOK, job.pc \in {"define", "secret"},
         NEW type \in ConditionTypes \ {"Ready"}, NEW reason \in Reasons
  PROVE  Failed(type, reason).conds["Ready"] = [reason |-> reason, gen |-> Cred.gen]
<1>1. job.status \in Status /\ job.status.conds \in Conditions /\ Cred.gen \in Nat
  BY InCall, StatusFields DEF CallTyped, TypeOK
<1> DEFINE conds == Set(NotReady(job.status.conds, Cred.gen, reason), Cred.gen, type, reason)
<1>2. conds["Ready"] = [reason |-> reason, gen |-> Cred.gen]
  BY <1>1, NotReadyAnd
<1>3. Failed(type, reason).conds = conds
  BY <1>1 DEF Failed, Status
<1> QED BY <1>2, <1>3

\* What a call reports that went through.
LEMMA ReadyReported ==
  ASSUME TypeOK, job.pc = "secret"
  PROVE  /\ ReadyStatus.conds["Ready"] = [reason |-> "Reconciled", gen |-> Cred.gen]
         /\ ReadyStatus.user = job.status.user
<1> DEFINE status == Succeeded("SecretReady", "SecretWritten")
<1>1. status \in Status /\ status.conds \in Conditions
  BY JobStatusTyped, StatusFields DEF ConditionTypes, Reasons, TrueReasons
<1>2. status.user = job.status.user
  BY InCall DEF Succeeded, Status, CallTyped, TypeOK
<1>3. Ready(status.conds, Cred.gen)["Ready"] = [reason |-> "Reconciled", gen |-> Cred.gen]
  BY <1>1, ReadyOf
<1> HIDE DEF status
<1>4. /\ ReadyStatus.conds = Ready(status.conds, Cred.gen)
      /\ ReadyStatus.user = status.user
  BY <1>1 DEF ReadyStatus, Status, status
<1> QED BY <1>2, <1>3, <1>4

-----------------------------------------------------------------------------
(* The call *)

CallIsHonest == CallIsCurrent /\ StatusIsHonest

\* A call on the version that the cache shows, and a status it may have to
\* write.
LEMMA BegunHonest ==
  ASSUME TypedStore, StoreCoherent, NEW c \in Creds, UNCHANGED store, job'.pc # "idle",
         job'.req = c, job'.credential = cache[c],
         job'.pc \notin {"define", "secret"},
         job'.pc \in {"status", "recordFailure"} =>
           \E reason \in Refusals \cup FalseReasons :
             job'.status.conds["Ready"] = [reason |-> reason, gen |-> cache[c].obj.gen]
  PROVE  CallIsHonest'
<1>1. Current(c, cache[c])
  BY KeyKinds DEF StoreCoherent, Versions
<1>2. CallIsCurrent'
  BY <1>1 DEF CallIsCurrent, Current, store
<1>3. ASSUME job'.pc \in {"status", "recordFailure"}
      PROVE  ~ReportsReady(job'.status) /\ job'.status.conds["Ready"].gen = cache[c].obj.gen
  <2>1. PICK reason \in Refusals \cup FalseReasons :
          job'.status.conds["Ready"] = [reason |-> reason, gen |-> cache[c].obj.gen]
    BY <1>3
  <2>2. reason # "Reconciled"
    BY <2>1, FailureReasons
  <2> QED BY <2>1, <2>2 DEF ReportsReady
<1>4. StatusIsHonest'
  BY <1>3 DEF StatusIsHonest, Cred, ReportsReady
<1> QED BY <1>2, <1>4 DEF CallIsHonest

\* The start of a reconcile.
LEMMA ReconcileHonest ==
  ASSUME TypeOK, StoreCoherent, NEW c \in Creds, Reconcile(c)
  PROVE  CallIsHonest'
<1> DEFINE o == cache[c].obj
<1>1. job.pc = "idle"
  BY DEF Reconcile, ReconcileGone, AddFinalizer, ReconcileRootError, ReconcileUnresolved,
         ReconcileConflict, ReconcileBlocked, ReconcileDefine, DeleteUnresolved,
         DeleteForced, DeleteBegin, Resolved, Begin
<1>2. CASE job' = job
  BY <1>1, <1>2 DEF CallIsHonest, CallIsCurrent, StatusIsHonest
<1>3. ASSUME NEW reason \in Refusals, ReconcileUnresolved(c, reason) \/ DeleteUnresolved(c, reason),
             job' # job
      PROVE  CallIsHonest'
  <2>1. o \in Credential /\ UNCHANGED store
    BY <1>3, CachedCredential DEF ReconcileUnresolved, DeleteUnresolved, Live, Dying, TypeOK
  <2>2. PICK after : job' = [Call(c, "status") EXCEPT
                               !.status = UnresolvedStatus(o, reason), !.after = after]
    BY <1>3 DEF ReconcileUnresolved, DeleteUnresolved
  <2>3. /\ job'.pc = "status" /\ job'.req = c /\ job'.credential = cache[c]
        /\ job'.status = UnresolvedStatus(o, reason)
    BY <2>2 DEF Call, IdleJob
  <2>4. job'.status.conds["Ready"] = [reason |-> reason, gen |-> o.gen]
    BY <2>1, <2>3, UnresolvedReady, FailureReasons
  <2> QED BY <2>1, <2>3, <2>4, BegunHonest DEF TypeOK
<1>4. CASE ReconcileConflict(c)
  <2> DEFINE status == AcceptedStatus(c, o)
             conds == Set(NotReady(status.conds, o.gen, "SecretConflict"), o.gen,
                          "SecretReady", "SecretConflict")
  <2>1. o \in Credential /\ o.gen \in Nat /\ status \in Status /\ status.conds \in Conditions
    BY <1>4, ResolvedFacts DEF ReconcileConflict
  <2>2. conds["Ready"] = [reason |-> "SecretConflict", gen |-> o.gen]
    BY <2>1, NotReadyAnd, FailureReasons DEF ConditionTypes, FalseReasons
  <2>3. job' = [Call(c, "status") EXCEPT !.status = [status EXCEPT !.conds = conds],
                                         !.after = "done"]
    BY <1>4 DEF ReconcileConflict
  <2>4. /\ job'.pc = "status" /\ job'.req = c /\ job'.credential = cache[c]
        /\ job'.status = [status EXCEPT !.conds = conds]
    BY <2>3 DEF Call, IdleJob
  <2> HIDE DEF status, conds
  <2>5. job'.status.conds["Ready"] = [reason |-> "SecretConflict", gen |-> o.gen]
    BY <2>1, <2>2, <2>4 DEF Status
  <2>6. UNCHANGED store /\ "SecretConflict" \in FalseReasons
    BY <1>4 DEF ReconcileConflict, FalseReasons
  <2> QED BY <2>4, <2>5, <2>6, BegunHonest DEF TypeOK
<1>5. ASSUME NEW reason \in {"RotationFailed", "SurrealDBUnavailable"},
             ReconcileBlocked(c, reason)
      PROVE  CallIsHonest'
  <2> DEFINE status == AcceptedStatus(c, o)
             conds == NotReady(status.conds, o.gen, reason)
  <2>1. o \in Credential /\ o.gen \in Nat /\ status \in Status /\ status.conds \in Conditions
    BY <1>5, ResolvedFacts DEF ReconcileBlocked
  <2>2. conds["Ready"] = [reason |-> reason, gen |-> o.gen]
    BY <2>1 DEF NotReady, Set, Conditions, ConditionTypes
  <2>3. PICK after : job' = [Call(c, "status") EXCEPT !.status = [status EXCEPT !.conds = conds],
                                                      !.after = after]
    BY <1>5 DEF ReconcileBlocked
  <2>4. /\ job'.pc = "status" /\ job'.req = c /\ job'.credential = cache[c]
        /\ job'.status = [status EXCEPT !.conds = conds]
    BY <2>3 DEF Call, IdleJob
  <2> HIDE DEF status, conds
  <2>5. job'.status.conds["Ready"] = [reason |-> reason, gen |-> o.gen]
    BY <2>1, <2>2, <2>4 DEF Status
  <2>6. UNCHANGED store /\ reason \in FalseReasons
    BY <1>5 DEF ReconcileBlocked, FalseReasons
  <2> QED BY <2>4, <2>5, <2>6, BegunHonest DEF TypeOK
<1>6. ASSUME NEW url \in Endpoints, ReconcileDefine(c, url) PROVE CallIsHonest'
  <2>1. PICK password :
          job' = [Call(c, "define") EXCEPT
                    !.existing = TargetSecret(o), !.user = UserOf(c, o),
                    !.password = password, !.url = url,
                    !.decision = DecisionFor(o), !.status = AcceptedStatus(c, o)]
    BY <1>6 DEF ReconcileDefine
  <2>2. /\ job'.pc = "define" /\ job'.req = c /\ job'.credential = cache[c]
        /\ job'.user = UserOf(c, o) /\ job'.status = AcceptedStatus(c, o)
    BY <2>1 DEF Call, IdleJob
  <2>3. Live(o) /\ UNCHANGED store /\ o \in Credential
    BY <1>6, ResolvedFacts DEF ReconcileDefine, Resolved
  <2>4. AcceptedStatus(c, o).user = UserOf(c, o)
    BY <2>3, CredentialFields DEF AcceptedStatus, Status
  <2>5. Current(c, cache[c]) /\ cache[c].rv \in Nat
    BY KeyKinds, StoreAt DEF StoreCoherent, Versions, TypeOK, Version
  <2>6. CallIsCurrent'
    BY <2>2, <2>3, <2>4, <2>5 DEF CallIsCurrent, Current, Cred, store
  <2> QED BY <2>2, <2>6 DEF CallIsHonest, StatusIsHonest
<1>7. CASE DeleteForced(c)
  <2>1. /\ job'.pc = "deleteSecret" /\ job'.req = c /\ job'.credential = cache[c]
        /\ UNCHANGED store
    BY <1>7 DEF DeleteForced, Call, IdleJob
  <2> QED BY <2>1, BegunHonest DEF TypeOK
<1>8. ASSUME NEW connected \in BOOLEAN, DeleteBegin(c, connected) PROVE CallIsHonest'
  <2>1. o \in Credential /\ cache[c] \in [rv : Nat, obj : Credential] /\ UNCHANGED store
    BY <1>8, CachedCredential DEF DeleteBegin, Dying, TypeOK
  <2>2. CASE connected
    <3>1. /\ job'.pc = "removeUser" /\ job'.req = c /\ job'.credential = cache[c]
      BY <1>8, <2>2 DEF DeleteBegin, Call, IdleJob
    <3> QED BY <2>1, <3>1, BegunHonest DEF TypeOK
  <2>3. CASE ~connected
    <3> DEFINE j == Call(c, "recordFailure")
    <3>1. PICK reason, mark, after : reason \in FalseReasons /\ job' = Record(j, reason, mark, after)
      <4>1. "SurrealDBUnavailable" \in FalseReasons
        BY DEF FalseReasons
      <4>2. job' = Record(j, "SurrealDBUnavailable", FALSE, "requeue")
        BY <1>8, <2>3 DEF DeleteBegin
      <4> HIDE DEF j
      <4> QED BY <4>1, <4>2
    <3>2. j \in Job /\ j.req = c /\ j.credential = cache[c]
      BY <2>1 DEF Call, IdleJob, Job, PCs
    <3>3. reason \in FalseReasons /\ reason \in Reasons
      BY <3>1, FailureReasons
    <3>4. /\ job'.pc = "recordFailure" /\ job'.req = j.req /\ job'.credential = j.credential
          /\ job'.status.conds["Ready"]
               = [reason |-> reason, gen |-> j.credential.obj.gen]
      <4> HIDE DEF j
      <4> QED BY <3>1, <3>2, <3>3, RecordReady
    <3> HIDE DEF j
    <3> QED BY <2>1, <3>2, <3>3, <3>4, BegunHonest DEF TypeOK
  <2> QED BY <2>2, <2>3
<1> QED
  BY <1>2, <1>3, <1>4, <1>5, <1>6, <1>7, <1>8
     DEF Reconcile, ReconcileGone, AddFinalizer, ReconcileRootError

\* The version that a call holds stays one that was committed.
LEMMA HeldStaysCurrent ==
  ASSUME TypeOK, StoreMoves, CallIsCurrent, job.pc # "idle",
         NEW c, NEW v, c = job.req, v = job.credential
  PROVE  Current(c, v)'
<1>1. c \in Keys /\ v.rv \in Nat /\ Current(c, v) /\ KeyMoves(c)
  BY InCall, KeyKinds DEF TypeOK, CallIsCurrent, StoreMoves
<1> QED BY <1>1, CurrentStable DEF TypeOK

\* The cache never goes back.
LEMMA CacheGrows ==
  ASSUME TypedStore, StoreCoherent, StoreStep, NEW k \in Keys, PendingNewer(k)
  PROVE  cache[k].rv \in Nat /\ cache'[k].rv \in Nat /\ cache[k].rv <= cache'[k].rv
<1>1. cache[k].rv \in Nat /\ api[k].rv \in Nat /\ \A v \in pending[k] : v.rv \in Nat
  BY StoreAt DEF Version
<1>2. cache[k].rv <= api[k].rv
  BY DEF StoreCoherent, Current, Versions
<1>3. CASE cache' = cache
  BY <1>1, <1>3
<1>4. ASSUME NEW j \in Keys, Deliver(j)
      PROVE  cache'[k].rv \in Nat /\ cache[k].rv <= cache'[k].rv
  <2>1. PICK v \in pending[j] : cache' = [cache EXCEPT ![j] = v]
    BY <1>4 DEF Deliver
  <2> QED BY <1>1, <2>1 DEF PendingNewer, TypedStore
<1>5. CASE Relist
  BY <1>1, <1>2, <1>5 DEF Relist
<1> QED BY <1>1, <1>3, <1>4, <1>5 DEF StoreStep, store, Commit

\* A step between two external calls, or into the record of a failure.
LEMMA WorkingHonest ==
  ASSUME TypeOK, StoreMoves, CallIsCurrent, job.pc # "idle",
         job'.req = job.req, job'.credential = job.credential,
         job'.pc \notin {"define", "secret"},
         job'.pc \in {"status", "recordFailure"} =>
           \E reason \in Refusals \cup FalseReasons :
             job'.status.conds["Ready"] = [reason |-> reason, gen |-> Cred.gen]
  PROVE  CallIsHonest'
<1>1. CallIsCurrent'
  <2>1. PICK c, v : c = job.req /\ v = job.credential
    OBVIOUS
  <2>2. Current(c, v)'
    BY <2>1, HeldStaysCurrent
  <2> QED BY <2>1, <2>2 DEF CallIsCurrent, Current
<1>2. ASSUME job'.pc \in {"status", "recordFailure"}
      PROVE  ~ReportsReady(job'.status) /\ job'.status.conds["Ready"].gen = Cred.gen
  <2>1. PICK reason \in Refusals \cup FalseReasons :
          job'.status.conds["Ready"] = [reason |-> reason, gen |-> Cred.gen]
    BY <1>2
  <2>2. reason # "Reconciled"
    BY <2>1, FailureReasons
  <2> QED BY <2>1, <2>2 DEF ReportsReady
<1>3. StatusIsHonest'
  BY <1>2 DEF StatusIsHonest, Cred, ReportsReady
<1> QED BY <1>1, <1>3 DEF CallIsHonest

\* The next external call.
LEMMA ProceedHonest ==
  ASSUME IInv, Custody, StoreStep, StoreMoves, CallIsHonest, NEW out \in Outcomes, Proceed(out)
  PROVE  CallIsHonest'
<1>0. /\ TypeOK /\ CallIsCurrent /\ StatusIsHonest /\ TypedStore /\ StoreCoherent
      /\ job.pc # "idle" /\ job \in Job /\ job.req \in Creds /\ job.req \in Keys
  <2>1. job.pc # "idle"
    BY DEF Proceed, DefineUser, reconcileTargetSecret, UpdateStatus, RemoveUser,
           deleteOwnedTargetSecret, recordDeleteFailure, removeCredentialFinalizer
  <2> QED BY <2>1, InCall, KeyKinds DEF IInv, TypeOK, CallIsHonest
<1>1. ASSUME NEW reason \in FalseReasons, NEW mark, NEW after,
             job' = Record(job, reason, mark, after)
      PROVE  CallIsHonest'
  <2>1. /\ job'.pc = "recordFailure" /\ job'.req = job.req /\ job'.credential = job.credential
        /\ job'.status.conds["Ready"] = [reason |-> reason, gen |-> Cred.gen]
    BY <1>0, <1>1, RecordReady, FailureReasons DEF Cred
  <2> QED BY <1>0, <2>1, WorkingHonest
<1>2. ASSUME NEW type \in ConditionTypes \ {"Ready"}, NEW reason \in FalseReasons,
             job.pc \in {"define", "secret"},
             job' = [job EXCEPT !.pc = "status", !.after = "done",
                                !.status = Failed(type, reason)]
      PROVE  CallIsHonest'
  <2>1. /\ job'.pc = "status" /\ job'.req = job.req /\ job'.credential = job.credential
        /\ job'.status = Failed(type, reason)
    BY <1>0, <1>2 DEF Job
  <2>2. job'.status.conds["Ready"] = [reason |-> reason, gen |-> Cred.gen]
    BY <1>0, <1>2, <2>1, FailedReady, FailureReasons
  <2> QED BY <1>0, <2>1, <2>2, WorkingHonest
<1>3. ASSUME NEW pc \in {"deleteSecret", "removeFinalizer"}, job' = [job EXCEPT !.pc = pc]
      PROVE  CallIsHonest'
  <2>1. job'.pc = pc /\ job'.req = job.req /\ job'.credential = job.credential
    BY <1>0, <1>3 DEF Job
  <2> QED BY <1>0, <2>1, WorkingHonest
<1>4. ASSUME NEW result, Return(result) PROVE CallIsHonest'
  BY <1>4 DEF Return, IdleJob, CallIsHonest, CallIsCurrent, StatusIsHonest
<1>5. /\ \A r \in {"DefineUserFailed", "SecretConflict", "RemoveUserFailed",
                  "SecretDeleteFailed"} : r \in FalseReasons
      /\ "UserDefined" \in ConditionTypes \ {"Ready"}
      /\ "SecretReady" \in ConditionTypes \ {"Ready"}
  BY DEF FalseReasons, ConditionTypes
<1>6. job.credential.rv <= cache[job.req].rv => job.credential.rv <= cache'[job.req].rv
  <2>1. /\ cache[job.req].rv \in Nat /\ cache'[job.req].rv \in Nat
        /\ cache[job.req].rv <= cache'[job.req].rv
    BY <1>0, CacheGrows DEF Custody
  <2>2. job.credential.rv \in Nat
    BY <1>0, InCall DEF TypeOK
  <2> QED BY <2>1, <2>2
<1>7. CASE DefineUser(out)
  <2>1. CASE Errored(DefinesUser, out)
    BY <1>2, <1>5, <1>7, <2>1 DEF DefineUser, Continue
  <2>2. CASE ~Errored(DefinesUser, out)
    <3>1. /\ job.pc = "define" /\ UNCHANGED store
          /\ job' = [job EXCEPT !.pc = "secret",
                                !.status = Succeeded("UserDefined", "DefineUserSucceeded")]
      BY <1>7, <2>2 DEF DefineUser, Continue
    <3>2. Succeeded("UserDefined", "DefineUserSucceeded").user = job.status.user
      BY <1>0, <3>1, InCall DEF Succeeded, Status, CallTyped, TypeOK
    <3>3. /\ job'.pc = "secret" /\ job'.req = job.req /\ job'.credential = job.credential
          /\ job'.user = job.user /\ job'.status.user = job.status.user
      BY <1>0, <3>1, <3>2 DEF Job
    <3> QED BY <1>0, <3>1, <3>3
            DEF CallIsHonest, CallIsCurrent, StatusIsHonest, Current, Cred, store
  <2> QED BY <2>1, <2>2
<1>8. CASE reconcileTargetSecret(out)
  <2>1. CASE Errored(AcceptsSecret, out)
    BY <1>2, <1>5, <1>8, <2>1 DEF reconcileTargetSecret, Continue
  <2>2. CASE ~Errored(AcceptsSecret, out)
    <3>1. /\ job.pc = "secret" /\ UNCHANGED users
          /\ job' = [job EXCEPT !.pc = "status", !.after = "schedule", !.status = ReadyStatus]
      BY <1>8, <2>2 DEF reconcileTargetSecret, Continue
    <3>2. /\ job'.pc = "status" /\ job'.req = job.req /\ job'.credential = job.credential
          /\ job'.after = "schedule"
          /\ job'.status.conds["Ready"].gen = Cred.gen /\ job'.status.user = job.user
      BY <1>0, <3>1, ReadyReported DEF Job, CallIsCurrent
    <3>3. Live(Cred) /\ job.credential.rv <= cache'[job.req].rv
      BY <1>0, <1>6, <3>1 DEF CallIsCurrent
    <3>4. job.user \in Users /\ job.user.credential = job.req
      BY <1>0, <3>1, InCall DEF Custody, JobInCustody, TypeOK, CallTyped
    <3>5. /\ users'[job.user] = [pw |-> job.password, roles |-> Cred.spec.roles]
          /\ users'[job.user] # None
      <4>1. users[job.user] = [pw |-> job.password, roles |-> Cred.spec.roles]
        BY <3>1 DEF IInv, JobCoherent, HoldsOwnSecret, UserDefined
      <4> QED BY <1>0, <3>1, <4>1, InCall, SpecFields, ValuesAssumption
              DEF TypeOK, CallTyped, Account
    <3>6. CallIsCurrent'
      <4>1. PICK c, v : c = job.req /\ v = job.credential
        OBVIOUS
      <4>2. Current(c, v)'
        BY <1>0, <4>1, HeldStaysCurrent
      <4> QED BY <3>2, <4>1, <4>2 DEF CallIsCurrent, Current
    <3>7. StatusIsHonest'
      BY <3>2, <3>3, <3>4, <3>5 DEF StatusIsHonest, Cred
    <3> QED BY <3>6, <3>7 DEF CallIsHonest
  <2> QED BY <2>1, <2>2
<1>9. CASE UpdateStatus(out)
  <2>1. CASE Errored(AcceptsStatus, out) \/ job.after # "repeat"
    BY <1>4, <1>9, <2>1 DEF UpdateStatus
  <2>2. CASE ~Errored(AcceptsStatus, out) /\ job.after = "repeat"
    <3> DEFINE new == [api[job.req].obj EXCEPT !.status = job.status]
    <3>1. /\ job.pc = "status" /\ AcceptsStatus
          /\ job' = [job EXCEPT !.credential = api'[job.req], !.after = "done"]
          /\ Commit(job.req, new)
      BY <1>9, <2>2 DEF UpdateStatus, WriteStatus, Request, Continue, Errored
    <3>2. /\ job'.pc = "status" /\ job'.req = job.req /\ job'.credential = api'[job.req]
          /\ job'.status = job.status
      BY <1>0, <3>1 DEF Job
    <3>3. api[job.req] = job.credential
      BY <1>0, <3>1 DEF AcceptsStatus, AcceptsUpdate, CallIsCurrent, Current
    <3>4. api'[job.req].obj.gen = Cred.gen
      <4>1. api'[job.req] = api[job.req] \/ api'[job.req].obj = new
        <5> HIDE DEF new
        <5> QED BY <1>0, <3>1, CommitMoves
      <4>2. new.gen = Cred.gen
        BY <1>0, <3>3, InCall DEF Cred, Credential, TypeOK
      <4> QED BY <3>3, <4>1, <4>2 DEF Cred
    <3>5. ~ReportsReady(job.status) /\ job.status.conds["Ready"].gen = Cred.gen
      BY <1>0, <2>2, <3>1 DEF StatusIsHonest
    <3>6. CallIsCurrent'
      <4>1. api'[job.req].rv \in Nat
        BY <1>0, StoreAt DEF StoreMoves, KeyMoves, Version
      <4> QED BY <3>2, <4>1 DEF CallIsCurrent, Current
    <3>7. StatusIsHonest'
      BY <3>2, <3>4, <3>5 DEF StatusIsHonest, Cred, ReportsReady
    <3> QED BY <3>6, <3>7 DEF CallIsHonest
  <2> QED BY <2>1, <2>2
<1>10. CASE RemoveUser(out)
  BY <1>1, <1>3, <1>5, <1>10 DEF RemoveUser, Continue
<1>11. CASE deleteOwnedTargetSecret(out)
  <2>1. CASE out # "ok"
    <3>1. job' = Record(job, "SecretDeleteFailed", TRUE, AfterDeleteFailure(Cred))
      BY <1>11, <2>1 DEF deleteOwnedTargetSecret, Continue
    <3>2. PICK reason, mark, after : reason \in FalseReasons /\ job' = Record(job, reason, mark, after)
      BY <1>5, <3>1
    <3> QED BY <1>1, <3>2
  <2>2. CASE out = "ok"
    BY <1>3, <1>11, <2>2 DEF deleteOwnedTargetSecret, Continue
  <2> QED BY <2>1, <2>2
<1>12. CASE recordDeleteFailure(out)
  BY <1>3, <1>4, <1>12 DEF recordDeleteFailure, Continue
<1>13. CASE removeCredentialFinalizer(out)
  BY <1>4, <1>13 DEF removeCredentialFinalizer
<1> QED BY <1>7, <1>8, <1>9, <1>10, <1>11, <1>12, <1>13 DEF Proceed

\* Everybody else leaves the call alone, or ends it.
LEMMA OthersHonest ==
  ASSUME IInv, Custody, StoreStep, StoreMoves, CallIsHonest, AccountStep,
         job' = job \/ Restart, job.pc \in {"define", "removeUser"} => users' = users
  PROVE  CallIsHonest'
<1>1. CASE Restart
  BY <1>1 DEF Restart, IdleJob, CallIsHonest, CallIsCurrent, StatusIsHonest
<1>2. CASE job' = job /\ job.pc = "idle"
  BY <1>2 DEF CallIsHonest, CallIsCurrent, StatusIsHonest
<1>3. CASE job' = job /\ job.pc # "idle"
  <2>1. PICK c, v : c = job.req /\ v = job.credential
    OBVIOUS
  <2>2. /\ TypeOK /\ TypedStore /\ StoreCoherent /\ c \in Creds /\ c \in Keys
        /\ v.rv \in Nat /\ CallIsCurrent /\ StatusIsHonest /\ users' = users
    BY <1>3, <2>1, InCall, KeyKinds DEF IInv, TypeOK, CallIsHonest, AccountStep
  <2>3. Current(c, v)'
    BY <1>3, <2>1, <2>2, HeldStaysCurrent
  <2>4. v.rv <= cache[c].rv => v.rv <= cache'[c].rv
    <3>1. /\ cache[c].rv \in Nat /\ cache'[c].rv \in Nat
          /\ cache[c].rv <= cache'[c].rv
      BY <2>2, CacheGrows DEF Custody
    <3> QED BY <2>2, <3>1
  <2>5. CallIsCurrent'
    BY <1>3, <2>1, <2>2, <2>3, <2>4 DEF CallIsCurrent, Current, Cred
  <2>6. StatusIsHonest'
    BY <1>3, <2>1, <2>2, <2>4 DEF StatusIsHonest, Cred
  <2> QED BY <2>5, <2>6 DEF CallIsHonest
<1> QED BY <1>1, <1>2, <1>3

\* What users and the cluster do to the call and to the accounts.
LEMMA OthersAlone ==
  ASSUME UserEdit \/ Cluster \/ UNCHANGED vars
  PROVE  (job' = job \/ Restart) /\ users' = users
BY DEF UserEdit, CreateCredential, UpdateSpec, AnnotateRotateAt, AnnotateForceCleanup,
       DeleteCredential, UpdatePolicy, TouchSecret, Edit, Cluster, GarbageCollect,
       WatchEvent, Resync, TimerFires, Tick, Restart, vars

\* A call in progress works on a current version, and its status is honest,
\* after every step.
LEMMA CallStaysHonest ==
  ASSUME SafeEdits, IInv, Custody, Honesty, [Next]_vars
  PROVE  CallIsHonest'
<1>1. /\ TypeOK /\ StoreCoherent /\ CallIsHonest
      /\ StoreStep /\ AccountStep /\ StoreMoves
  BY NextEffects, NextMoves DEF SafeEdits, IInv, Honesty, CallIsHonest, Effects
<1>2. CASE UserEdit \/ Cluster \/ UNCHANGED vars
  BY <1>1, <1>2, OthersAlone, OthersHonest
<1> QED BY <1>1, <1>2, ReconcileHonest, ProceedHonest DEF Next

\* A reconcile that starts a call works on what the cache shows.
LEMMA ReconcileReads ==
  ASSUME NEW c \in Creds, Reconcile(c)
  PROVE  job' = job \/ (job'.req = c /\ job'.credential = cache[c] /\ UNCHANGED store)
<1> DEFINE Reads == job'.req = c /\ job'.credential = cache[c] /\ UNCHANGED store
<1>1. ReconcileGone(c) \/ (\E out \in Outcomes : AddFinalizer(c, out)) => job' = job
  BY DEF ReconcileGone, AddFinalizer
<1>2. ReconcileRootError(c) => job' = job \/ Reads
  BY DEF ReconcileRootError, Call, IdleJob, Record
<1>3. \A reason : ReconcileUnresolved(c, reason) \/ DeleteUnresolved(c, reason)
                   => job' = job \/ Reads
  BY DEF ReconcileUnresolved, DeleteUnresolved, Call, IdleJob
<1>4. ReconcileConflict(c) \/ (\E reason : ReconcileBlocked(c, reason)) => Reads
  BY DEF ReconcileConflict, ReconcileBlocked, Call, IdleJob
<1>5. \A url : ReconcileDefine(c, url) => Reads
  BY DEF ReconcileDefine, Call, IdleJob
<1>6. DeleteForced(c) \/ (\E connected : DeleteBegin(c, connected)) => Reads
  BY DEF DeleteForced, DeleteBegin, Call, IdleJob, Record
<1> QED BY <1>1, <1>2, <1>3, <1>4, <1>5, <1>6 DEF Reconcile

\* A call works on what it did, on what the cache shows, or on what it wrote.
LEMMA CallReads ==
  ASSUME TypeOK, [Next]_vars, job'.pc # "idle"
  PROVE  \/ job.pc # "idle" /\ job'.req = job.req /\ job'.credential = job.credential
         \/ job'.req \in Creds /\ job'.credential = cache[job'.req] /\ UNCHANGED store
         \/ job'.credential = api'[job'.req]
<1>1. CASE UserEdit \/ Cluster \/ UNCHANGED vars
  <2>1. job' = job
    BY <1>1, OthersAlone DEF Restart, IdleJob
  <2> QED BY <2>1
<1>2. ASSUME NEW c \in Creds, Reconcile(c)
      PROVE  job' = job \/ (job'.req = c /\ job'.credential = cache[c] /\ UNCHANGED store)
  BY <1>2, ReconcileReads
<1>3. ASSUME NEW out \in Outcomes, Proceed(out)
      PROVE  \/ job.pc # "idle" /\ job'.req = job.req /\ job'.credential = job.credential
             \/ job'.credential = api'[job'.req]
  <2>1. job.pc # "idle" /\ job \in Job
    BY <1>3, InCall
       DEF Proceed, DefineUser, reconcileTargetSecret, UpdateStatus, RemoveUser,
           deleteOwnedTargetSecret, recordDeleteFailure, removeCredentialFinalizer, TypeOK
  <2>2. \A result : ~Return(result)
    BY DEF Return, IdleJob
  <2>3. CASE UpdateStatus(out)
    <3>1. job' = [job EXCEPT !.credential = api'[job.req], !.after = "done"]
      BY <2>2, <2>3 DEF UpdateStatus, Continue
    <3>2. PICK v : v = api'[job.req]
      OBVIOUS
    <3>3. job'.req = job.req /\ job'.credential = v
      BY <2>1, <3>1, <3>2 DEF Job
    <3> QED BY <3>2, <3>3
  <2>4. CASE DefineUser(out) \/ reconcileTargetSecret(out)
    <3>1. CASE Errored(DefinesUser, out) /\ DefineUser(out)
      BY <2>1, <3>1 DEF DefineUser, Continue, Job
    <3>2. CASE ~Errored(DefinesUser, out) /\ DefineUser(out)
      BY <2>1, <3>2 DEF DefineUser, Continue, Job
    <3>3. CASE Errored(AcceptsSecret, out) /\ reconcileTargetSecret(out)
      BY <2>1, <3>3 DEF reconcileTargetSecret, Continue, Job
    <3>4. CASE ~Errored(AcceptsSecret, out) /\ reconcileTargetSecret(out)
      BY <2>1, <3>4 DEF reconcileTargetSecret, Continue, Job
    <3> QED BY <2>4, <3>1, <3>2, <3>3, <3>4
  <2>5. ASSUME NEW pc, job' = [job EXCEPT !.pc = pc]
        PROVE  job'.req = job.req /\ job'.credential = job.credential
    BY <2>1, <2>5 DEF Job
  <2>6. ASSUME NEW reason, NEW mark, NEW after, job' = Record(job, reason, mark, after)
        PROVE  job'.req = job.req /\ job'.credential = job.credential
    BY <2>1, <2>6 DEF Record, Job
  <2>7. CASE RemoveUser(out)
    BY <2>1, <2>5, <2>6, <2>7 DEF RemoveUser, Continue
  <2>8. CASE deleteOwnedTargetSecret(out)
    <3>1. \/ job' = [job EXCEPT !.pc = "removeFinalizer"]
          \/ \E mark : job' = Record(job, "SecretDeleteFailed", mark, AfterDeleteFailure(Cred))
      BY <2>8 DEF deleteOwnedTargetSecret, Continue
    <3> QED BY <2>1, <2>5, <2>6, <3>1
  <2>9. CASE recordDeleteFailure(out) \/ removeCredentialFinalizer(out)
    BY <2>1, <2>2, <2>5, <2>9 DEF recordDeleteFailure, removeCredentialFinalizer, Continue
  <2> QED BY <1>3, <2>3, <2>4, <2>7, <2>8, <2>9 DEF Proceed
<1> QED BY <1>1, <1>2, <1>3 DEF Next

-----------------------------------------------------------------------------
(* The credentials *)

\* It has its account, with the roles of its spec.
HonestAt(c) ==
  ReadyNow(api[c].obj) =>
    /\ users[api[c].obj.status.user] # None
    /\ users[api[c].obj.status.user].roles = api[c].obj.spec.roles

\* ReadyIsHonest speaks of every credential.
LEMMA HonestEverywhere == ReadyIsHonest <=> \A c \in Creds : HonestAt(c)
BY DEF ReadyIsHonest, HonestAt, ReadyNow

\* The account of a ready credential keeps its roles: only a call for this
\* credential could change them, which gives it the same ones, or remove it,
\* which is for the dying.
LEMMA AccountKept ==
  ASSUME IInv, Custody, Honesty, AccountStep, NEW c \in Creds, ReadyNow(api[c].obj)
  PROVE  /\ users'[api[c].obj.status.user] # None
         /\ users'[api[c].obj.status.user].roles = api[c].obj.spec.roles
<1> DEFINE o == api[c].obj
           user == o.status.user
<1>1. /\ TypeOK /\ o # Absent /\ o.finalizer /\ ~o.deleting
      /\ user # None /\ user.credential = c
      /\ users[user] # None /\ users[user].roles = o.spec.roles
      /\ job.pc # "idle" /\ job.req = c => Cred.spec = o.spec
  BY DEF Honesty, ReadyInCustody, ReadyIsHonest, ReadyNow, IInv
<1>2. CASE users' = users
  BY <1>1, <1>2
<1>3. CASE /\ job.pc = "define"
           /\ users' = [users EXCEPT ![job.user] = [pw |-> job.password, roles |-> Cred.spec.roles]]
  <2>1. /\ job.user \in Users /\ job.user.credential = job.req
        /\ users \in [Users -> Account \cup {None}]
    BY <1>1, <1>3, InCall DEF TypeOK, CallTyped, Custody, JobInCustody
  <2>2. CASE user = job.user
    <3>1. Cred.spec = o.spec
      BY <1>1, <1>3, <2>1, <2>2
    <3>2. users'[user] = [pw |-> job.password, roles |-> Cred.spec.roles]
      BY <1>3, <2>1, <2>2
    <3>3. users'[user] # None
      BY <1>1, <1>3, <3>2, InCall, SpecFields, ValuesAssumption DEF TypeOK, CallTyped, Account
    <3> QED BY <3>1, <3>2, <3>3
  <2>3. CASE user # job.user
    <3>1. users'[user] = users[user]
      BY <1>3, <2>1, <2>3
    <3> QED BY <1>1, <3>1
  <2> QED BY <2>2, <2>3
<1>4. CASE job.pc = "removeUser" /\ users' = [users EXCEPT ![job.user] = None]
  <2>1. /\ job.user \in Users /\ job.user.credential = job.req
        /\ users \in [Users -> Account \cup {None}]
    BY <1>1, <1>4, InCall DEF TypeOK, CallTyped, Custody, JobInCustody
  <2>2. user # job.user
    BY <1>1, <1>4, <2>1 DEF Custody, JobInCustody, Versions, Live
  <2>3. users'[user] = users[user]
    BY <1>4, <2>1, <2>2
  <2> QED BY <1>1, <2>3
<1> QED BY <1>2, <1>3, <1>4 DEF AccountStep

\* A ready credential that a step leaves as ready as it was.
LEMMA ReadyContinues ==
  ASSUME IInv, IInv', Custody, Honesty, AccountStep, [Next]_vars,
         NEW c \in Creds, KeyMoves(c), api[c].obj # Absent, api'[c].obj # Absent,
         SameRequest(api[c].obj, api'[c].obj),
         api'[c].obj.deleting <=> api[c].obj.deleting,
         api[c].obj.finalizer => api'[c].obj.finalizer
  PROVE  ReadyInCustody(c)' /\ HonestAt(c)'
<1> DEFINE o == api[c].obj
           n == api'[c].obj
<1>1. n.spec = o.spec /\ n.gen = o.gen /\ n.status = o.status /\ ReadyInCustody(c)
  BY DEF SameRequest, Honesty
<1>2. ReadyNow(n) => ReadyNow(o)
  BY <1>1 DEF ReadyNow
<1>3. ASSUME ReadyNow(n) PROVE \A v \in Versions(c)' : v.obj # Absent => v.obj.spec = n.spec
  BY <1>1, <1>2, <1>3 DEF KeyMoves, ReadyInCustody
<1>4. ASSUME ReadyNow(n), job'.pc # "idle", job'.req = c PROVE Cred'.spec = n.spec
  <2>1. CASE job'.credential = api'[c]
    BY <2>1 DEF Cred
  <2>2. CASE job.pc # "idle" /\ job'.req = job.req /\ job'.credential = job.credential
    BY <1>1, <1>2, <1>4, <2>2 DEF ReadyInCustody, Cred
  <2>3. CASE job'.credential = cache[c] /\ UNCHANGED store
    <3>1. job'.credential.obj # Absent
      <4>1. job'.credential.obj \in Credential
        BY <1>4 DEF IInv, TypeOK, TypedJob, CallTyped, IdleJob, Job
      <4> QED BY <4>1, ValuesAssumption
    <3>2. cache[c] \in Versions(c)
      BY DEF Versions
    <3> QED BY <1>1, <1>2, <1>4, <2>3, <3>1, <3>2 DEF ReadyInCustody, Cred
  <2> QED BY <1>4, <2>1, <2>2, <2>3, CallReads DEF IInv
<1>5. ReadyInCustody(c)'
  BY <1>1, <1>2, <1>3, <1>4 DEF ReadyInCustody, ReadyNow, Versions, Cred
<1>6. HonestAt(c)'
  BY <1>1, <1>2, AccountKept DEF HonestAt, ReadyNow
<1> QED BY <1>5, <1>6

\* A credential that becomes ready, by the status that the call reports.
LEMMA ReadyBegins ==
  ASSUME IInv, IInv', Custody, Honesty, AccountStep, [Next]_vars,
         NEW c \in Creds, KeyMoves(c), api[c].obj # Absent, Reported(c)
  PROVE  ReadyInCustody(c)' /\ HonestAt(c)'
<1> DEFINE o == api[c].obj
           n == api'[c].obj
<1>1. /\ TypeOK /\ TypedStore /\ StoreCoherent /\ CallIsHonest
      /\ job.pc \in {"status", "recordFailure"} /\ job.req = c /\ c \in Keys
      /\ AcceptsStatus /\ n = [o EXCEPT !.status = job.status]
      /\ users' = users /\ PendingNewer(c)
  BY KeyKinds DEF Honesty, CallIsHonest, Reported, AccountStep, IInv, TypeOK, Custody
<1>2. api[c] = job.credential /\ o = Cred
  BY <1>1 DEF AcceptsStatus, AcceptsUpdate, CallIsHonest, CallIsCurrent, Current, Cred
<1>3. o \in Credential
  BY <1>1, <1>2, InCall DEF TypeOK
<1>4. /\ n.status = job.status /\ n.gen = o.gen /\ n.spec = o.spec
      /\ n.deleting = o.deleting /\ n.finalizer = o.finalizer
  BY <1>1, <1>3 DEF Credential
<1>5. n.status.conds["Ready"].gen = n.gen /\ n.gen \in Nat
  BY <1>1, <1>2, <1>3, <1>4, CredentialFields DEF CallIsHonest, StatusIsHonest
<1>6. CASE ~ReadyNow(n)
  BY <1>5, <1>6 DEF ReadyInCustody, HonestAt, ReadyNow
<1>7. CASE ReadyNow(n)
  <2>1. job.pc = "status" /\ ReportsReady(job.status)
    BY <1>1, <1>4, <1>7 DEF ReadyNow, ReportsReady, CallIsHonest, StatusIsHonest
  <2>2. /\ o.finalizer /\ api[c].rv <= cache[c].rv /\ job.after # "repeat"
        /\ n.status.user \in Users /\ n.status.user.credential = c
        /\ users[n.status.user] # None /\ users[n.status.user].roles = n.spec.roles
    BY <1>1, <1>2, <1>4, <2>1 DEF CallIsHonest, StatusIsHonest, Live
  <2>3. cache[c] = api[c]
    <3>1. cache[c].rv \in Nat /\ api[c].rv \in Nat
      BY <1>1, StoreAt DEF Version
    <3> QED BY <1>1, <2>2, <3>1 DEF StoreCoherent, Current, Versions
  <2>4. Versions(c) = {api[c]}
    BY <1>1, <2>3, NothingElse
  <2>5. \A v \in Versions(c)' : v.obj # Absent => v.obj.spec = n.spec
    BY <1>4, <2>4 DEF KeyMoves
  <2>6. job'.pc # "idle" /\ job'.req = c => Cred'.spec = n.spec
    <3> SUFFICES ASSUME job'.pc # "idle", job'.req = c PROVE Cred'.spec = n.spec
      OBVIOUS
    <3>1. CASE job'.credential = api'[c]
      BY <3>1 DEF Cred
    <3>2. CASE job'.credential = job.credential \/ job'.credential = cache[c]
      BY <1>2, <1>4, <2>3, <3>2 DEF Cred
    <3> QED BY <1>1, <3>1, <3>2, CallReads
  <2>7. n.status.user # None
    BY <2>2, ValuesAssumption
  <2>8. ReadyInCustody(c)'
    BY <1>4, <1>5, <2>2, <2>5, <2>6, <2>7 DEF ReadyInCustody, Versions, Cred
  <2>9. HonestAt(c)'
    BY <1>1, <2>2 DEF HonestAt
  <2> QED BY <2>8, <2>9
<1> QED BY <1>6, <1>7

\* What every step leaves of a credential is as honest as it was.
LEMMA ReadyKept ==
  ASSUME SafeEdits, IInv, IInv', Custody, Honesty, [Next]_vars, NEW c \in Creds
  PROVE  ReadyInCustody(c)' /\ HonestAt(c)'
<1> DEFINE o == api[c].obj
           n == api'[c].obj
<1>1. CredentialStep(c) /\ AccountStep /\ KeyMoves(c) /\ ReadyInCustody(c)
  BY NextEffects, NextMoves, KeyKinds
     DEF SafeEdits, IInv, Honesty, Effects, CredentialSteps, StoreMoves
<1>2. CASE n = Absent
  BY <1>2 DEF ReadyInCustody, HonestAt, ReadyNow
<1>3. CASE n # Absent /\ n.deleting
  BY <1>3 DEF ReadyInCustody, HonestAt, ReadyNow
<1>4. CASE n # Absent /\ Created(c)
  <2>1. n.status.conds["Ready"] = [reason |-> "Unset", gen |-> 0] /\ n.gen = 1
    BY <1>4 DEF Created, NewStatus, ConditionTypes
  <2> QED BY <2>1 DEF ReadyInCustody, HonestAt, ReadyNow
<1>5. CASE n # Absent /\ api'[c] = api[c]
  BY <1>1, <1>5, ReadyContinues DEF SameRequest
<1>6. CASE n # Absent /\ Protected(c)
  BY <1>1, <1>6, ReadyContinues DEF Protected, Bare, Live
<1>7. CASE n # Absent /\ ~n.deleting /\ Rewritten(c)
  <2>1. o # Absent /\ (n.deleting <=> o.deleting) /\ (n.finalizer <=> o.finalizer)
    BY <1>7 DEF Rewritten, SameCustody
  <2>2. CASE SameRequest(o, n)
    BY <1>1, <1>7, <2>1, <2>2, ReadyContinues
  <2>3. CASE n.gen = o.gen + 1 /\ n.status = o.status
    <3>1. /\ o.gen \in Nat /\ o.status.conds["Ready"].gen \in Nat
      <4>1. o \in Credential
        BY <2>1, StoreAt, KeyKinds DEF IInv, TypeOK, Version
      <4> QED BY <4>1, CredentialFields, StatusFields DEF Conditions, ConditionTypes
    <3>2. n.status.conds["Ready"].gen <= o.gen
      BY <1>1, <1>7, <2>1, <2>3 DEF ReadyInCustody
    <3>3. n.status.conds["Ready"].gen <= n.gen /\ n.status.conds["Ready"].gen # n.gen
      BY <2>3, <3>1, <3>2
    <3> QED BY <3>3 DEF ReadyInCustody, HonestAt, ReadyNow
  <2>4. CASE Reported(c)
    BY <1>1, <2>1, <2>4, ReadyBegins
  <2> QED BY <1>7, <2>2, <2>3, <2>4 DEF Rewritten
<1>8. CASE Withdrawn(c)
  <2>1. n = Absent \/ n.deleting
    BY <1>8 DEF Withdrawn, Dying
  <2> QED BY <1>2, <1>3, <2>1
<1>9. CASE Released(c)
  <2>1. ~Live(o) /\ o # Absent /\ o.finalizer
    BY <1>9 DEF Released, Guarded, Custody, JobInCustody, Cleaned, Versions
  <2>2. n = Absent
    BY <1>9, <2>1 DEF Released, RemoveFinalizer, Live
  <2> QED BY <1>2, <2>2
<1> QED BY <1>1, <1>2, <1>3, <1>4, <1>5, <1>6, <1>7, <1>8, <1>9 DEF CredentialStep

-----------------------------------------------------------------------------
\* Honesty holds at the start.
LEMMA HonestyInit == Init => Honesty
<1> SUFFICES ASSUME Init PROVE Honesty
  OBVIOUS
<1> PICK p \in Policies :
      api = [k \in Keys |-> [rv |-> 0, obj |-> IF k = PolicyName THEN p ELSE Absent]]
  BY DEF Init
<1>1. \A c \in Creds : api[c].obj = Absent
  BY NamesAssumption, KeyKinds
<1>2. job.pc = "idle"
  BY DEF Init, IdleJob
<1> QED BY <1>1, <1>2
        DEF Honesty, ReadyIsHonest, ReadyInCustody, ReadyNow, CallIsCurrent, StatusIsHonest

\* Every step keeps it.
LEMMA HonestyStep ==
  ASSUME SafeEdits, IInv, IInv', Custody, Honesty, [Next]_vars
  PROVE  Honesty'
<1>1. \A c \in Creds : ReadyInCustody(c)' /\ HonestAt(c)'
  BY ReadyKept
<1>2. ReadyIsHonest'
  BY <1>1 DEF HonestAt, ReadyIsHonest, ReadyNow
<1>3. CallIsHonest'
  BY CallStaysHonest
<1> QED BY <1>1, <1>2, <1>3 DEF Honesty, CallIsHonest

\* Where nobody changes a target or asks for force cleanup, a credential that
\* reports Ready for its current generation has its user, with the roles of
\* its spec, whatever the cache shows, calls lose or the process forgets
\* (controller 136-157).
THEOREM ReadyStaysHonest ==
  ASSUME SafeEdits
  PROVE  Spec /\ TargetsKept => []ReadyIsHonest
<1>1. Init => Honesty
  BY HonestyInit
<1>2. IInv /\ IInv' /\ Custody /\ Honesty /\ [Next]_vars => Honesty'
  BY HonestyStep
<1>3. Honesty => ReadyIsHonest
  BY DEF Honesty
<1> QED BY <1>1, <1>2, <1>3, Coherence, CustodyHolds, PTL DEF Spec

-----------------------------------------------------------------------------
(* A process that holds nothing                                            *)

\* The part of Custody and Honesty that is about what is committed, and not
\* about what a process has read.
CommittedAt(c) ==
  LET o == api[c].obj
  IN  /\ o # Absent => o.uid <= api[c].rv /\ ~o.force
      /\ o # Absent /\ ~o.deleting => o.status.conds["Ready"].gen <= o.gen
      /\ ReadyNow(o) =>
           o.finalizer /\ o.status.user # None /\ o.status.user.credential = c
      /\ HonestAt(c)

TargetFound(u) == users[u] # None => u.target \in TargetsOf(api[u.credential].obj.spec)

Committed ==
  /\ \A c \in Creds : CommittedAt(c)
  /\ \A u \in Users : TargetFound(u)
  /\ OwnersKnown /\ NoOrphanUser

LEMMA CommittedOfAll ==
  ASSUME Custody, Honesty
  PROVE  Committed
<1>1. ASSUME NEW c \in Creds PROVE CommittedAt(c)
  <2>1. /\ HeldInCustody(c) /\ ReadyInCustody(c) /\ HonestAt(c) /\ api[c] \in Versions(c)
    BY HonestEverywhere DEF Custody, Honesty, Versions
  <2> QED BY <2>1 DEF CommittedAt, HeldInCustody, ReadyInCustody
<1> QED BY <1>1 DEF Committed, TargetFound, Custody, AccountsFound

\* It is all of them for an idle process with nothing but what is committed.
LEMMA AllOfCommitted ==
  ASSUME Committed, job.pc = "idle", \A k \in Keys : pending[k] = {} /\ cache[k] = api[k]
  PROVE  Custody /\ Honesty
<1>1. \A k \in Keys : Versions(k) = {api[k]}
  BY DEF Versions
<1>2. \A c \in Creds : c \in Keys /\ CommittedAt(c)
  BY KeyKinds DEF Committed
<1>3. (\A k \in Keys : PendingNewer(k)) /\ JobInCustody
  BY DEF PendingNewer, JobInCustody, Cleaned
<1>4. \A c \in Creds : HeldInCustody(c)
  BY <1>1, <1>2 DEF CommittedAt, HeldInCustody, Guarded, Live, Dying
<1>5. AccountsFound
  BY <1>1, <1>2 DEF AccountsFound, Committed, TargetFound
<1>6. \A c \in Creds : ReadyInCustody(c)
  BY <1>1, <1>2 DEF CommittedAt, ReadyInCustody
<1>7. ReadyIsHonest
  BY <1>2, HonestEverywhere DEF CommittedAt
<1> QED BY <1>3, <1>4, <1>5, <1>6, <1>7
        DEF Committed, Custody, Honesty, CallIsCurrent, StatusIsHonest
=============================================================================
