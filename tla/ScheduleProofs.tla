--------------------------- MODULE ScheduleProofs ---------------------------
(***************************************************************************)
(* Rotation, for every instance: a scheduled rotation moves later only     *)
(* with a new password, and a password that is there is replaced only      *)
(* where that was asked for, as long as reconciles start from the          *)
(* credential as it is.                                                    *)
(***************************************************************************)
EXTENDS HonestyProofs

-----------------------------------------------------------------------------
(* What a call does to the schedule it has read *)

\* No time comes later than itself.
LEMMA NotLaterThanItself ==
  ASSUME NEW t \in Nat \cup {None}
  PROVE  ~Later(t, t)
BY DEF Later

\* The statuses that are made from another one, and have its schedule.
LEMMA SameSchedule ==
  ASSUME NEW status \in Status
  PROVE  /\ \A x : [status EXCEPT !.conds = x].nextRot = status.nextRot
         /\ \A x, y : [status EXCEPT !.obsGen = x, !.conds = y].nextRot = status.nextRot
         /\ \A x, y, z : [status EXCEPT !.user = x, !.obsGen = y, !.conds = z].nextRot
                           = status.nextRot
BY DEF Status

\* resolve and the policy check leave the schedule of a credential alone.
LEMMA ReadSchedule ==
  ASSUME NEW o \in Credential
  PROVE  /\ o.status.nextRot \in Nat \cup {None}
         /\ \A reason : UnresolvedStatus(o, reason).nextRot = o.status.nextRot
         /\ \A c : AcceptedStatus(c, o).nextRot = o.status.nextRot
BY CredentialFields, StatusFields, SameSchedule DEF UnresolvedStatus, AcceptedStatus

\* So does the record of a failure.
LEMMA RecordSchedule ==
  ASSUME NEW j \in Job, NEW reason, NEW mark, NEW after,
         NEW new, new = Record(j, reason, mark, after)
  PROVE  /\ new.pc = "recordFailure" /\ new.credential = j.credential
         /\ new.status.nextRot = j.credential.obj.status.nextRot
         /\ j.credential.obj.status.nextRot \in Nat \cup {None}
<1> DEFINE o == j.credential.obj
           conds == IF mark
                    THEN Set(NotReady(o.status.conds, o.gen, reason), o.gen, "SecretReady", reason)
                    ELSE NotReady(o.status.conds, o.gen, reason)
           status == [o.status EXCEPT !.obsGen = o.gen, !.conds = conds]
<1>1. o \in Credential
  BY DEF Job
<1>2. status.nextRot = o.status.nextRot /\ o.status.nextRot \in Nat \cup {None}
  <2> HIDE DEF conds
  <2> QED BY <1>1, CredentialFields, StatusFields, SameSchedule
<1>3. Record(j, reason, mark, after)
        = [j EXCEPT !.pc = "recordFailure", !.after = after, !.status = status]
  BY DEF Record
<1> HIDE DEF conds, status
<1> QED BY <1>2, <1>3 DEF Job

\* computeNext keeps the time that is recorded, or finds an earlier one.
LEMMA computeNextEarlier ==
  ASSUME NEW t \in Nat, NEW last \in Nat \cup {None}, NEW next \in Nat \cup {None},
         NEW period \in Nat \cup {None}
  PROVE  ~Later(computeNext(t, last, next, period), next)
BY ValuesAssumption DEF computeNext, Later

\* A time that has come was recorded, is a period after the last rotation, or
\* the period is zero.
LEMMA computeNextDue ==
  ASSUME NEW t \in Nat, NEW last \in Nat \cup {None}, NEW next \in Nat \cup {None},
         NEW period \in Nat \cup {None},
         computeNext(t, last, next, period) # None,
         computeNext(t, last, next, period) <= t
  PROVE  /\ period # None
         /\ \/ next # None /\ next <= t
            \/ last # None /\ last + period <= t
            \/ period = 0
BY DEF computeNext

\* rotation.Decide: the schedule moves later only with a new password, and a
\* password that is there is replaced only if the credential asks for it.
LEMMA DecisionOnSchedule ==
  ASSUME TypeOK, NEW o \in Credential
  PROVE  /\ Later(DecisionFor(o).NextRotationTime, o.status.nextRot) =>
              MakesPassword(DecisionFor(o))
         /\ ExistingPassword(TargetSecret(o).obj) # None /\ MakesPassword(DecisionFor(o)) =>
              RotationWanted(o, o.status)
<1> DEFINE next == computeNext(now, o.status.lastRot, o.status.nextRot, o.spec.period)
<1>1. /\ now \in Nat /\ o.status.lastRot \in Nat \cup {None}
      /\ o.status.nextRot \in Nat \cup {None} /\ o.spec.period \in Nat \cup {None}
  BY CredentialFields, SpecFields, StatusFields DEF TypeOK
<1>2. ~Later(next, o.status.nextRot)
  BY <1>1, computeNextEarlier
<1>3. next # None /\ next <= now =>
        /\ o.spec.period # None
        /\ \/ o.status.nextRot # None /\ o.status.nextRot <= now
           \/ o.status.lastRot # None /\ o.status.lastRot + o.spec.period <= now
           \/ o.spec.period = 0
  <2>1. PICK last, due, period :
          last = o.status.lastRot /\ due = o.status.nextRot /\ period = o.spec.period
    OBVIOUS
  <2>2. next # None /\ next <= now =>
          /\ period # None
          /\ \/ due # None /\ due <= now
             \/ last # None /\ last + period <= now
             \/ period = 0
    <3>1. /\ next = computeNext(now, last, due, period) /\ last \in Nat \cup {None}
          /\ due \in Nat \cup {None} /\ period \in Nat \cup {None}
      BY <1>1, <2>1
    <3> HIDE DEF next
    <3> QED BY <1>1, <3>1, computeNextDue
  <2> QED BY <2>1, <2>2
<1> HIDE DEF next
<1>4. ~MakesPassword(DecisionFor(o)) => DecisionFor(o).NextRotationTime = next
  BY DEF DecisionFor, Decide, NewPassword, Reuse, MakesPassword, next
<1>5. ExistingPassword(TargetSecret(o).obj) # None /\ MakesPassword(DecisionFor(o)) =>
        \/ o.rotateAt # None /\ o.rotateAt # o.status.lastTrig
        \/ next # None /\ next <= now
  BY DEF DecisionFor, Decide, NewPassword, Reuse, MakesPassword, next,
         ActionReuse, ActionGenerate, ActionRotate
<1> QED BY <1>2, <1>3, <1>4, <1>5 DEF RotationWanted

-----------------------------------------------------------------------------
(* The call in progress *)

CallOnSchedule == ScheduleKept /\ PasswordDue

\* A call with nothing to write to a Secret, and a status with the schedule that
\* it has read, if any.
LEMMA ScheduleLeft ==
  ASSUME job'.pc \notin {"define", "secret"},
         job'.pc \in {"status", "recordFailure"} =>
           /\ Cred'.status.nextRot \in Nat \cup {None}
           /\ job'.status.nextRot = Cred'.status.nextRot
  PROVE  CallOnSchedule'
BY NotLaterThanItself DEF CallOnSchedule, ScheduleKept, PasswordDue

\* Every reconcile starts on an idle worker.
LEMMA StartsIdle ==
  ASSUME NEW c \in Creds, Reconcile(c)
  PROVE  job.pc = "idle"
BY DEF Reconcile, ReconcileGone, AddFinalizer, ReconcileRootError, ReconcileUnresolved,
       ReconcileConflict, ReconcileBlocked, ReconcileDefine, DeleteUnresolved,
       DeleteForced, DeleteBegin, Resolved, Begin

\* The start of a reconcile.
LEMMA ReconcileOnSchedule ==
  ASSUME TypeOK, NEW c \in Creds, Reconcile(c)
  PROVE  CallOnSchedule'
<1> DEFINE o == cache[c].obj
<1>1. job.pc = "idle"
  BY StartsIdle
<1>2. CASE job' = job
  BY <1>1, <1>2, ScheduleLeft
<1>3. ASSUME NEW reason \in Refusals, ReconcileUnresolved(c, reason) \/ DeleteUnresolved(c, reason),
             job' # job
      PROVE  CallOnSchedule'
  <2>1. o \in Credential
    BY <1>3, CachedCredential DEF ReconcileUnresolved, DeleteUnresolved, Live, Dying, TypeOK
  <2>2. PICK after : job' = [Call(c, "status") EXCEPT
                               !.status = UnresolvedStatus(o, reason), !.after = after]
    BY <1>3 DEF ReconcileUnresolved, DeleteUnresolved
  <2>3. /\ job'.pc = "status" /\ job'.credential = cache[c]
        /\ job'.status = UnresolvedStatus(o, reason)
    BY <2>2 DEF Call, IdleJob
  <2> QED BY <2>1, <2>3, ReadSchedule, ScheduleLeft DEF Cred
<1>4. ASSUME Resolved(c), NEW x, NEW after,
             job' = [Call(c, "status") EXCEPT
                       !.status = [AcceptedStatus(c, o) EXCEPT !.conds = x], !.after = after]
      PROVE  CallOnSchedule'
  <2>1. o \in Credential /\ AcceptedStatus(c, o) \in Status
    BY <1>4, ResolvedFacts
  <2>2. /\ job'.pc = "status" /\ job'.credential = cache[c]
        /\ job'.status = [AcceptedStatus(c, o) EXCEPT !.conds = x]
    BY <1>4 DEF Call, IdleJob
  <2> QED BY <2>1, <2>2, ReadSchedule, SameSchedule, ScheduleLeft DEF Cred
<1>5. CASE ReconcileConflict(c)
  BY <1>4, <1>5 DEF ReconcileConflict
<1>6. ASSUME NEW reason, ReconcileBlocked(c, reason) PROVE CallOnSchedule'
  BY <1>4, <1>6 DEF ReconcileBlocked
<1>7. ASSUME NEW url \in Endpoints, ReconcileDefine(c, url) PROVE CallOnSchedule'
  <2>1. o \in Credential /\ now' = now
    BY <1>7, ResolvedFacts DEF ReconcileDefine
  <2>2. PICK password :
          /\ job' = [Call(c, "define") EXCEPT
                       !.existing = TargetSecret(o), !.user = UserOf(c, o),
                       !.password = password, !.url = url,
                       !.decision = DecisionFor(o), !.status = AcceptedStatus(c, o)]
          /\ ~MakesPassword(DecisionFor(o)) => password = ExistingPassword(TargetSecret(o).obj)
    BY <1>7 DEF ReconcileDefine
  <2>3. /\ job'.pc = "define" /\ job'.credential = cache[c]
        /\ job'.existing = TargetSecret(o) /\ job'.password = password
        /\ job'.decision = DecisionFor(o) /\ job'.status = AcceptedStatus(c, o)
    BY <2>2 DEF Call, IdleJob
  <2>4. ScheduleKept'
    BY <2>1, <2>3, ReadSchedule, DecisionOnSchedule DEF ScheduleKept, Cred
  <2>5. PasswordDue'
    BY <2>1, <2>2, <2>3, DecisionOnSchedule DEF PasswordDue, Cred, ExistingPassword, RotationWanted
  <2> QED BY <2>4, <2>5 DEF CallOnSchedule
<1>8. CASE DeleteForced(c)
  <2>1. job'.pc = "deleteSecret"
    BY <1>8 DEF DeleteForced, Call, IdleJob
  <2> QED BY <2>1, ScheduleLeft
<1>9. ASSUME NEW connected \in BOOLEAN, DeleteBegin(c, connected) PROVE CallOnSchedule'
  <2>1. cache[c] \in [rv : Nat, obj : Credential]
    BY <1>9, CachedCredential DEF DeleteBegin, Dying, TypeOK
  <2>2. CASE connected
    <3>1. job'.pc = "removeUser"
      BY <1>9, <2>2 DEF DeleteBegin, Call, IdleJob
    <3> QED BY <3>1, ScheduleLeft
  <2>3. CASE ~connected
    <3> DEFINE j == Call(c, "recordFailure")
    <3>1. PICK reason, mark, after : job' = Record(j, reason, mark, after)
      BY <1>9, <2>3 DEF DeleteBegin
    <3>2. j \in Job
      BY <2>1 DEF Call, IdleJob, Job, PCs
    <3> HIDE DEF j
    <3>3. /\ job'.pc = "recordFailure" /\ job'.credential = j.credential
          /\ job'.status.nextRot = j.credential.obj.status.nextRot
          /\ j.credential.obj.status.nextRot \in Nat \cup {None}
      BY <3>1, <3>2, RecordSchedule
    <3> QED BY <3>3, ScheduleLeft DEF Cred
  <2> QED BY <2>2, <2>3
<1> QED
  BY <1>2, <1>3, <1>5, <1>6, <1>7, <1>8, <1>9
     DEF Reconcile, ReconcileGone, AddFinalizer, ReconcileRootError

\* A rotation that is wanted stays so as time goes by.
LEMMA WantedKept ==
  ASSUME NEW o \in Credential, now \in Nat, now' \in Nat, now <= now',
         RotationWanted(o, o.status)
  PROVE  RotationWanted(o, o.status)'
<1>1. /\ o.status.lastRot \in Nat \cup {None} /\ o.status.nextRot \in Nat \cup {None}
      /\ o.spec.period \in Nat \cup {None}
  BY CredentialFields, SpecFields, StatusFields
<1> QED BY <1>1 DEF RotationWanted

\* The clock does not run back.
LEMMA ClockGrows ==
  ASSUME TypeOK, [Next]_vars
  PROVE  now \in Nat /\ now' \in Nat /\ now <= now'
<1>1. now' = now \/ now' = now + 1
  BY DEF Next, vars, Reconcile, ReconcileGone, AddFinalizer, ReconcileRootError,
         ReconcileUnresolved, ReconcileConflict, ReconcileBlocked, ReconcileDefine,
         DeleteUnresolved, DeleteForced, DeleteBegin, Proceed, DefineUser,
         reconcileTargetSecret, UpdateStatus, RemoveUser, deleteOwnedTargetSecret,
         recordDeleteFailure, removeCredentialFinalizer, UserEdit, CreateCredential,
         UpdateSpec, AnnotateRotateAt, AnnotateForceCleanup, DeleteCredential,
         UpdatePolicy, TouchSecret, Edit, Cluster, GarbageCollect, WatchEvent, Resync,
         TimerFires, Tick, Restart
<1> QED BY <1>1 DEF TypeOK

\* A call that goes on to its Secret, or waits.
LEMMA ScheduleWaits ==
  ASSUME TypeOK, [Next]_vars, CallOnSchedule, job.pc # "idle",
         job'.credential = job.credential, job'.existing = job.existing,
         job'.password = job.password, job'.decision = job.decision,
         job'.status.nextRot = job.status.nextRot,
         job'.pc = job.pc \/ (job.pc = "define" /\ job'.pc = "secret")
  PROVE  CallOnSchedule'
<1>1. PICK o : o = Cred
  OBVIOUS
<1>2. o \in Credential /\ Cred' = o
  BY <1>1, InCall DEF TypeOK, Cred
<1>3. RotationWanted(o, o.status) => RotationWanted(o, o.status)'
  BY <1>2, ClockGrows, WantedKept
<1>4. RotationWanted(o, o.status)' => RotationWanted(Cred, Cred.status)'
  BY <1>2 DEF RotationWanted
<1>5. PasswordDue'
  BY <1>1, <1>2, <1>3, <1>4 DEF CallOnSchedule, PasswordDue
<1>6. ScheduleKept'
  BY <1>1, <1>2 DEF CallOnSchedule, ScheduleKept
<1> QED BY <1>5, <1>6 DEF CallOnSchedule

\* The status of a failure has the schedule that was read, the status of a call
\* that went through has the one that was decided.
LEMMA WrittenSchedule ==
  ASSUME TypeOK, job.pc \in {"define", "secret"}
  PROVE  /\ \A type, reason : Failed(type, reason).nextRot = job.status.nextRot
         /\ \A type, reason : Succeeded(type, reason).nextRot = job.status.nextRot
         /\ job.pc = "secret" => ReadyStatus.nextRot = job.decision.NextRotationTime
<1>1. job.status \in Status
  BY InCall DEF TypeOK, CallTyped
<1>2. Succeeded("SecretReady", "SecretWritten") \in Status
  BY JobStatusTyped DEF ConditionTypes, Reasons, TrueReasons
<1>3. ReadyStatus.nextRot = job.decision.NextRotationTime
  <2> HIDE DEF Succeeded
  <2> QED BY <1>2 DEF ReadyStatus, Status
<1> QED BY <1>1, <1>3, SameSchedule DEF Failed, Succeeded

\* What a commit leaves at its key.
LEMMA CommitIs ==
  ASSUME TypedStore, NEW k \in Keys, NEW o, Commit(k, o)
  PROVE  api'[k].obj = o
<1>1. CASE o = api[k].obj
  BY <1>1 DEF Commit
<1>2. CASE o # api[k].obj
  <2>1. PICK v : v = [rv |-> api[k].rv + 1, obj |-> o]
    OBVIOUS
  <2>2. v.obj = o /\ api' = [api EXCEPT ![k] = v]
    BY <1>2, <2>1 DEF Commit
  <2> QED BY <2>2 DEF TypedStore
<1> QED BY <1>1, <1>2

\* The next external call.
LEMMA ProceedOnSchedule ==
  ASSUME TypeOK, CallOnSchedule, NEW out \in Outcomes, Proceed(out)
  PROVE  CallOnSchedule'
<1>1. /\ job.pc # "idle" /\ job \in Job /\ job.req \in Creds /\ job.req \in Keys
      /\ Cred \in Credential /\ Cred.status.nextRot \in Nat \cup {None} /\ [Next]_vars
  BY InCall, KeyKinds, ReadSchedule
     DEF Proceed, DefineUser, reconcileTargetSecret, UpdateStatus, RemoveUser,
         deleteOwnedTargetSecret, recordDeleteFailure, removeCredentialFinalizer, TypeOK, Next
<1>2. ASSUME NEW result, Return(result) PROVE CallOnSchedule'
  BY <1>2, ScheduleLeft DEF Return, IdleJob
<1>3. ASSUME NEW reason, NEW mark, NEW after, job' = Record(job, reason, mark, after)
      PROVE  CallOnSchedule'
  BY <1>1, <1>3, RecordSchedule, ScheduleLeft DEF Cred
<1>4. ASSUME NEW pc \in {"deleteSecret", "removeFinalizer"}, job' = [job EXCEPT !.pc = pc]
      PROVE  CallOnSchedule'
  <2>1. job'.pc = pc
    BY <1>1, <1>4 DEF Job
  <2> QED BY <2>1, ScheduleLeft
<1>5. ASSUME job.pc \in {"define", "secret"}, NEW type, NEW reason, NEW after,
             job' = [job EXCEPT !.pc = "status", !.after = after, !.status = Failed(type, reason)]
      PROVE  CallOnSchedule'
  <2>1. /\ job'.pc = "status" /\ job'.credential = job.credential
        /\ job'.status = Failed(type, reason)
    BY <1>1, <1>5 DEF Job
  <2>2. job'.status.nextRot = Cred.status.nextRot
    BY <1>5, <2>1, WrittenSchedule DEF CallOnSchedule, ScheduleKept
  <2> QED BY <1>1, <2>1, <2>2, ScheduleLeft DEF Cred
<1>6. CASE DefineUser(out)
  <2>1. CASE Errored(DefinesUser, out)
    BY <1>5, <1>6, <2>1 DEF DefineUser, Continue
  <2>2. CASE ~Errored(DefinesUser, out)
    <3>1. /\ job.pc = "define"
          /\ job' = [job EXCEPT !.pc = "secret",
                                !.status = Succeeded("UserDefined", "DefineUserSucceeded")]
      BY <1>6, <2>2 DEF DefineUser, Continue
    <3>2. /\ job'.pc = "secret" /\ job'.credential = job.credential
          /\ job'.existing = job.existing /\ job'.password = job.password
          /\ job'.decision = job.decision
          /\ job'.status = Succeeded("UserDefined", "DefineUserSucceeded")
      BY <1>1, <3>1 DEF Job
    <3>3. job'.status.nextRot = job.status.nextRot
      BY <3>1, <3>2, WrittenSchedule
    <3> QED BY <1>1, <3>1, <3>2, <3>3, ScheduleWaits
  <2> QED BY <2>1, <2>2
<1>7. CASE reconcileTargetSecret(out)
  <2>1. CASE Errored(AcceptsSecret, out)
    BY <1>5, <1>7, <2>1 DEF reconcileTargetSecret, Continue
  <2>2. CASE ~Errored(AcceptsSecret, out)
    <3>1. /\ job.pc = "secret"
          /\ job' = [job EXCEPT !.pc = "status", !.after = "schedule", !.status = ReadyStatus]
      BY <1>7, <2>2 DEF reconcileTargetSecret, Continue
    <3>2. /\ job'.pc = "status" /\ job'.credential = job.credential
          /\ job'.decision = job.decision /\ job'.status = ReadyStatus
      BY <1>1, <3>1 DEF Job
    <3>3. job'.status.nextRot = job.decision.NextRotationTime
      BY <3>1, <3>2, WrittenSchedule
    <3> QED BY <3>1, <3>2, <3>3 DEF CallOnSchedule, ScheduleKept, PasswordDue, Cred
  <2> QED BY <2>1, <2>2
<1>8. CASE UpdateStatus(out)
  <2>1. CASE \E result : Return(result)
    BY <1>2, <2>1
  <2>2. CASE \A result : ~Return(result)
    <3>1. /\ job.pc = "status" /\ AcceptsStatus /\ out = "ok" /\ WriteStatus("Status", out)
          /\ job' = [job EXCEPT !.credential = api'[job.req], !.after = "done"]
      BY <1>8, <2>2 DEF UpdateStatus, Continue, Errored
    <3> DEFINE o == api[job.req].obj
               new == [o EXCEPT !.status = job.status]
    <3>2. Commit(job.req, new)
      BY <3>1 DEF WriteStatus, Request
    <3>3. o \in Credential /\ api[job.req].rv \in Nat /\ api \in [Keys -> AnyVersion]
      BY <1>1, <3>1, StoreAt, KeyKinds DEF AcceptsStatus, AcceptsUpdate, TypeOK, TypedStore, Version
    <3>4. api'[job.req].obj = new
      <4> HIDE DEF new
      <4> QED BY <1>1, <3>2, <3>3, CommitIs DEF TypeOK
    <3>5. new.status = job.status
      BY <3>3 DEF Credential
    <3>6. PICK v : v = api'[job.req] /\ v.obj.status = job.status
      BY <3>4, <3>5
    <3>7. job'.pc = "status" /\ job'.credential = v /\ job'.status = job.status
      BY <1>1, <3>1, <3>6 DEF Job
    <3>8. job.status.nextRot \in Nat \cup {None}
      BY <3>1, InCall, StatusFields DEF TypeOK, CallTyped
    <3> QED BY <3>6, <3>7, <3>8, ScheduleLeft DEF Cred
  <2> QED BY <2>1, <2>2
<1>9. CASE RemoveUser(out)
  BY <1>3, <1>4, <1>9 DEF RemoveUser, Continue
<1>10. CASE deleteOwnedTargetSecret(out)
  BY <1>3, <1>4, <1>10 DEF deleteOwnedTargetSecret, Continue
<1>11. CASE recordDeleteFailure(out)
  BY <1>2, <1>4, <1>11 DEF recordDeleteFailure, Continue
<1>12. CASE removeCredentialFinalizer(out)
  BY <1>2, <1>12 DEF removeCredentialFinalizer
<1> QED BY <1>6, <1>7, <1>8, <1>9, <1>10, <1>11, <1>12 DEF Proceed

\* After every step the call keeps to the schedule that it has read.
LEMMA CallStaysOnSchedule ==
  ASSUME TypeOK, CallOnSchedule, [Next]_vars
  PROVE  CallOnSchedule'
<1>1. CASE UserEdit \/ Cluster \/ UNCHANGED vars
  <2>1. CASE Restart
    BY <2>1, ScheduleLeft DEF Restart, IdleJob
  <2>2. CASE job' = job /\ job.pc = "idle"
    BY <2>2, ScheduleLeft
  <2>3. CASE job' = job /\ job.pc # "idle"
    BY <2>3, ScheduleWaits
  <2> QED BY <1>1, <2>1, <2>2, <2>3, OthersAlone
<1> QED BY <1>1, ReconcileOnSchedule, ProceedOnSchedule DEF Next

-----------------------------------------------------------------------------
(* The credential *)

\* The version that a call works on stays one that was committed.
LEMMA CallStaysHeld ==
  ASSUME IInv, CallHeld, [Next]_vars
  PROVE  CallHeld'
<1> SUFFICES ASSUME job'.pc # "idle" PROVE Current(job.req, job.credential)'
  BY DEF CallHeld
<1>1. TypeOK /\ TypedStore /\ StoreCoherent /\ StoreMoves
  BY NextMoves DEF IInv, TypeOK
<1>2. CASE job.pc # "idle" /\ job'.req = job.req /\ job'.credential = job.credential
  <2>1. PICK c, v : c = job.req /\ v = job.credential
    OBVIOUS
  <2>2. c \in Keys /\ v.rv \in Nat /\ Current(c, v) /\ KeyMoves(c)
    BY <1>1, <1>2, <2>1, InCall, KeyKinds DEF TypeOK, CallHeld, StoreMoves
  <2>3. Current(c, v)'
    BY <1>1, <2>2, CurrentStable
  <2> QED BY <1>2, <2>1, <2>3 DEF Current
<1>3. CASE job'.req \in Creds /\ job'.credential = cache[job'.req] /\ UNCHANGED store
  BY <1>1, <1>3, KeyKinds DEF StoreCoherent, Versions, Current, store
<1>4. CASE job'.credential = api'[job'.req]
  <2>1. job'.req \in Creds /\ job'.credential.rv \in Nat
    BY <1>1, TypeStep DEF TypeOK, TypedJob, CallTyped, IdleJob, Job
  <2> QED BY <1>4, <2>1 DEF Current
<1> QED BY <1>1, <1>2, <1>3, <1>4, CallReads

\* Asking for force cleanup changes nothing else, of this or another credential.
LEMMA ForcedFields ==
  ASSUME TypeOK, NEW c \in Creds, NEW d \in Creds, AnnotateForceCleanup(d),
         api[c].obj # Absent
  PROVE  /\ api'[c].obj # Absent /\ api'[c].obj.status = api[c].obj.status
         /\ api'[c].obj.finalizer = api[c].obj.finalizer
<1> DEFINE o == api[d].obj
           new == [o EXCEPT !.force = TRUE]
<1>1. o \in Credential /\ TypedStore /\ d \in Keys /\ c \in Keys
  BY StoreAt, KeyKinds DEF AnnotateForceCleanup, TypeOK, Version
<1>2. new \in Credential /\ new.status = o.status /\ new.finalizer = o.finalizer
  BY <1>1 DEF Credential
<1>3. new # Absent
  BY <1>2, ValuesAssumption
<1>4. Commit(d, new)
  BY DEF AnnotateForceCleanup, Edit
<1> HIDE DEF new
<1>5. api'[d].obj = new /\ \A k \in Keys \ {d} : api'[k] = api[k]
  BY <1>1, <1>4, CommitIs, CommitMoves
<1> QED BY <1>1, <1>2, <1>3, <1>5

\* The status of a credential changes only by the update of the call.
LEMMA StatusKept ==
  ASSUME TypeOK, StoreCoherent, [Next]_vars, NEW c \in Creds,
         api[c].obj # Absent, api'[c].obj # Absent
  PROVE  api'[c].obj.status = api[c].obj.status \/ Reported(c)
<1>1. CASE Effects
  <2>1. CASE Released(c)
    <3>1. api[c].obj \in Credential
      BY StoreAt, KeyKinds DEF TypeOK, Version
    <3> QED BY <2>1, <3>1 DEF Released, RemoveFinalizer, Credential
  <2>2. CASE ~Released(c)
    BY <1>1, <2>2
       DEF Effects, CredentialSteps, CredentialStep, Created, Rewritten, SameRequest,
           Protected, Withdrawn
  <2> QED BY <2>1, <2>2
<1> QED BY <1>1, ForcedOrEffects, ForcedFields

\* While a call makes an account, the credential keeps its guard and status.
LEMMA GuardedStatusKept ==
  ASSUME TypeOK, StoreCoherent, [Next]_vars, NEW c \in Creds,
         job.pc \in {"define", "secret"}, Guarded(c)
  PROVE  Guarded(c)' /\ api'[c].obj.status = api[c].obj.status
<1>1. CASE Effects
  BY <1>1, GuardKept, StatusKept DEF Effects, CredentialSteps, Guarded, Reported
<1>2. ASSUME NEW d \in Creds, AnnotateForceCleanup(d)
      PROVE  Guarded(c)' /\ api'[c].obj.status = api[c].obj.status
  BY <1>2, ForcedFields DEF Guarded
<1> QED BY <1>1, <1>2, ForcedOrEffects

-----------------------------------------------------------------------------
\* Schedule holds at the start.
LEMMA ScheduleInit == Init => Schedule
BY DEF Init, IdleJob, Schedule, CallHeld, ScheduleKept, PasswordDue

\* Every step keeps it.
LEMMA ScheduleStep ==
  ASSUME IInv, Schedule, [Next]_vars
  PROVE  Schedule'
BY CallStaysHeld, CallStaysOnSchedule DEF Schedule, CallOnSchedule, IInv

\* What a call knows of the schedule and of the password it has read.
LEMMA ScheduleHolds == Spec => []Schedule
<1>1. IInv /\ Schedule /\ [Next]_vars => Schedule'
  BY ScheduleStep
<1> QED BY <1>1, ScheduleInit, Coherence, PTL DEF Spec

\* The scheduled rotation of a credential moves later only in the status update
\* of a reconcile that made a new password, whatever its users change, however
\* far the cache lags and wherever the process stops (decision.go 62-81).
THEOREM RotationIsNotDelayed == Spec => RotationNotDelayed
<1> DEFINE Kept(c) ==
             LET old == api[c].obj
                 new == api'[c].obj
             IN  (/\ old # Absent /\ new # Absent
                  /\ old.status.nextRot # None /\ new.status.nextRot # None
                  /\ new.status.nextRot > old.status.nextRot) =>
                   MakesPassword(job.decision)
<1>1. ASSUME IInv, Schedule, [Next]_vars, NEW c \in Creds PROVE Kept(c)
  <2> DEFINE old == api[c].obj
             new == api'[c].obj
  <2> SUFFICES ASSUME old # Absent, new # Absent,
                      old.status.nextRot # None, new.status.nextRot # None,
                      new.status.nextRot > old.status.nextRot
               PROVE  MakesPassword(job.decision)
    OBVIOUS
  <2>1. old \in Credential /\ old.status.nextRot \in Nat /\ TypeOK /\ StoreCoherent
    BY <1>1, StoreAt, KeyKinds, ReadSchedule DEF IInv, TypeOK, Version
  <2>2. Reported(c)
    BY <1>1, <2>1, StatusKept
  <2>3. api[c] = job.credential
    BY <1>1, <2>2 DEF Reported, AcceptsStatus, AcceptsUpdate, Schedule, CallHeld, Current
  <2>4. old = Cred
    BY <2>3 DEF Cred
  <2>5. new.status = job.status
    BY <2>1, <2>2 DEF Reported, Credential
  <2>6. job.status.nextRot \in Nat
    BY <2>1, <2>2, <2>5, InCall, StatusFields DEF Reported, TypeOK, CallTyped
  <2>7. Later(job.status.nextRot, Cred.status.nextRot)
    BY <2>1, <2>4, <2>5, <2>6 DEF Later
  <2> QED BY <1>1, <2>2, <2>7 DEF Reported, Schedule, ScheduleKept
<1>2. IInv /\ Schedule /\ [Next]_vars => [\A c \in Creds : Kept(c)]_vars
  BY <1>1
<1> QED BY <1>2, Coherence, ScheduleHolds, PTL DEF Spec, RotationNotDelayed

-----------------------------------------------------------------------------
(* Reuse *)

\* A reconcile that comes to DefineUser is none of the others.
LEMMA OnlyDefines ==
  ASSUME NEW c \in Creds, job.pc = "idle", job'.pc \in {"define", "secret"}
  PROVE  /\ ~ReconcileGone(c) /\ ~ReconcileRootError(c)
         /\ \A out : ~AddFinalizer(c, out)
         /\ \A reason : /\ ~ReconcileUnresolved(c, reason)
                        /\ ~DeleteUnresolved(c, reason)
                        /\ ~ReconcileBlocked(c, reason)
         /\ ~ReconcileConflict(c) /\ ~DeleteForced(c)
         /\ \A connected \in BOOLEAN : ~DeleteBegin(c, connected)
<1>1. job' # job
  OBVIOUS
<1>2. ASSUME NEW reason
      PROVE  /\ ~ReconcileUnresolved(c, reason)
             /\ ~DeleteUnresolved(c, reason)
             /\ ~ReconcileBlocked(c, reason)
  <2>1. ReconcileUnresolved(c, reason) => job'.pc = "status"
    BY DEF ReconcileUnresolved, Call, IdleJob
  <2>2. DeleteUnresolved(c, reason) => job'.pc = "status" \/ job' = job
    BY DEF DeleteUnresolved, Call, IdleJob
  <2>3. ReconcileBlocked(c, reason) => job'.pc = "status"
    BY DEF ReconcileBlocked, Call, IdleJob
  <2> QED BY <1>1, <2>1, <2>2, <2>3
<1>3. ~ReconcileConflict(c) /\ ~DeleteForced(c)
  <2>1. ReconcileConflict(c) => job'.pc = "status"
    BY DEF ReconcileConflict, Call, IdleJob
  <2>2. DeleteForced(c) => job'.pc = "deleteSecret"
    BY DEF DeleteForced, Call, IdleJob
  <2> QED BY <2>1, <2>2
<1>4. \A connected \in BOOLEAN : ~DeleteBegin(c, connected)
  <2> SUFFICES ASSUME NEW connected \in BOOLEAN, DeleteBegin(c, connected) PROVE FALSE
    OBVIOUS
  <2>1. CASE connected
    BY <2>1 DEF DeleteBegin, Call, IdleJob
  <2>2. CASE ~connected
    BY <2>2 DEF DeleteBegin, Record
  <2> QED BY <2>1, <2>2
<1>5. ~ReconcileGone(c) /\ ~ReconcileRootError(c) /\ \A out : ~AddFinalizer(c, out)
  BY <1>1 DEF ReconcileGone, ReconcileRootError, AddFinalizer
<1> QED BY <1>2, <1>3, <1>4, <1>5

\* A call that makes an account did so before, or starts now.
LEMMA DefiningCall ==
  ASSUME TypeOK, [Next]_vars, job'.pc \in {"define", "secret"}
  PROVE  \/ job.pc \in {"define", "secret"} /\ job'.req = job.req
            /\ job'.credential = job.credential /\ job'.url = job.url
         \/ /\ job.pc = "idle" /\ job'.req \in Creds /\ job'.credential = cache[job'.req]
            /\ Live(cache[job'.req].obj) /\ UNCHANGED store
<1>1. CASE UserEdit \/ Cluster \/ UNCHANGED vars
  BY <1>1, OthersAlone DEF Restart, IdleJob
<1>2. ASSUME NEW c \in Creds, Reconcile(c)
      PROVE  /\ job.pc = "idle" /\ job'.req = c /\ job'.credential = cache[c]
             /\ Live(cache[c].obj) /\ UNCHANGED store
  <2>1. job.pc = "idle"
    BY <1>2, StartsIdle
  <2>2. PICK url \in Endpoints : ReconcileDefine(c, url)
    BY <1>2, <2>1, OnlyDefines DEF Reconcile
  <2> QED BY <2>1, <2>2 DEF ReconcileDefine, Resolved, Call, IdleJob
<1>3. ASSUME NEW out \in Outcomes, Proceed(out)
      PROVE  /\ job.pc \in {"define", "secret"} /\ job'.req = job.req
             /\ job'.credential = job.credential /\ job'.url = job.url
  <2>1. job.pc # "idle" /\ job \in Job
    BY <1>3, InCall
       DEF Proceed, DefineUser, reconcileTargetSecret, UpdateStatus, RemoveUser,
           deleteOwnedTargetSecret, recordDeleteFailure, removeCredentialFinalizer, TypeOK
  <2>2. \A result : ~Return(result)
    BY DEF Return, IdleJob
  <2>3. \A reason, mark, after : job' # Record(job, reason, mark, after)
    BY <2>1, RecordSchedule
  <2>4. \A pc \in {"deleteSecret", "removeFinalizer"} : job' # [job EXCEPT !.pc = pc]
    BY <2>1 DEF Job
  <2>5. DefineUser(out)
    <3>1. ~reconcileTargetSecret(out)
      BY <2>1 DEF reconcileTargetSecret, Continue, Job
    <3>2. ~UpdateStatus(out)
      BY <2>1, <2>2 DEF UpdateStatus, Continue, Job
    <3>3. ~RemoveUser(out)
      <4>1. RemoveUser(out) =>
              \/ job' = [job EXCEPT !.pc = "deleteSecret"]
              \/ \E mark : job' = Record(job, "RemoveUserFailed", mark, "requeue")
        BY DEF RemoveUser, Continue
      <4> QED BY <2>3, <2>4, <4>1
    <3>4. ~deleteOwnedTargetSecret(out)
      <4>1. deleteOwnedTargetSecret(out) =>
              \/ job' = [job EXCEPT !.pc = "removeFinalizer"]
              \/ \E mark : job' = Record(job, "SecretDeleteFailed", mark, AfterDeleteFailure(Cred))
        BY DEF deleteOwnedTargetSecret, Continue
      <4> QED BY <2>3, <2>4, <4>1
    <3>5. ~recordDeleteFailure(out) /\ ~removeCredentialFinalizer(out)
      BY <2>2, <2>4 DEF recordDeleteFailure, removeCredentialFinalizer, Continue
    <3> QED BY <1>3, <3>1, <3>2, <3>3, <3>4, <3>5 DEF Proceed
  <2>6. job' = [job EXCEPT !.pc = "secret",
                           !.status = Succeeded("UserDefined", "DefineUserSucceeded")]
    <3>1. ~Errored(DefinesUser, out)
      BY <2>1, <2>5 DEF DefineUser, Continue, Job
    <3> QED BY <2>5, <3>1 DEF DefineUser, Continue
  <2> QED BY <2>1, <2>5, <2>6 DEF DefineUser, Job
<1> QED BY <1>1, <1>2, <1>3 DEF Next

\* A call that started on the committed credential keeps the committed status.
LEMMA FreshStep ==
  ASSUME IInv, FreshCall, [Next]_vars, StartsFresh
  PROVE  FreshCall'
<1> SUFFICES ASSUME job'.pc \in {"define", "secret"} PROVE FreshCall'
  BY DEF FreshCall
<1>1. TypeOK /\ StoreCoherent
  BY DEF IInv
<1>2. CASE /\ job.pc \in {"define", "secret"} /\ job'.req = job.req
           /\ job'.credential = job.credential
  <2>1. PICK c : c = job.req
    OBVIOUS
  <2>2. c \in Creds /\ Guarded(c) /\ api[c].obj.status = Cred.status
    BY <1>1, <1>2, <2>1, InCall DEF TypeOK, FreshCall
  <2>3. Guarded(c)' /\ api'[c].obj.status = api[c].obj.status
    BY <1>1, <1>2, <2>2, GuardedStatusKept
  <2> QED BY <1>2, <2>1, <2>2, <2>3 DEF FreshCall, Guarded, Cred
<1>3. CASE /\ job.pc = "idle" /\ job'.req \in Creds /\ job'.credential = cache[job'.req]
           /\ Live(cache[job'.req].obj) /\ UNCHANGED store
  <2>1. cache[job'.req] = api[job'.req] /\ api' = api
    BY <1>3 DEF StartsFresh, store
  <2> QED BY <1>3, <2>1 DEF FreshCall, Guarded, Live, Cred
<1> QED BY <1>1, <1>2, <1>3, DefiningCall

\* Where every call starts on the credential as it is committed, a password that
\* is in a Secret is replaced by another only if that is requested or due, by the
\* annotation, the schedule or the period that the call has read and against the
\* committed record of what has been served (controller 114-124, decision.go 38-52).
THEOREM PasswordsAreReused == Spec /\ FreshStarts => ReusesPassword
<1> DEFINE Reused(s) ==
             LET old == api[s].obj
                 new == api'[s].obj
             IN  (/\ old # Absent /\ new # Absent
                  /\ old.pw # None /\ new.pw # None /\ new.pw # old.pw) =>
                   RotationWanted(Cred, api[job.req].obj.status)
<1>1. ASSUME IInv, Schedule, FreshCall, [Next]_vars, NEW s \in SecretNames PROVE Reused(s)
  <2> DEFINE old == api[s].obj
             new == api'[s].obj
  <2> SUFFICES ASSUME old # Absent, new # Absent,
                      old.pw # None, new.pw # None, new.pw # old.pw
               PROVE  RotationWanted(Cred, api[job.req].obj.status)
    OBVIOUS
  <2>1. SecretStep(s) /\ old \in Secret
    BY <1>1, NextMoves, StoreAt, KeyKinds DEF IInv, TypeOK, SecretSteps, Version
  <2>2. new # [old EXCEPT !.pw = None]
    BY <2>1 DEF Secret
  <2>3. /\ job.pc = "secret" /\ s = Cred.spec.targetSecret /\ AcceptsSecret
        /\ new = BuildTargetSecret(job.req, Cred, job.user, job.password, job.url)
    BY <2>1, <2>2 DEF SecretStep
  <2>4. new.pw = job.password
    BY <2>3 DEF BuildTargetSecret
  <2>5. job.existing = api[s]
    BY <1>1, <2>3
       DEF AcceptsSecret, AcceptsCreate, AcceptsUpdate, IInv, JobCoherent,
           HoldsOwnSecret, UserDefined, Current
  <2>6. RotationWanted(Cred, Cred.status)
    BY <1>1, <2>3, <2>4, <2>5 DEF Schedule, PasswordDue
  <2> QED BY <1>1, <2>3, <2>6 DEF FreshCall
<1>2. IInv /\ Schedule /\ FreshCall /\ [Next]_vars => [\A s \in SecretNames : Reused(s)]_vars
  BY <1>1
<1>3. IInv /\ FreshCall /\ [Next]_vars /\ [StartsFresh]_vars => FreshCall'
  BY FreshStep DEF StartsFresh, vars
<1>4. Init => FreshCall
  BY DEF Init, IdleJob, FreshCall
<1> QED BY <1>2, <1>3, <1>4, Coherence, ScheduleHolds, PTL
        DEF Spec, FreshStarts, ReusesPassword
=============================================================================
