------------------------------ MODULE Replicas ------------------------------
(***************************************************************************)
(* Two operator processes, A and B, on one API server and one SurrealDB:   *)
(* replicaCount 2 in the Helm chart.  Each has its own informer cache,     *)
(* work queue and worker.  cmd/main.go has leader election, off by         *)
(* default: without it both processes work, with it only the leader does.  *)
(* When the leader loses the lease it exits; the standby gets the lease    *)
(* and starts its informers, from a fresh list, and its controllers.       *)
(*                                                                         *)
(* A step of one process is a step of CredentialController, and whatever   *)
(* it commits is on its way to the cache of the other process as well, if  *)
(* that process works.  Nothing here looks at the clock.                   *)
(***************************************************************************)
EXTENDS Naturals

CONSTANTS
  Absent, None, Creds, SecretNames, PolicyName, Specs, Policies, Triggers,
  Endpoints, Unquotable, EnvEdits, Persistent, MaxEdits, MaxFaults, MaxLag, MaxTime,
  PasswordsA, PasswordsB     \* what each process draws passwords from

VARIABLES
  api, users, now, edits, faults, lag,            \* common to the processes
  cacheA, pendingA, queueA, timerA, jobA,         \* process A
  cacheB, pendingB, queueB, timerB, jobB,         \* process B
  elect,                                          \* --leader-elect
  leader                                          \* who holds the lease

\* No password is drawn by both.
ASSUME PoolsAssumption == PasswordsA \cap PasswordsB = {}

\* The processes, with what is proved of each: a theorem T of CredentialProofs,
\* CustodyProofs, HonestyProofs or ScheduleProofs is A!T of process A.
A == INSTANCE ScheduleProofs WITH
  cache <- cacheA, pending <- pendingA, queue <- queueA, timer <- timerA,
  job <- jobA, Passwords <- PasswordsA

B == INSTANCE ScheduleProofs WITH
  cache <- cacheB, pending <- pendingB, queue <- queueB, timer <- timerB,
  job <- jobB, Passwords <- PasswordsB

\* What CredentialController assumes of its constants holds for each of them.
ASSUME ProcessesAssumption ==
  /\ A!NamesAssumption /\ A!ValuesAssumption /\ A!AdmissionAssumption
  /\ B!NamesAssumption /\ B!ValuesAssumption /\ B!AdmissionAssumption

common    == <<api, users, now, edits, faults, lag>>
processA  == <<cacheA, pendingA, queueA, timerA, jobA>>
processB  == <<cacheB, pendingB, queueB, timerB, jobB>>
vars      == <<common, processA, processB, elect, leader>>

-----------------------------------------------------------------------------
\* Mutant: the flag is read and not passed to the manager.
WorksAlways(process) == TRUE

\* With leader election only the leader's controllers and informers are started.
Works(process) == elect => leader = process

\* What the step commits is on its way to a process with these pending.
Heard(pending) ==
  [k \in DOMAIN pending |-> pending[k] \cup ({api'[k]} \ {api[k]})]

NothingPending == [k \in A!Keys |-> {}]

\* A process that works hears of a step of the other.  One that does not has no
\* informers yet, and its cache stands for the list they will start with.
HearsA ==
  IF Works("A") THEN pendingA' = Heard(pendingA) /\ UNCHANGED cacheA
  ELSE cacheA' = api' /\ pendingA' = NothingPending

HearsB ==
  IF Works("B") THEN pendingB' = Heard(pendingB) /\ UNCHANGED cacheB
  ELSE cacheB' = api' /\ pendingB' = NothingPending

\* What a step of the one leaves of the other.
StepOfA == HearsB /\ UNCHANGED <<queueB, timerB, jobB, elect, leader>>
StepOfB == HearsA /\ UNCHANGED <<queueA, timerA, jobA, elect, leader>>

ReconcileA(c) == Works("A") /\ A!Reconcile(c) /\ StepOfA
ReconcileB(c) == Works("B") /\ B!Reconcile(c) /\ StepOfB

ProceedA == Works("A") /\ (\E out \in A!Outcomes : A!Proceed(out)) /\ StepOfA
ProceedB == Works("B") /\ (\E out \in B!Outcomes : B!Proceed(out)) /\ StepOfB

WatchEventA(k) == Works("A") /\ A!WatchEvent(k) /\ StepOfA
WatchEventB(k) == Works("B") /\ B!WatchEvent(k) /\ StepOfB

ResyncA(c) == Works("A") /\ A!Resync(c) /\ StepOfA
ResyncB(c) == Works("B") /\ B!Resync(c) /\ StepOfB

\* Users and the garbage collector commit like anyone else.
UserEdit ==
  IF Works("A") THEN A!UserEdit /\ StepOfA ELSE B!UserEdit /\ StepOfB

GarbageCollect(s) ==
  IF Works("A") THEN A!GarbageCollect(s) /\ StepOfA ELSE B!GarbageCollect(s) /\ StepOfB

\* The work a process starts with: all that its informers have listed.
Listed == {c \in Creds : api[c].obj # Absent}

Unset == [c \in Creds |-> None]

\* The first leader loses the lease: mgr.Start returns, main exits and the call is
\* dropped.  It comes back as the standby.  The other process gets the lease, and
\* only then starts its informers, from a fresh list, and its worker.
Failover ==
  /\ elect /\ leader = "A" /\ leader' = "B"
  /\ faults < MaxFaults /\ faults' = faults + 1
  /\ A!Relist /\ jobA' = A!IdleJob /\ queueA' = {} /\ timerA' = Unset
  /\ B!Relist /\ queueB' = Listed
  /\ UNCHANGED <<users, now, edits, lag, timerB, jobB, elect>>

\* The initial states of both, apart from the bound on failures: where both
\* processes work it is spent, and only their interleavings are explored.
Init ==
  /\ elect \in BOOLEAN
  /\ leader = "A"
  /\ faults = IF elect THEN 0 ELSE MaxFaults
  /\ \E p \in Policies :
       api = [k \in A!Keys |-> [rv |-> 0, obj |-> IF k = PolicyName THEN p ELSE Absent]]
  /\ users = [u \in A!Users |-> None]
  /\ now = 0 /\ edits = 0 /\ lag = IF elect THEN 0 ELSE MaxLag
  /\ cacheA = api /\ cacheB = api
  /\ pendingA = NothingPending /\ pendingB = NothingPending
  /\ queueA = {} /\ queueB = {}
  /\ timerA = Unset /\ timerB = Unset
  /\ jobA = A!IdleJob /\ jobB = B!IdleJob

Next ==
  \/ \E c \in Creds : ReconcileA(c) \/ ReconcileB(c) \/ ResyncA(c) \/ ResyncB(c)
  \/ ProceedA \/ ProceedB
  \/ \E k \in A!Keys : WatchEventA(k) \/ WatchEventB(k)
  \/ UserEdit
  \/ \E s \in SecretNames : GarbageCollect(s)
  \/ Failover

\* Each process is scheduled as one process is, as long as it works.  Nothing is
\* assumed of the resync.
Fairness ==
  /\ \A c \in Creds : SF_vars(ReconcileA(c)) /\ SF_vars(ReconcileB(c))
  /\ WF_vars(ProceedA) /\ WF_vars(ProceedB)
  /\ \A k \in A!Keys : WF_vars(WatchEventA(k)) /\ WF_vars(WatchEventB(k))
  /\ \A s \in SecretNames : WF_vars(GarbageCollect(s))

Spec == Init /\ [][Next]_vars /\ Fairness

-----------------------------------------------------------------------------
(* Properties *)

\* Every variable of each process has its type, and so has who leads.
TypeOK ==
  /\ A!TypeOK /\ B!TypeOK
  /\ elect \in BOOLEAN
  /\ leader \in {"A", "B"}

\* With leader election the promises of a single process hold across a failover, at
\* whatever step of a call it comes (main.go 68-70, 162-165, 214-217): no account
\* without a credential that will remove it, and no Ready status that is not true.
LeaderKeepsPromises == elect => A!NoOrphanUser /\ A!ReadyIsHonest

\* With leader election a password is published only while SurrealDB accepts it.
LeaderPublishesWorking ==
  [][elect => \A s \in SecretNames : A!PublishesWorking(s)]_vars

\* With or without leader election a Secret never changes hands: where two
\* processes serve two credentials that ask for the same Secret, EnsureCanManage
\* and the version check let only one of them have it (controller 104-112, 350-357).
SecretsKeepOwners ==
  [][\A s \in SecretNames :
       api[s].obj # Absent /\ api'[s].obj # Absent =>
         api'[s].obj.owner = api[s].obj.owner]_vars

\* The calls end well or the credential stops at an error that is written to its
\* status and returned to no one: the rotation or DefineUser failed, a Secret was in
\* the way, the provider was not there (controller 106-112, 117-126, 136-148).  Then
\* only an event brings a worker back.
GaveUp(c) ==
  LET o == api[c].obj
  IN  \E reason \in {"DefineUserFailed", "RotationFailed", "SecretConflict",
                     "ProviderNotFound", "ProviderSecretInvalid"} :
        o.status.conds["Ready"] = [reason |-> reason, gen |-> o.gen]

\* Without any resync every credential that stays is answered, by one process or two,
\* across a failover: it is settled or refused.  One failure is always made good,
\* because to write it down changes the status, and that is an event.  The second one
\* may write the same status again, which is no event, and the worker does not come
\* back (controller 136-140); then at least the status says what failed.
Answered ==
  <>[](\A c \in Creds :
         LET o == api[c].obj
         IN  o # Absent /\ ~o.deleting =>
               \/ A!Settled(c) \/ A!Refused(c)
               \/ elect /\ faults + lag > 1 /\ GaveUp(c))
=============================================================================
