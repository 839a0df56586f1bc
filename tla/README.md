# A TLA+ model of the SurrealDB credential operator

The operator gives every `SurrealDBCredential` in a Kubernetes cluster a system
user in SurrealDB and a Secret with its password, rotates the password on
request or on schedule, and removes both when the credential is deleted. It is
a set of reconcilers: level-triggered, restartable, working on cached reads and
on calls that may fail half-way. This directory models that logic, checks it
with TLC on small instances, and proves its safety properties with TLAPS for
every instance.

Paths below are relative to the repository; `controller` without a name is
`internal/controller/surrealdbcredential_controller.go`.

## The system

| Part | State it keeps | Operations | Correct when |
|---|---|---|---|
| Credential controller (`controller`) | none of its own: finalizer and status on the credential, the target Secret, the SurrealDB user | `Reconcile`, `resolve`, `reconcileDelete`, `recordDeleteFailure`, `removeCredentialFinalizer`, `reconcileTargetSecret`, `deleteOwnedTargetSecret` | published passwords work, Secrets are never taken over, statuses are honest, no user is orphaned, everything converges, deletion completes |
| Rotation decision (`internal/rotation`) | none (pure) | `Decide`, `computeNext` | passwords change exactly when asked for or due, schedules do not slip |
| Policy evaluation and usernames (`internal/policy`) | none (pure) | `Evaluate`, `Username` | only what the policy lists is allowed; one name per credential and target |
| Target Secrets and passwords (`internal/secrets`) | none (pure, randomness) | `BuildTargetSecret`, `EnsureCanManage`, `IsOwnedByCredential`, `ExistingPassword`, `GeneratePassword` | ownership is by UID |
| Conditions (`internal/conditions`) | the condition list of a status | `Set`, `Ready`, `NotReady` | the observed generation is the one judged |
| SurrealDB admin client (`internal/surreal`) | a connection | `DefineUser` (overwrites), `RemoveUser` (if it exists), TLS and endpoint validation | both calls can be repeated |
| Provider controller | Ready of a provider | `Reconcile`, `validateProvider`, `providersForSecret` | Ready tells whether the references are valid |
| Tenant policy controller | Ready of a policy | `Reconcile` | Ready tells whether the provider exists |
| API types (`api/v1alpha1`) | specs and statuses | - | - |
| Manager (`cmd/main.go`) | flags, the leader lease | start, lose the lease, exit | a failover breaks no promise; two working replicas still converge |
| Charts, manifests, generated code | - | - | not modelled |

Interaction. The three controllers run in one process, each with a work queue
and one worker. All reads go to a shared informer cache that trails the API
server; all writes go to the API server, which rejects an update of a version
that is no longer current. Watches (`For`, `Owns`, `Watches`) fill the queues.
The credential controller also opens a connection to SurrealDB in each
reconcile. Controllers never call each other: they meet in the objects.

What is hard. Three stores (SurrealDB, the Secret, the status) are changed one
after the other and any of the steps may fail, or succeed and be reported as
failed; the process may stop in between; every decision is taken on a cached
read that may be out of date; users edit and delete anything at any time; two
credentials may want one Secret; rotation adds a clock. `PROJECT.json` lists
these hazards line by line with the properties that cover them.

## Modules

    ApiServer            Kubernetes API server and informer cache (external)
    RotationDecision     internal/rotation
    TenantPolicy         internal/policy, the types of policies
    CredentialController EXTENDS the three above: the credential controller,
                         the queries it sends, SurrealDB and the users around it
    CredentialProperties what it promises, and the invariant behind it (IInv)
    CredentialInvariants the invariants behind the harder promises (Custody,
                         Honesty and Schedule)
    CredentialService    what a tenant is promised: the abstract specification
    CredentialRefinement the controller as an implementation of the service
    CredentialProofs     theorems (TLAPS): types, ownership, passwords
    CustodyProofs        theorem: no user is orphaned
    HonestyProofs        theorem: Ready is honest
    RefinementProofs     theorem: the controller implements the service
    ScheduleProofs       theorems: rotation, the schedule and reused passwords
    ReferenceControllers EXTENDS ApiServer: the provider and policy controllers
                         and their properties
    ReferenceProofs      theorems: types, no provider is forgotten
    Operator             composes CredentialController with the providers and
                         Secrets of ReferenceControllers
    OperatorProofs       theorems: what the controller promises holds beside
                         real providers
    Replicas             composes two processes, each a CredentialController,
                         on one API server, with and without leader election
    ReplicasProofs       theorems: what holds of two processes, and what leader
                         election saves
    MCCredential, MCOperator, MCReplicas, MCReferences
                         instances for TLC

### ApiServer

A key names an object; a version is a resource version and an object. `api` is
what is committed, `cache` what the informers hold, `pending` what has been
committed and not delivered. `Commit` models a write (one that changes nothing
makes no version and no event, as in Kubernetes), `AcceptsUpdate` the
optimistic-concurrency check, `Deliver` one watch event, in order for each key
and independently between keys, `Relist` the cache of a new process.

### CredentialController

`users` is SurrealDB, `queue` and `timer` the work queue with its delayed
entries, `job` the locals of the `Reconcile` call in progress, `now` the clock.

A call is cut at its external calls: DefineUser, the write of the Secret, the
status update, RemoveUser, the deletion of the Secret, the status update of
`recordDeleteFailure`, the removal of the finalizer. What the code does between
two of them reads only the cache and its own locals and is part of the step
before; the cache may lag by any amount at each of these steps, so a read that
happens a moment later sees nothing that a different delivery order would not
show. `deleteOwnedTargetSecret` and `removeCredentialFinalizer` read the cache
again at their own step, as the code does.

| Action | Code (`controller`) |
|---|---|
| `ReconcileGone`, `AddFinalizer` | 72-83, 245-247 |
| `ReconcileRootError`, `ReconcileUnresolved` | 89-95, 181-224, 307-327 |
| `ReconcileConflict` | 104-112 |
| `ReconcileBlocked` (no randomness, no connection) | 117-133 |
| `ReconcileDefine`, `DefineUser` | 114-141 |
| `reconcileTargetSecret` | 143-155, 340-358 |
| `UpdateStatus` | the status updates that end a call, 157-168 |
| `DeleteUnresolved`, `DeleteForced`, `DeleteBegin` | 242-267 |
| `RemoveUser`, `deleteOwnedTargetSecret` | 268-277, 360-372 |
| `recordDeleteFailure`, `removeCredentialFinalizer` | 281-305 |
| `WatchEvent`, `Resync`, `TimerFires`, `GarbageCollect`, `Restart`, `Tick` | controller-runtime and Kubernetes; which events enqueue what is 399-405 |
| `CreateCredential`, `UpdateSpec`, `AnnotateRotateAt`, `AnnotateForceCleanup`, `DeleteCredential`, `UpdatePolicy`, `TouchSecret` | users and platform teams |

Every external call has three outcomes: `ok`, `failed` (no effect), and `lost`
(it took effect, the caller sees an error). An error puts the key back into the
queue, as controller-runtime does; the backoff is not timed.

Abstractions. A condition is its reason and observed generation; messages are
left out. A username is what is hashed into it. Times are natural numbers.
Fresh passwords are drawn from a pool that never repeats one still in use.
All credentials live in one namespace under one policy. The reads of the
provider and of its Secrets in `resolve` are a choice of outcomes, and so is
the endpoint they yield, charged to the fault bound when they are not good:
Operator ties them to a provider. A user's foreign Secret has no password.

Queries. `DefinesUser` and `RemovesUser` say whether a query can be built at
all: `usePrefix` wants a namespace and, for a database user, a database;
`renderRoles` wants at least one role; `EscapeIdent` refuses the empty name and
names with control characters (the constant `Unquotable`). What the text of an
accepted query looks like is left out. A call whose query cannot be built fails
before anything is sent.

Timers. A `RequeueAfter` of exactly zero is a result without a requeue to
controller-runtime; `Scheduled` sets no timer for it (controller 162-165).

### CredentialService and CredentialRefinement

The service has credentials (an incarnation and a phase: requested, protected,
leaving), accounts and Secrets, and nothing else: no caches, no calls, no
statuses. A credential is protected before it gets an account; a Secret is
written only with the password its account has at that moment and only by its
owner; a credential leaves only when it has no account. The refinement mapping
reads the three from `api` and `users`; every cache, queue, job and timer step
has to be a stutter. It needs credentials that keep their target (OrphanUser) and no
force cleanup, whose point is to leave the account behind.

### Operator

The providers and their Secrets have a store of their own with the same API
server rules; `Finds` ties what `resolve` reads to what their cache shows, in
the order of the code: provider, root credentials, TLS material. `openDB` fails
for an endpoint that does not parse and for any custom TLS, which the code
refuses. Platform edits replace, break, delete and put back providers and
Secrets; their events reach the cache and enqueue nobody, because the credential
controller does not watch them.

Every endpoint is a SurrealDB of its own. `users` are the accounts of the server
that the worker has turned to, `elsewhere` those of the others, and `TurnTo` is
the part of a reconcile that finds the provider at another endpoint than the
last time: `newAdmin` opens a connection in every reconcile, to the endpoint of
the provider it has read. A call stays at its server until it is over, whatever
becomes of the provider meanwhile. `PasswordsWorkThere` is about the server at
the URL in the Secret. When a provider is moved, its credentials follow
(`OperatorConverges`), and their accounts at the old server stay there for
nobody to remove: as after a change of database, the credential knows only its
last account. The promises about accounts that are left behind or are there
(`NoOrphanAnywhere`, `ReadyIsHonestAt`) are therefore made for providers that
stay at one endpoint (`EndpointsKept`), however often they are removed, broken
and put back. Whether two endpoints are in truth the same server the operator
cannot know, and the model takes them for two.

`Obstacle` restates, on committed
objects, what ought to be reported. A root Secret that cannot be used is the
one obstacle about which nothing is ever written to the status (the error of
`loadRootCredentials` goes to the log and the queue only), and
`OperatorConverges` says so.

### Replicas

Each process has its own cache, queue, timers and call; `api` and `users` are
common. A step of one is a step of CredentialController, and what it commits is
on its way to the other, if that one works (`HearsA`, `HearsB`). `elect` is the
flag `--leader-elect` (off by default). The manager starts informers and
controllers only with the lease, so a standby has no cache: its variable stands
for the list its informers will start with. `Failover` is the loss of the lease:
`mgr.Start` returns, the process exits in the middle of whatever it was doing,
and the standby lists everything and starts its worker. A request that is still
on the wire when the lease is lost is not modelled. The two processes draw from
separate pools of passwords; the type of a password is therefore a number, not
a member of a pool, so that a password of the other process has it too.

Each process is an instance of ScheduleProofs, the last of the proof modules of
the controller, and not only of the controller: the theorems about one process
come along as `A!T` and `B!T`. `ProcessesAssumption` says that both processes
satisfy the assumptions those theorems rest on.

What does not hold with two working processes: `NoOrphanUser` and
`PublishedPasswordWorks` (one process defines the user again after the other
has removed it or before the other has written its Secret). They are promised
only with election, and are checked for that case. `SecretsKeepOwners`, in
contrast, asks for no election: the version check of the API server is enough.

`Answered` is what remains of `Converges` without a resync. An error that the
code writes to the status and returns to nobody (DefineUser failed, no
randomness, a Secret in the way) leaves it to the status update's own watch
event to bring the worker back. One such failure is always made good, because it
changes the status. A second one in a row may write the same status again, which
is no event, and nobody comes back: TLC finds that behaviour, and `Answered`
excuses it by name, only after two failures or lagging starts and only while the
status says what failed.

### ReferenceControllers

Two reconcilers with the same shape: read everything, then update the status.
`call` holds the verdict between the two. `WatchEvent` carries the difference
that matters: a Secret event is mapped to the providers in the cache that refer
to it, while nothing maps a provider event to policies. A Secret's data is the
set of things validation looks for in it (`username`, `password`, a CA, a key
pair). The status is replaced as a whole, which is what the code does to the
fields it sets.

## Runs

One fault budget covers failed and lost calls and restarts; one lag budget the
reconciles that start on a cache that is behind. Both are small, but the point
where a fault or a late delivery strikes is free, and each known failure of
this kind of code needs one or two of them. `Passwords` has five members, more
than can be alive at once. All configurations turn deadlock checking off: with
the edit budget used up and everything settled the system really does nothing
more.

| Run | Instance | Shows |
|---|---|---|
| Lifecycle | 1 credential, 2 role sets, a policy that may be removed and put back, 3 edits, 1 fault, 1 stale start | `TypeOK`, `ReadyIsHonest`, `NoOrphanUser`, `OwnershipStable`, `PublishedPasswordWorks`, `ImplementsService` under creation, respecification, rotation, Secret tampering, removal of the policy and deletion |
| Operator | 1 credential (one spec cannot be quoted), 1 policy that may be removed and put back, 1 provider with 3 specs, 1 root Secret with 2 contents, 2 servers, 3 edits of anything or 4 of a credential and a provider that goes away and comes back, 1 fault; Secret deletion may fail for ever | `PasswordsWorkThere`, `OperatorConverges`, `CleanupIsNotForgotten`, `ForceCleanupCompletes` |
| Schedule | a policy that allows or one that denies, 2 periods, manual trigger, clock to 3, Secret blanked or deleted, 2 edits, 1 fault | `Converges` with rotation, `ReusesPassword`, `RotationNotDelayed` |
| Sharing | 2 credentials, 1 Secret name, force cleanup, 3 edits, 1 fault, 1 stale start | `Converges`, `OwnershipStable`, `DeletionCompletes`, `SecretsFollowCredentials` |
| Replicas | 2 processes, 2 role sets, 2 edits; with election 1 credential, 2 faults or failovers, or 1 and a lagging start; without, 2 credentials for 1 Secret | `TypeOK`, `LeaderKeepsPromises`, `LeaderPublishesWorking` with election, `SecretsKeepOwners` and `Answered` with and without |
| References | 1 provider, 1 policy, 2 Secrets, 4 edits, 1 fault | `TypeOK`, `NothingForgotten`, `ProvidersTruthful`, `PoliciesTruthful` |
| OrphanUser | the database of the spec changes | violates `NoOrphanUser` |
| DeleteRace | a foreign Secret under the target name | violates `DeletesOnlyOwnedSecrets` |
| PolicyRevoked | the policy goes away | violates `DeletionCompletes` |
| DoubleRotation | one stale start | violates `ReusesPassword` |
| LostRotationTime | one fault | violates `LastRotationRecorded` |
| PolicyFirst | no resync | violates `PoliciesTruthful` |

The last six are disagreements between the code and the repository's own
documentation; `PROJECT.json` quotes the lines.

* **OrphanUser.** The username depends on the target. After a change of
  `spec.database`, deletion removes the user of the new database only.
* **DeleteRace.** Ownership is checked on the cached Secret; `Delete` has no
  precondition.
* **PolicyRevoked.** `reconcileDelete` gives up silently when `resolve` says
  no: no status, no retry, and the user stays.
* **DoubleRotation.** The Secret watch can bring the credential back before the
  status of the rotation is in the cache; the trigger looks unserved and the
  password is rotated again. Schedule therefore starts its reconciles on an
  up-to-date cache, and the lag bound of 0 there is what this run is about.
* **LostRotationTime.** The rotation time is lost with the status update that
  should have recorded it.
* **PolicyFirst.** A policy reconciled before its provider stays NotReady until
  the resync, which is ten hours away by default.

Lifecycle leaves out the edits that break its invariants (a change of target,
see OrphanUser; force cleanup, whose documentation accepts the orphan) and
scheduled rotation, which has a run of its own.

Replicas begins with election or without. With election one credential goes
through everything; a second fault is not combined with a lagging start. Without,
the run is about interleavings alone: the budgets of faults and lagging starts
are spent before the start, two credentials ask for one Secret name, each process
may serve either, and none is deleted. The constraint `Bounds` says so.
`ResyncIfElect` leaves out resyncs where both processes work; nothing is assumed
of them, and with election they are there. `Bounds` also leaves out mirror images:
a credential created with the second of the two role sets (the policy allows both
roles), the second credential created before the first, and, where both processes
work, the Secret created by process B (`FirstByA`; the processes differ only in
their names and in the numbers they draw).

In Operator the fault is a failed or lost call or a restart; how the provider
reads turn out follows from the provider and costs nothing. Users have three
edits and the platform team two. Three in all are enough for each property but
two: a deletion that is looked at while the provider is away, and force cleanup
without a provider, take a creation, a deletion, the removal of the provider and
its return or the annotation. `Bounds` lets those have four, with a provider
that comes back as it was and nothing else changed around the credential. It also
fixes, of the states that differ in the names of the two endpoints or in contents
of the root Secret that the provider does not use, one of each kind.

## Fairness

* `SF(Reconcile(c))`: the queue is first in, first out with one worker, so a
  key that is waiting again and again is served again and again.
* `WF(Proceed)`: calls in progress return (every call has a context).
* `WF` of watch events, timers, the clock, garbage collection: promised by
  Kubernetes and client-go.
* `SF(TurnTo)` in Operator: turning to a server is the beginning of a reconcile,
  cut off from it only because the accounts have to be exchanged first.
* `WF(Resync(c))` in Schedule, Sharing, PolicyRevoked and Operator: the informers
  replay all objects (ten hours by default). Without it `Converges` fails in
  three ways. Policies, providers and their Secrets are not watched by the
  credential controller. Two failures in a row may leave the same status
  (`Answered`). And a reconcile that decides before the rotation is
  due and comes to schedule it at exactly that moment asks for a `RequeueAfter`
  of zero, which is none: if its status update changed nothing either (the
  process had just restarted, say), nobody comes back before the resync.
* Replicas assumes nothing of the resync: `Answered` holds there through
  watches and retries alone, since nothing unwatched changes.
* In ReferenceControllers the resync is given to policies only (`ResyncSpec`);
  `FairSpec` does without it.
* Users owe nothing. Faults stop when their budget is used up, except for the
  kinds in `Persistent`.

## Proofs

Every theorem is about the specification that the runs check (`Spec`, or
`OperatorSpec`), for any sets of credentials, Secrets, specs, policies,
providers and triggers and any bounds.

| Theorem | States | In |
|---|---|---|
| `TypeCorrect` | `Spec => []TypeOK` | CredentialProofs |
| `Coherence` | `Spec => []IInv` | CredentialProofs |
| `OwnershipIsStable` | `Spec => OwnershipStable` | CredentialProofs |
| `PublishedPasswordsWork` | `Spec => PublishedPasswordWorks` | CredentialProofs |
| `CustodyHolds` | under `SafeEdits`, `Spec /\ TargetsKept => []Custody` | CustodyProofs |
| `NoUserIsOrphaned` | under `SafeEdits`, `Spec /\ TargetsKept => []NoOrphanUser` | CustodyProofs |
| `ReadyStaysHonest` | under `SafeEdits`, `Spec /\ TargetsKept => []ReadyIsHonest` | HonestyProofs |
| `ControllerImplementsService` | under `SafeEdits`, `Spec /\ TargetsKept => ImplementsService` | RefinementProofs |
| `RotationIsNotDelayed` | `Spec => RotationNotDelayed` | ScheduleProofs |
| `PasswordsAreReused` | `Spec /\ FreshStarts => ReusesPassword` | ScheduleProofs |
| `TypeCorrect` | `Spec => []TypeOK` | ReferenceProofs |
| `NoProviderIsForgotten` | `Spec => []NothingForgotten` | ReferenceProofs |
| `OperatorTypeCorrect`, `OperatorKeepsOwners`, `OperatorPublishesThere` | `OperatorSpec =>` `[]TypeOK`, `OwnershipStable`, `PasswordsWorkThere` | OperatorProofs |
| `OperatorOrphansNoUser`, `OperatorIsHonest`, `OperatorImplementsService` | under `SafeEdits` and for every `url`, `OperatorSpec /\ TargetsKept /\ EndpointsKept(url) =>` `[]NoOrphanAnywhere`, `[]ReadyIsHonestAt(url)`, `ImplementsService` | OperatorProofs |
| `BothTypeCorrect` | `Spec => []TypeOK` | ReplicasProofs |
| `OwnersStay` | `Spec => SecretsKeepOwners` | ReplicasProofs |
| `LeaderIsAlone` | `Spec => []Elected` | ReplicasProofs |
| `LeaderPublishesWorkingPasswords` | `Spec => LeaderPublishesWorking` | ReplicasProofs |
| `PromisesAreKept` | under `SafeEdits`, `Spec /\ TargetsKept => []LeaderKeepsPromises` | ReplicasProofs |

Assumptions on the constants, which TLC evaluates in every run:

* `NamesAssumption`: credentials, Secrets and the policy have different keys;
  passwords are ordered for the pool; bounds are numbers.
* `ValuesAssumption`: specs are well-formed, and the markers `None` and `Absent`
  are no values.
* `AdmissionAssumption`: what the CRDs admit (a database for database users
  only, at least one role, well-formed policies).
* `MarkersAssumption`: the same about the markers for what the service sees.
* `ReferencesAssumption`, `SpecsAssumption`, `ContentsAssumption`: names, provider
  specs and Secret contents of ReferenceControllers are what they should be.
* `ProvidersAssumption`: the provider of a policy and the endpoint of a provider
  are names and URLs that the model knows, and a provider is not `Absent`.
* `ProcessesAssumption`: the first three hold for each of two processes.

The theorems about custody, honesty and the service, and those of OperatorProofs
and ReplicasProofs that rest on them, have two hypotheses about users. `SafeEdits`, about the
constants: all policies agree on the provider and on the SurrealDB namespace,
and `EnvEdits` does not hold force cleanup. `TargetsKept`, about behaviours: no
step changes the level or the database of a credential that exists; one that
has been deleted may come back with another. Without them the theorems are
false. After a change of target the user of the old one is left behind
(OrphanUser is the counterexample); force cleanup gives up on the user by
design. Lifecycle satisfies both.

**Coherence.** `OwnershipStable` is not inductive: the write of the Secret is
checked against a version read long before. `IInv` adds what makes it so.
`StoreCoherent` says that a version held by the cache or a watch is no newer
than the committed one and, if equally new, is that one. `JobCoherent` says
that a call on its way to the Secret holds such a version that was absent or
owned by its credential, and that after DefineUser the account has the call's
password. `StoreCoherent` follows from one fact about all actions, `StoreMoves`
(a step moves a key at most one version on, and whatever is held afterwards was
held before or is the new version). `SecretSteps` lists all that can happen to
a Secret in a step, so that both theorems look at five cases and not at thirty
actions. In the one that matters, an accepted update means that the version
read is the committed one, hence owned by the same credential; and an accepted
create means that there was no Secret.

**Custody.** `NoOrphanUser` relates an account to the finalizer of a credential
that may be gone, deleted or created anew while a call works on an old version
of it. What the call may still believe is what has to be bounded.
`HeldInCustody`: a live version that anybody holds is of the incarnation that
is there, which has its finalizer; a dying version is newer than the live ones,
so a cache that has seen the deletion never goes back. `JobInCustody`: a call
that makes an account works for that incarnation; a cleanup knows of no live
version, and once past RemoveUser there is no account. `AccountsFound`: what is
held of a guarded credential, its account and the account a call works on all
have the one target, so that the user that RemoveUser names is the user there
is. `PendingNewer` makes the
watch go forward, and `OwnersKnown` bounds the UIDs in owner references, for
garbage collection. `Effects` lists all that a step can do to the store, to a
credential and to the accounts (created, rewritten, protected, withdrawn,
released); it is proved once for every action, and the parts of `Custody` are
then proved from it.

**Honesty.** A status is computed from a version read before DefineUser and may
be written long after the spec has changed. `StatusIsHonest` says that the
status under way is about the generation the call works on and says Ready only
of an account with that generation's roles; `ReadyInCustody` that once the
committed credential is Ready nobody holds a version with another spec, so
nobody is about to define its user otherwise; `CallIsCurrent` that the call
works on a version that was committed. The update is accepted only on the
committed version, which is where the three meet.

**Refinement.** A step changes one key of the store or one account, or nothing
the service sees. The proof takes `Effects` and shows, for each kind, the step
of the service it is or that it is a stutter. The cases with substance are
DefineUser, which has to come under the finalizer; the write of the Secret,
which has to carry a live account's password; and the release, which has to
come when there is no account. They are `Custody` and `JobCoherent`.

**Rotation.** A status that moves the schedule is decided on a credential that
was read before DefineUser, and written two external calls later. `Schedule`
says what the call in between keeps to: `ScheduleKept`, that the status under
way has a later rotation than the credential that was read only if the call
decided on a new password; `PasswordDue`, that a call on its way to the Secret
with another password than the Secret's was asked for it by what it has read;
`CallHeld`, that this was a committed version. The status update is accepted
only on the version that was read, so "later than what was read" is "later than
what is there". That is enough for `RotationNotDelayed`, whatever the lag.
`ReusesPassword` compares with the committed record of what has been served and
needs a call that started on it: `FreshStarts` says so of a behaviour. Informers
do not promise it, and DoubleRotation is the counterexample without it.
`FreshCall` keeps it true until the call has written its Secret, since only the
call itself writes that part of the status.

**Nothing forgotten.** `NothingForgotten` is about a provider that is `Quiet`:
not queued, not in a call, its events and those of its Secrets delivered. It is
the safety half of `ProvidersTruthful`, and not inductive: that the status is
right has to follow from what happened when it was not quiet. `Wakefulness` says
it of the cache: a provider that is not queued has, in the call that is about to
write it or in its status, the verdict on the cache as it is (`UpToDate`), and
the cache and the watch together have the committed version (`Delivering`). The
case with substance is the event of a Secret: either it enqueues the provider,
or the provider in the cache does not refer to the Secret and the verdict does
not depend on it. A `referencedSecrets` that leaves one out breaks exactly this
step. The step that writes a status is the other one: a call whose verdict has
become stale has been enqueued meanwhile.

**Providers.** A step of Operator is a step of CredentialController, or the
worker turns to another server (`OperatorStep`): what `Finds` and `CanOpen` say
only narrows its choices, and of edits of providers it sees nothing. Turning
exchanges the accounts while no call is in progress, and `IInv` speaks of
accounts only for a call, so types and owners carry over. For passwords
`AtServer` adds that a call on its way to the Secret has the URL of the server
that it has been sent to. `Custody` and `Honesty` are about accounts at all
times and do not survive a change of servers. Where no provider is moved there
is none: `Home` says that every version of a provider that is committed, cached
or on its way names the one endpoint, that the worker is there, and that there
is no account elsewhere.

**Two processes.** What a process holds can be overtaken by the other's writes.
`SharedInv` is the part of `IInv` that nobody can take away: types, the order of
versions (`StoreCoherent`), and that a call on its way to the Secret has seen it
absent or its own (`HoldsOwnSecret`). Each process keeps it by its own steps and
by hearing of the other's (`HeardStore`): a commit of one is an announcement to
the other. `OwnersStay` follows as it does for one process, since it never needed
more. `UserDefined`, the part left out, is what two working processes break.

**Leader election.** While one leads, the other is idle with an empty queue, so
the leader's process has all of `IInv` (`Elected`), and a failover leaves the
new leader with an idle call, of which `IInv` says nothing more than `SharedInv`.
For the promises the standby has to be brought into custody. What `Custody` and
`Honesty` say splits into what is committed (the promises, and the targets of
accounts) and what caches and calls hold. The first part passes from the leader
to the new one, being about common variables; the second is void at the moment
of the takeover, because the cache is a fresh list and the call idle
(`TrustPassedOn`). `Trusted` therefore has two cases, one for each leader.

Only model-checked: liveness, which is out of TLAPS's reach (`Converges` in
two settings, `Answered`, `DeletionCompletes`, `SecretsFollowCredentials`,
`OperatorConverges`, `CleanupIsNotForgotten`, `ForceCleanupCompletes`,
`ProvidersTruthful`, `PoliciesTruthful`). Every safety property that a passing
run checks is proved, under the hypotheses in the table.

## Not modelled

* The text of queries, the escaping of names that are accepted, the normalised
  part and the 32-bit hash of usernames, the password alphabet, and the parsing
  of URLs and of PEM. These are computations on strings and nothing here
  depends on them beyond whether they succeed. Two credentials whose hashes
  collide would share a user; the model has no collisions.
* Rotation periods that are zero or negative. Nothing refuses them, and they
  rotate the password in every reconcile, for ever. The loop needs a pool of
  passwords without end, and no promise in the repository excludes it.
* The flags of the metrics and webhook servers, probes, scheme registration and
  generated deep copies; charts, manifests and end-to-end tests.
* A request of a process that has lost its lease that is still on the wire when
  the other one takes over.
* Backoff: a failed key is back in the queue at once. `RequeueAfter` comes due
  at its time or later.

## Plan

Done: everything in the table of runs and the table of theorems.

Left, in this order:

1. The safety half of `Converges`: a credential that nothing is about to wake is
   settled, refused, or waits for the resync for a reason that can be named, as
   `NothingForgotten` has it for providers.
2. The same for deletion: a credential that is being deleted and that nothing is
   about to wake is one of the cases of PolicyRevoked.
3. A theorem about clusters without leader election that says what is left of
   `NoOrphanUser` there.
4. Second-granular timestamps, and zero and negative periods, as a module on
   the schedule alone.
5. Usernames and identifiers as functions on short sequences.
