--------------------------- MODULE OperatorProofs ---------------------------
(***************************************************************************)
(* Beside real providers the credential controller keeps the promises it   *)
(* makes beside imagined ones: a step of Operator is one of                *)
(* CredentialController, or the worker turns to another server.  Types,    *)
(* owners and published passwords survive that, for every set of           *)
(* providers, provider Secrets and specs; what is said of accounts that    *)
(* are left behind, or are there, holds where no provider moves.           *)
(***************************************************************************)
EXTENDS Operator, RefinementProofs, ScheduleProofs

\* The worker turns to some server.
Turns == \E url \in Endpoints : TurnTo(url)

ServersTyped ==
  /\ server \in Endpoints
  /\ elsewhere \in [Endpoints -> [Users -> Account \cup {None}]]

\* A call that makes an account does so at the server that the worker has turned to.
AtServer == job.pc \in {"define", "secret"} => job.url = server

-----------------------------------------------------------------------------
(* Steps *)

\* What the caches of providers show only narrows what a reconcile may find.
LEMMA ReconcilesHere ==
  ASSUME NEW c \in Creds, ReconcileHere(c)
  PROVE  Reconcile(c)
BY DEF ReconcileHere, Reconcile, ForceCleanup

\* Of the platform and of the servers the controller sees nothing else.
LEMMA OperatorStep ==
  ASSUME [OperatorNext]_allVars
  PROVE  \/ [Next]_vars /\ UNCHANGED servers
         \/ Turns /\ UNCHANGED rstore
<1>1. ASSUME NEW c \in Creds, ReconcileHere(c) PROVE Next
  BY <1>1, ReconcilesHere DEF Next
<1>2. ASSUME ClusterHere PROVE Next
  BY <1>2 DEF ClusterHere, Cluster, Next
<1>3. ASSUME NEW k, ProviderEvent(k) PROVE UNCHANGED <<vars, servers>>
  BY <1>3 DEF ProviderEvent
<1>4. ASSUME RestartHere PROVE Next /\ UNCHANGED servers
  BY <1>4 DEF RestartHere, Cluster, Next
<1>5. ASSUME PlatformEdit PROVE UNCHANGED <<vars, servers>>
  BY <1>5 DEF PlatformEdit
<1>6. ASSUME UNCHANGED allVars PROVE UNCHANGED <<vars, servers>>
  BY <1>6 DEF allVars
<1>7. ASSUME UserEdit \/ \E out \in Outcomes : Proceed(out) PROVE Next
  BY <1>7 DEF Next
<1> QED BY <1>1, <1>2, <1>3, <1>4, <1>5, <1>6, <1>7 DEF OperatorNext, Turns

-----------------------------------------------------------------------------
(* Turning to a server *)

\* It changes accounts while there is no call, so nothing is said of either.
LEMMA TurnInv ==
  ASSUME IInv, ServersTyped, Turns
  PROVE  IInv'
<1>1. /\ UNCHANGED <<store, queue, timer, job, now, edits, faults, lag>>
      /\ job.pc = "idle" /\ users' \in [Users -> Account \cup {None}]
  BY DEF Turns, TurnTo, ServersTyped
<1>2. TypeOK'
  BY <1>1 DEF IInv, TypeOK, TypedStore, Versions, TypedJob, CallTyped, store
<1>3. StoreCoherent'
  BY <1>1 DEF IInv, StoreCoherent, Versions, Current, store
<1>4. JobCoherent'
  BY <1>1 DEF IInv, JobCoherent, HoldsOwnSecret, UserDefined
<1> QED BY <1>2, <1>3, <1>4 DEF IInv

\* The servers keep their accounts.
LEMMA ServersStep ==
  ASSUME TypeOK, ServersTyped, [OperatorNext]_allVars
  PROVE  ServersTyped'
<1>1. users \in [Users -> Account \cup {None}]
  BY DEF TypeOK
<1>2. CASE UNCHANGED servers
  BY <1>2 DEF servers, ServersTyped
<1>3. CASE Turns
  BY <1>1, <1>3 DEF Turns, TurnTo, ServersTyped
<1> QED BY <1>2, <1>3, OperatorStep

\* A call makes its account where the worker is when it starts, and the worker
\* stays there until the call is over.
LEMMA AtServerStep ==
  ASSUME TypeOK, AtServer, [OperatorNext]_allVars
  PROVE  AtServer'
<1> SUFFICES ASSUME job'.pc \in {"define", "secret"} PROVE job'.url = server'
  BY DEF AtServer
<1>1. ~Turns
  BY DEF Turns, TurnTo
<1>2. [Next]_vars /\ server' = server
  BY <1>1, OperatorStep DEF servers
<1>3. CASE job.pc = "idle"
  <2>1. job' # job /\ ~Restart
    BY <1>3 DEF Restart, IdleJob
  <2>2. ~(UserEdit \/ Cluster \/ UNCHANGED vars)
    BY <2>1, OthersAlone
  <2>3. \A out \in Outcomes : ~Proceed(out)
    BY <1>3 DEF Proceed, DefineUser, reconcileTargetSecret, UpdateStatus, RemoveUser,
           deleteOwnedTargetSecret, recordDeleteFailure, removeCredentialFinalizer
  <2>4. PICK c \in Creds : ReconcileHere(c)
    BY <1>1, <2>1, <2>2, <2>3
       DEF OperatorNext, ClusterHere, Cluster, PlatformEdit, ProviderEvent, RestartHere,
           allVars, vars, Turns
  <2>5. PICK url \in Endpoints : ReconcileDefine(c, url) /\ Connects /\ url = SecretURL(c)
    BY <1>3, <2>4, OnlyDefines DEF ReconcileHere, ForceCleanup
  <2> QED BY <1>2, <2>5 DEF ReconcileDefine, Connects, SecretURL, Call, IdleJob
<1> QED BY <1>2, <1>3, DefiningCall DEF AtServer

-----------------------------------------------------------------------------
(* The invariant *)

\* At the start there are no accounts anywhere, and the worker is at the server of
\* the provider.
LEMMA OperatorInvInit ==
  ASSUME OperatorInit
  PROVE  IInv /\ Schedule /\ ServersTyped /\ AtServer /\ Custody /\ Honesty
<1>1. IInv /\ Schedule /\ Custody /\ Honesty /\ Init
  BY InvInit, ScheduleInit, CustodyInit, HonestyInit DEF OperatorInit
<1>2. AtServer
  BY <1>1 DEF Init, IdleJob, AtServer
<1>3. PICK policy \in Policies : cache[PolicyName].obj = policy
  BY <1>1, KeyKinds DEF Init
<1>4. PICK specs \in [Providers -> ProviderSpecs] :
        \A p \in Providers : rcache[p].obj = NewProvider(specs[p])
  BY DEF OperatorInit, R!Keys, R!Reconciled
<1>5. server \in Endpoints
  <2>1. policy.providerRef \in Providers /\ specs[policy.providerRef] \in ProviderSpecs
    BY ProvidersAssumption
  <2>2. rcache[policy.providerRef].obj.spec = specs[policy.providerRef]
    <3>1. \A spec : NewProvider(spec).spec = spec
      BY DEF NewProvider
    <3> QED BY <1>4, <2>1, <3>1
  <2> QED BY <1>3, <2>1, <2>2, ProvidersAssumption DEF OperatorInit, Endpoint, Provider
<1>6. elsewhere \in [Endpoints -> [Users -> Account \cup {None}]]
  BY <1>1 DEF OperatorInit, IInv, TypeOK
<1> QED BY <1>1, <1>2, <1>5, <1>6 DEF ServersTyped

OperatorInv == IInv /\ Schedule /\ ServersTyped /\ AtServer

LEMMA OperatorInvStep ==
  ASSUME OperatorInv, [OperatorNext]_allVars
  PROVE  OperatorInv'
<1>1. ServersTyped' /\ AtServer'
  BY ServersStep, AtServerStep DEF OperatorInv, IInv
<1>2. CASE [Next]_vars
  BY <1>1, <1>2, InvStep, ScheduleStep DEF OperatorInv
<1>3. CASE Turns
  <2>1. job.pc = "idle" /\ job' = job
    BY <1>3 DEF Turns, TurnTo
  <2>2. Schedule'
    BY <2>1 DEF Schedule, CallHeld, ScheduleKept, PasswordDue
  <2> QED BY <1>1, <1>3, <2>2, TurnInv DEF OperatorInv
<1> QED BY <1>2, <1>3, OperatorStep

LEMMA OperatorCoherence == OperatorSpec => []OperatorInv
<1>1. OperatorInit => OperatorInv
  BY OperatorInvInit DEF OperatorInv
<1>2. OperatorInv /\ [OperatorNext]_allVars => OperatorInv'
  BY OperatorInvStep
<1> QED BY <1>1, <1>2, PTL DEF OperatorSpec

-----------------------------------------------------------------------------
(* What carries over *)

\* Every variable of the controller keeps its type.
THEOREM OperatorTypeCorrect == OperatorSpec => []TypeOK
<1>1. OperatorInv => TypeOK
  BY DEF OperatorInv, IInv
<1> QED BY <1>1, OperatorCoherence, PTL

\* A Secret never changes hands (controller 104-112, 350-357).
THEOREM OperatorKeepsOwners == OperatorSpec => OwnershipStable
<1>1. OperatorInv /\ [OperatorNext]_allVars => [\A s \in SecretNames : OwnerKept(s)]_vars
  <2> SUFFICES ASSUME OperatorInv, [OperatorNext]_allVars, NEW s \in SecretNames
               PROVE  OwnerKept(s)
    OBVIOUS
  <2>1. CASE [Next]_vars
    BY <2>1, OwnershipStep DEF OperatorInv, IInv, JobCoherent, SharedInv
  <2>2. CASE Turns
    BY <2>2 DEF Turns, TurnTo, store, OwnerKept
  <2> QED BY <2>1, <2>2, OperatorStep
<1>2. OwnershipStable <=> [][\A s \in SecretNames : OwnerKept(s)]_vars
  BY PTL DEF OwnershipStable, OwnerKept
<1> QED BY <1>1, <1>2, OperatorCoherence, PTL DEF OperatorSpec

\* A password reaches a Secret only while the server at the URL of that Secret accepts
\* it, whatever happens to the provider meanwhile (controller 127-147, 340-343).
THEOREM OperatorPublishesThere == OperatorSpec => PasswordsWorkThere
<1>1. OperatorInv /\ [OperatorNext]_allVars
        => [\A s \in SecretNames : PublishesThere(s)]_allVars
  <2> SUFFICES ASSUME OperatorInv, [OperatorNext]_allVars, NEW s \in SecretNames
               PROVE  PublishesThere(s)
    OBVIOUS
  <2>1. CASE Turns
    BY <2>1 DEF Turns, TurnTo, store, PublishesThere
  <2>2. CASE [Next]_vars
    <3>1. PublishesWorking(s) /\ SecretStep(s)
      BY <2>2, PublishingStep, NextMoves DEF OperatorInv, IInv, SecretSteps
    <3>2. CASE /\ job.pc = "secret"
               /\ api'[s].obj = BuildTargetSecret(job.req, Cred, job.user, job.password, job.url)
      <4>1. api'[s].obj.url = server
        BY <3>2 DEF BuildTargetSecret, OperatorInv, AtServer
      <4> QED BY <3>1, <4>1 DEF PublishesThere, PublishesWorking, AccountsAt
    <3>3. CASE api[s].obj # Absent /\ api'[s].obj = [api[s].obj EXCEPT !.pw = None]
      <4>1. api[s].obj \in Secret
        BY <3>3, StoreAt, KeyKinds DEF OperatorInv, IInv, TypeOK, Version
      <4> QED BY <3>3, <4>1 DEF Secret, PublishesThere
    <3> QED BY <3>1, <3>2, <3>3 DEF SecretStep, ForeignSecret, PublishesThere
  <2> QED BY <2>1, <2>2, OperatorStep
<1> QED BY <1>1, OperatorCoherence, PTL DEF OperatorSpec, PasswordsWorkThere

-----------------------------------------------------------------------------
(* Where no provider moves *)

\* The worker is at the one server that providers are known with, and there is no
\* account at another.
Home(url) ==
  /\ server = url
  /\ \A other \in Endpoints : elsewhere[other] = [u \in Users |-> None]
  /\ R!Keys = DOMAIN rapi /\ R!Keys = DOMAIN rcache /\ R!Keys = DOMAIN rpending
  /\ \A p \in Providers : \A v \in R!Versions(p) :
       v.obj # Absent => v.obj.spec.endpoint = url

\* The provider that a call has read is one of them.
LEMMA ProviderKnown ==
  ASSUME TypeOK, cache[PolicyName].obj # Absent, Finds("Resolved")
  PROVE  /\ cache[PolicyName].obj.providerRef \in Providers
         /\ Provider(rcache, cache[PolicyName].obj) # Absent
<1>1. cache[PolicyName].obj \in Policies
  BY StoreAt, KeyKinds DEF TypeOK, Version
<1>2. ProviderRead(cache[PolicyName].obj) = "Resolved"
  BY DEF Finds, ProviderReads
<1> QED BY <1>1, <1>2, ProvidersAssumption DEF ProviderRead

\* So there is no other server to turn to.
LEMMA StaysHome ==
  ASSUME TypeOK, NEW url \in Endpoints, Home(url)
  PROVE  ~Turns
<1> SUFFICES ASSUME NEW other \in Endpoints, TurnTo(other) PROVE FALSE
  BY DEF Turns
<1>1. cache[PolicyName].obj # Absent /\ Finds("Resolved")
  BY DEF TurnTo
<1>2. Endpoint = url
  BY <1>1, ProviderKnown DEF Home, R!Versions, Endpoint, Provider
<1> QED BY <1>2 DEF TurnTo, Home

LEMMA HomeInit ==
  ASSUME OperatorInit, NEW url \in Endpoints, AllAt(url)
  PROVE  Home(url)
<1>1. PICK policy \in Policies : cache[PolicyName].obj = policy
  BY KeyKinds DEF OperatorInit, Init
<1>2. PICK specs \in [Providers -> ProviderSpecs] :
        \A p \in Providers : rapi[p].obj = NewProvider(specs[p])
  BY DEF OperatorInit, R!Keys, R!Reconciled
<1>3. \A p \in Providers : rapi[p].obj.spec.endpoint = url
  BY <1>2, ProvidersAssumption DEF AllAt
<1>4. server = url
  BY <1>1, <1>3, ProvidersAssumption DEF OperatorInit, Endpoint, Provider
<1>5. \A other \in Endpoints : elsewhere[other] = [u \in Users |-> None]
  BY DEF OperatorInit, Init
<1>6. \A p \in Providers : R!Versions(p) = {rapi[p]}
  BY DEF OperatorInit, R!Versions, R!Keys, R!Reconciled
<1>7. R!Keys = DOMAIN rapi /\ R!Keys = DOMAIN rcache /\ R!Keys = DOMAIN rpending
  BY DEF OperatorInit
<1> QED BY <1>3, <1>4, <1>5, <1>6, <1>7 DEF Home

\* What an edit, an event or a restart leaves in the store of the providers.
LEMMA ProviderVersions ==
  ASSUME R!Keys = DOMAIN rapi, R!Keys = DOMAIN rcache, R!Keys = DOMAIN rpending,
         [OperatorNext]_allVars
  PROVE  /\ R!Keys = DOMAIN rapi' /\ R!Keys = DOMAIN rcache' /\ R!Keys = DOMAIN rpending'
         /\ \A k \in R!Keys : R!Versions(k)' \subseteq R!Versions(k) \cup {rapi'[k]}
<1>1. CASE UNCHANGED rstore
  BY <1>1 DEF rstore, R!Versions
<1>2. CASE PlatformEdit
  <2>1. ASSUME NEW k, NEW o, R!Edit(k, o) PROVE R!Commit(k, o)
    BY <2>1 DEF R!Edit
  <2>2. PICK k, o : R!Commit(k, o)
    BY <1>2, <2>1 DEF PlatformEdit, R!PutProvider, R!PutSecret, R!DeleteObject
  <2>3. CASE UNCHANGED <<rapi, rcache, rpending>>
    BY <2>3 DEF R!Versions
  <2>4. ASSUME NEW v, rapi' = [rapi EXCEPT ![k] = v], rcache' = rcache,
               rpending' = [rpending EXCEPT ![k] = @ \cup {v}]
        PROVE  /\ R!Keys = DOMAIN rapi' /\ R!Keys = DOMAIN rcache' /\ R!Keys = DOMAIN rpending'
               /\ \A j \in R!Keys : R!Versions(j)' \subseteq R!Versions(j) \cup {rapi'[j]}
    <3>1. ASSUME NEW j \in R!Keys
          PROVE  R!Versions(j)' \subseteq R!Versions(j) \cup {rapi'[j]}
      <4>1. CASE j = k
        BY <2>4, <4>1 DEF R!Versions
      <4>2. CASE j # k
        BY <2>4, <4>2 DEF R!Versions
      <4> QED BY <4>1, <4>2
    <3> QED BY <2>4, <3>1
  <2> QED BY <2>2, <2>3, <2>4 DEF R!Commit
<1>3. ASSUME NEW k, ProviderEvent(k)
      PROVE  /\ R!Keys = DOMAIN rapi' /\ R!Keys = DOMAIN rcache' /\ R!Keys = DOMAIN rpending'
             /\ \A j \in R!Keys : R!Versions(j)' \subseteq R!Versions(j) \cup {rapi'[j]}
  BY <1>3 DEF ProviderEvent, R!Deliver, R!Versions
<1>4. CASE RestartHere
  BY <1>4 DEF RestartHere, R!Relist, R!Versions
<1> QED BY <1>1, <1>2, <1>3, <1>4 DEF OperatorNext, allVars

LEMMA HomeStep ==
  ASSUME TypeOK, NEW url \in Endpoints, Home(url), AllAt(url)', [OperatorNext]_allVars
  PROVE  Home(url)' /\ [Next]_vars
<1>1. [Next]_vars /\ UNCHANGED servers
  BY StaysHome, OperatorStep
<1>2. /\ R!Keys = DOMAIN rapi' /\ R!Keys = DOMAIN rcache' /\ R!Keys = DOMAIN rpending'
      /\ \A k \in R!Keys : R!Versions(k)' \subseteq R!Versions(k) \cup {rapi'[k]}
  BY ProviderVersions DEF Home
<1>3. Providers \subseteq R!Keys
  BY DEF R!Keys, R!Reconciled
<1> QED BY <1>1, <1>2, <1>3 DEF Home, AllAt, servers

\* There the operator is the controller at one server.
LEMMA OperatorTrust ==
  ASSUME SafeEdits, NEW url \in Endpoints
  PROVE  OperatorSpec /\ TargetsKept /\ EndpointsKept(url)
           => [](Home(url) /\ Custody /\ Honesty)
<1>1. OperatorInit /\ AllAt(url) => Home(url) /\ Custody /\ Honesty
  BY HomeInit, OperatorInvInit
<1>2. /\ OperatorInv /\ OperatorInv' /\ Home(url) /\ Custody /\ Honesty /\ AllAt(url)'
      /\ [OperatorNext]_allVars /\ [\A c \in Creds : KeepsTarget(c)]_vars
      => (Home(url) /\ Custody /\ Honesty)'
  BY HomeStep, CustodyStep, HonestyStep DEF OperatorInv, IInv
<1> QED BY <1>1, <1>2, OperatorCoherence, PTL
        DEF OperatorSpec, TargetsKept, EndpointsKept

\* As long as no provider is moved, no account is left at any server without the
\* credential that will remove it: one whose provider is gone keeps its finalizer
\* (controller 262-278).
THEOREM OperatorOrphansNoUser ==
  ASSUME SafeEdits, NEW url \in Endpoints
  PROVE  OperatorSpec /\ TargetsKept /\ EndpointsKept(url) => []NoOrphanAnywhere
<1>1. Home(url) /\ Custody => NoOrphanAnywhere
  BY DEF Home, Custody, NoOrphanUser, NoOrphanAnywhere, AccountsAt
<1> QED BY <1>1, OperatorTrust, PTL

\* As long as no provider is moved, a credential that reports Ready has its account at
\* the server of its provider, however often that goes, breaks and comes back
\* (controller 127-157).
THEOREM OperatorIsHonest ==
  ASSUME SafeEdits, NEW url \in Endpoints
  PROVE  OperatorSpec /\ TargetsKept /\ EndpointsKept(url) => []ReadyIsHonestAt(url)
<1>1. Home(url) /\ Honesty => ReadyIsHonestAt(url)
  BY DEF Home, Honesty, ReadyIsHonest, ReadyIsHonestAt, AccountsAt
<1> QED BY <1>1, OperatorTrust, PTL

\* As long as no provider is moved, the operator implements the service that the
\* controller implements, whatever else becomes of the providers.
THEOREM OperatorImplementsService ==
  ASSUME SafeEdits, NEW url \in Endpoints
  PROVE  OperatorSpec /\ TargetsKept /\ EndpointsKept(url) => ImplementsService
<1>1. OperatorInit => Service!Init
  BY ServiceInit DEF OperatorInit
<1>2. /\ OperatorInv /\ OperatorInv' /\ Home(url) /\ Custody /\ AllAt(url)'
      /\ [OperatorNext]_allVars
      => [Service!Next]_(Service!vars)
  BY HomeStep, ServiceStep DEF OperatorInv, IInv
<1> QED BY <1>1, <1>2, OperatorCoherence, OperatorTrust, PTL
        DEF OperatorSpec, ImplementsService, Service!Spec, EndpointsKept
=============================================================================
