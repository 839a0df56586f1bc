------------------------------ MODULE Operator ------------------------------
(***************************************************************************)
(* The credential controller beside the SurrealDBProviders it depends on.  *)
(* CredentialController lets the reads of the provider and its Secrets     *)
(* find anything; here they find what the informer cache shows, and the    *)
(* platform team changes providers and Secrets under the controller's      *)
(* feet.  The controller does not watch either.                            *)
(*                                                                         *)
(* The providers and their Secrets have a store of their own (the API      *)
(* server is the same, but no key is in both), and the edits of            *)
(* ReferenceControllers.  Every endpoint is a SurrealDB of its own: users  *)
(* of CredentialController are the accounts of the one that the worker has *)
(* turned to, and elsewhere are the accounts of the others.                *)
(***************************************************************************)
EXTENDS CredentialProperties

CONSTANTS
  Providers,        \* names of SurrealDBProviders
  ProviderSecrets,  \* names of the Secrets they refer to
  ProviderSpecs,    \* the provider specs platform teams write
  SecretData,       \* the usable contents of Secrets
  MaxPlatformEdits  \* bound: edits of providers and their Secrets

VARIABLES
  rapi, rcache, rpending,     \* the store of providers and their Secrets
  platformEdits,              \* what has been used of MaxPlatformEdits
  server,                     \* the endpoint whose accounts users are
  elsewhere                   \* the accounts at the other endpoints

R == INSTANCE ReferenceControllers WITH
  api <- rapi, cache <- rcache, pending <- rpending, queue <- {}, call <- <<>>,
  SecretNames <- ProviderSecrets, TenantPolicies <- {},
  edits <- platformEdits, MaxEdits <- MaxPlatformEdits

rstore  == <<rapi, rcache, rpending, platformEdits>>
servers == <<server, elsewhere>>
allVars == <<vars, rstore, servers>>

NewProvider(spec) == [gen |-> 1, spec |-> spec, status |-> R!Unreported]

\* The provider is fixed by the policy, and an endpoint is a URL of a Secret.
ASSUME ProvidersAssumption ==
  /\ \A p \in Policies : p.providerRef \in Providers
  /\ \A spec \in ProviderSpecs : spec.endpoint \in Endpoints /\ NewProvider(spec) # Absent

-----------------------------------------------------------------------------
(* resolve and newAdmin, with the provider the caches show *)

Provider(view, policy) == view[policy.providerRef].obj

\* loadRootCredentials: both keys, and neither empty.
loadRootCredentials(spec) == R!Provides(rcache, spec.root, {"username", "password"})

\* What the reads of the provider and its Secrets find, in the order of resolve.
ProviderRead(policy) ==
  LET p == Provider(rcache, policy)
  IN  IF p = Absent THEN "ProviderNotFound"
      ELSE IF ~loadRootCredentials(p.spec) THEN "RootCredentialError"
      ELSE IF ~R!LoadTLSConfig(rcache, p.spec.tls) THEN "ProviderSecretInvalid"
      ELSE "Resolved"

\* What resolve finds, of all the things it might.
Finds(reason) == reason \in ProviderReads => reason = ProviderRead(cache[PolicyName].obj)

\* openDB: the endpoint parses, and custom TLS is refused.
openDB(spec) == R!ParseEndpointURL(spec.endpoint) /\ spec.tls = None

\* newAdmin: the endpoint of the provider that resolve has read.
Endpoint == Provider(rcache, cache[PolicyName].obj).spec.endpoint

CanOpen == openDB(Provider(rcache, cache[PolicyName].obj).spec)

\* Mutant: the URL of the Secret that is there is kept.
SecretURLKept(c) ==
  LET secret == TargetSecret(cache[c].obj).obj
  IN  IF secret # Absent THEN secret.url ELSE Endpoint

\* The URL the Secret is to have.
SecretURL(c) == Endpoint

\* The worker is about to connect to another server than the last time.
TurnTo(url) ==
  /\ job.pc = "idle"
  /\ cache[PolicyName].obj # Absent /\ Finds("Resolved") /\ CanOpen
  /\ url = Endpoint /\ url # server
  /\ server' = url
  /\ users' = elsewhere[url]
  /\ elsewhere' = [elsewhere EXCEPT ![server] = users]
  /\ UNCHANGED <<store, queue, timer, job, now, edits, faults, lag>>

\* Mutant: the connection that is there is used again.
ConnectsAnywhere == CanOpen

Connects == CanOpen /\ server = Endpoint

\* Mutant: force cleanup resolves first, like normal deletion.
ForceCleanupResolved(c) ==
  DeleteForced(c) /\ cache[PolicyName].obj # Absent /\ Finds("Resolved")

\* Force cleanup asks nothing of the policy or the provider.
ForceCleanup(c) == DeleteForced(c)

\* Reconcile of c.  A connection fails when it cannot be opened at all; that it
\* fails now and then is left to CredentialController.
ReconcileHere(c) ==
  \/ ReconcileGone(c)
  \/ \E out \in Outcomes : AddFinalizer(c, out)
  \/ ReconcileRootError(c) /\ Finds("RootCredentialError")
  \/ \E reason \in Refusals :
       (ReconcileUnresolved(c, reason) \/ DeleteUnresolved(c, reason)) /\ Finds(reason)
  \/ ReconcileConflict(c) /\ Finds("Resolved")
  \/ ReconcileBlocked(c, "RotationFailed") /\ Finds("Resolved")
  \/ ReconcileBlocked(c, "SurrealDBUnavailable") /\ Finds("Resolved") /\ ~CanOpen
  \/ \E url \in Endpoints :
       ReconcileDefine(c, url) /\ Finds("Resolved") /\ Connects /\ url = SecretURL(c)
  \/ ForceCleanup(c)
  \/ DeleteBegin(c, TRUE) /\ Finds("Resolved") /\ Connects
  \/ DeleteBegin(c, FALSE) /\ Finds("Resolved") /\ ~CanOpen

-----------------------------------------------------------------------------
(* The rest of the cluster *)

\* The platform team changes providers and Secrets.
PlatformEdit ==
  /\ \/ \E p \in Providers : R!PutProvider(p)
     \/ \E s \in ProviderSecrets : R!PutSecret(s)
     \/ \E k \in Providers \cup ProviderSecrets : R!DeleteObject(k)
  /\ UNCHANGED <<vars, servers>>

\* A change reaches the cache and enqueues no credential.
ProviderEvent(k) == R!Deliver(k) /\ UNCHANGED <<vars, platformEdits, servers>>

RestartHere == Restart /\ R!Relist /\ UNCHANGED <<platformEdits, servers>>

OperatorInit ==
  /\ Init
  /\ \E specs \in [Providers -> ProviderSpecs], data \in [ProviderSecrets -> SecretData] :
       rapi = [k \in R!Keys |->
                 [rv |-> 0, obj |-> IF k \in Providers THEN NewProvider(specs[k])
                                    ELSE data[k]]]
  /\ rcache = rapi
  /\ rpending = [k \in R!Keys |-> {}]
  /\ platformEdits = 0
  /\ server = Endpoint
  /\ elsewhere = [url \in Endpoints |-> users]

ClusterHere ==
  \/ \E s \in SecretNames : GarbageCollect(s)
  \/ \E k \in Keys : WatchEvent(k)
  \/ \E c \in Creds : Resync(c)

OperatorNext ==
  \/ /\ \/ \E c \in Creds : ReconcileHere(c)
        \/ \E out \in Outcomes : Proceed(out)
        \/ UserEdit
        \/ ClusterHere
     /\ UNCHANGED <<rstore, servers>>
  \/ \E url \in Endpoints : TurnTo(url) /\ UNCHANGED rstore
  \/ PlatformEdit
  \/ \E k \in R!Keys : ProviderEvent(k)
  \/ RestartHere

\* As in CredentialController; nothing here looks at the clock.  Turning to a server
\* is part of a reconcile.
OperatorSpec ==
  /\ OperatorInit /\ [][OperatorNext]_allVars
  /\ \A c \in Creds : /\ SF_allVars(ReconcileHere(c) /\ UNCHANGED <<rstore, servers>>)
                      /\ WF_allVars(Resync(c) /\ UNCHANGED <<rstore, servers>>)
  /\ SF_allVars(\E url \in Endpoints : TurnTo(url) /\ UNCHANGED rstore)
  /\ WF_allVars(\E out \in Outcomes : Proceed(out) /\ UNCHANGED <<rstore, servers>>)
  /\ \A s \in SecretNames : WF_allVars(GarbageCollect(s) /\ UNCHANGED <<rstore, servers>>)
  /\ \A k \in Keys : WF_allVars(WatchEvent(k) /\ UNCHANGED <<rstore, servers>>)
  /\ \A k \in R!Keys : WF_allVars(ProviderEvent(k))

-----------------------------------------------------------------------------
(* Properties *)

\* The accounts at an endpoint.
AccountsAt(url) == IF url = server THEN users ELSE elsewhere[url]

\* A step that puts a password into a Secret puts in one that is accepted at the URL
\* the Secret has.
PublishesThere(s) ==
  LET new == api'[s].obj
  IN  new # api[s].obj /\ new # Absent /\ new.pw # None =>
        LET account == AccountsAt(new.url)[new.user]
        IN  account # None /\ account.pw = new.pw

\* A password is published only where it works: in the step that writes it, the server
\* at the URL in the Secret accepts it, also when the provider has got another endpoint
\* since the call has read it, or since the Secret was written before (controller
\* 127-147, 340-343, 374-382).
PasswordsWorkThere == [][\A s \in SecretNames : PublishesThere(s)]_allVars

\* What stands between c and its user, going by the committed objects.
Obstacle(c) ==
  LET o      == api[c].obj
      p      == Provider(rapi, api[PolicyName].obj)
      secret == api[o.spec.targetSecret].obj
      lacks(needs) == \E n \in needs : rapi[n[1]].obj = Absent \/ n[2] \notin rapi[n[1]].obj
  IN  IF p = Absent THEN "ProviderNotFound"
      ELSE IF lacks({n \in R!Needs(p.spec) : n[2] \in {"username", "password"}})
      THEN "RootCredentialError"
      ELSE IF lacks(R!Needs(p.spec)) THEN "ProviderSecretInvalid"
      ELSE IF ~EnsureCanManage(secret, c, o) THEN "SecretConflict"
      ELSE IF p.spec.endpoint = "unparsable" \/ p.spec.tls # None
      THEN "SurrealDBUnavailable"
      ELSE IF ~DefineUserQuery(UserTarget(api[PolicyName].obj, o.spec), o.spec.roles)
      THEN "DefineUserFailed"
      ELSE None

\* With no obstacle the credential is settled at the provider's server, and its Secret
\* has the URL; otherwise its status names the obstacle, except that nothing is ever
\* said of a root Secret that cannot be used.
Accounted(c) ==
  LET o       == api[c].obj
      tenancy == api[PolicyName].obj
  IN  IF tenancy = Absent \/ ~Evaluate(tenancy, o.spec).Allowed
      THEN Refused(c)
      ELSE \/ Obstacle(c) = "RootCredentialError"
           \/ o.status.conds["Ready"] = [reason |-> Obstacle(c), gen |-> o.gen]
           \/ /\ Obstacle(c) = None
              /\ Settled(c)
              /\ server = Provider(rapi, tenancy).spec.endpoint
              /\ api[o.spec.targetSecret].obj.url = server

\* However providers, their Secrets and the policy are changed, removed and put
\* back, in the end every credential follows: it has its account on the provider's
\* server and a Secret with that URL, or its status says what is wrong with the
\* provider now (controller 203-225, 127-133, 374-382).
OperatorConverges ==
  <>[](\A c \in Creds :
         api[c].obj # Absent /\ ~api[c].obj.deleting => Accounted(c))

\* A deleted credential is gone in the end, or its policy or provider stands in
\* the way, or deleting its Secret is being tried and fails: it is never
\* forgotten because the provider was away when the deletion was looked at, and came
\* back (controller 258-278).
CleanupIsNotForgotten ==
  \A c \in Creds :
    []<>(LET o       == api[c].obj
             tenancy == api[PolicyName].obj
             failed  == /\ job.pc = "recordFailure"
                        /\ job.status.conds["SecretReady"].reason = "SecretDeleteFailed"
         IN  \/ ~Dying(o)
             \/ tenancy = Absent \/ ~Evaluate(tenancy, o.spec).Allowed
             \/ Obstacle(c) \notin {None, "SecretConflict"}
             \/ failed)

\* No account is left at any server without a credential that will remove it.
NoOrphanAnywhere ==
  \A url \in Endpoints, u \in Users :
    AccountsAt(url)[u] # None =>
      api[u.credential].obj # Absent /\ api[u.credential].obj.finalizer

\* A credential that reports Ready for its generation has its user at that server.
ReadyIsHonestAt(url) ==
  \A c \in Creds :
    LET o == api[c].obj
    IN  (o # Absent /\ ~o.deleting
           /\ o.status.conds["Ready"] = [reason |-> "Reconciled", gen |-> o.gen]) =>
          /\ AccountsAt(url)[o.status.user] # None
          /\ AccountsAt(url)[o.status.user].roles = o.spec.roles

\* Providers come and go, break and are mended, and none is ever moved to another server.
AllAt(url) == \A p \in Providers : rapi[p].obj # Absent => rapi[p].obj.spec.endpoint = url

EndpointsKept(url) == []AllAt(url)
=============================================================================
