------------------------ MODULE ReferenceControllers ------------------------
(***************************************************************************)
(* internal/controller/surrealdbprovider_controller.go and                 *)
(* surrealdbtenantpolicy_controller.go: two controllers that only check    *)
(* references and report Ready.  Each has a queue and one worker; both     *)
(* read the same informer cache.                                           *)
(*                                                                         *)
(* A reconcile reads everything it needs, then updates the status: two     *)
(* steps, between which edits, watch events and the other worker may come. *)
(* What a status reports is the reason of its Ready condition and the      *)
(* generation that was observed.                                           *)
(***************************************************************************)
EXTENDS ApiServer

CONSTANTS
  None,
  Providers,       \* names of SurrealDBProviders
  TenantPolicies,  \* names of SurrealDBTenantPolicies
  SecretNames,     \* names of the Secrets providers refer to
  ProviderSpecs,   \* the provider specs platform teams write
  SecretData,      \* the usable contents Secrets get: sets of ContentKinds
  MaxEdits,        \* bound: edits platform teams make
  MaxFaults        \* bound: failed status updates and restarts

VARIABLES
  queue,           \* keys waiting for the worker of their kind
  call,            \* call[k]: the version read and the reason found, or None
  edits, faults    \* what has been used of the bounds

vars == <<api, cache, pending, queue, call, edits, faults>>

ASSUME ReferencesAssumption ==
  /\ Providers \cap TenantPolicies = {}
  /\ SecretNames \cap (Providers \cup TenantPolicies) = {}
  /\ MaxEdits \in Nat /\ MaxFaults \in Nat

Reconciled == Providers \cup TenantPolicies
Keys == Reconciled \cup SecretNames

\* What validation looks for in a Secret: non-empty username and password
\* keys, PEM certificates, a matching certificate and key.
ContentKinds == {"username", "password", "ca", "pair"}

\* Secrets and keys of a reference are one name; insecureSkipVerify changes
\* nothing that is modelled, beyond making a config of its own.
ProviderTLSConfig == [ca : SecretNames \cup {None}, cert : SecretNames \cup {None}]

ProviderSpec ==
  [endpoint : {"ws", "wss", "unparsable"}, root : SecretNames,
   tls : ProviderTLSConfig \cup {None}]

ASSUME SpecsAssumption == ProviderSpecs \subseteq ProviderSpec

Unreported == [reason |-> None, gen |-> 0]

-----------------------------------------------------------------------------
(* Validation, of a provider spec against the Secrets view shows. *)

\* A referenced Secret is there with the contents asked for.
Provides(view, ref, contents) ==
  view[ref].obj # Absent /\ contents \subseteq view[ref].obj

LoadTLSConfig(view, cfg) ==
  cfg # None =>
    /\ cfg.ca # None => Provides(view, cfg.ca, {"ca"})
    /\ cfg.cert # None => Provides(view, cfg.cert, {"pair"})

\* An endpoint is the scheme it has, if it parses at all.
ParseEndpointURL(endpoint) == endpoint \in {"ws", "wss"}

validateProvider(view, spec) ==
  /\ ParseEndpointURL(spec.endpoint)
  /\ Provides(view, spec.root, {"username", "password"})
  /\ LoadTLSConfig(view, spec.tls)

\* The verdicts of the two controllers.
ProviderVerdict(view, p) ==
  IF validateProvider(view, view[p].obj.spec) THEN "Available" ELSE "ProviderSecretInvalid"

\* Mutant: a missing provider is not noticed.
PolicyVerdictAvailable(view, t) == "Available"

PolicyVerdict(view, t) ==
  IF view[view[t].obj.providerRef].obj # Absent THEN "Available" ELSE "ProviderNotFound"

Verdict(view, k) ==
  [reason |-> IF k \in Providers THEN ProviderVerdict(view, k) ELSE PolicyVerdict(view, k),
   gen    |-> view[k].obj.gen]

\* Mutant: only the root Secret counts as referenced.
referencedRootOnly(spec) == {spec.root}

\* Every Secret validation reads.
referencedSecrets(spec) ==
  {spec.root} \cup (IF spec.tls = None THEN {} ELSE {spec.tls.ca, spec.tls.cert} \ {None})

\* Mutant: the request names the Secret.
requestsForSecret(s) == {s}

\* The providers to requeue for a Secret, among those in the cache.
providersForSecret(s) ==
  {p \in Providers : cache[p].obj # Absent /\ s \in referencedSecrets(cache[p].obj.spec)}

-----------------------------------------------------------------------------
(* The workers: one for providers, one for policies *)

SameKind(k) == IF k \in Providers THEN Providers ELSE TenantPolicies

\* Reconcile up to the status update.
Begin(k) ==
  /\ k \in queue
  /\ \A j \in SameKind(k) : call[j] = None
  /\ queue' = queue \ {k}
  /\ call' = [call EXCEPT ![k] = IF cache[k].obj = Absent THEN None
                                 ELSE [read |-> cache[k], verdict |-> Verdict(cache, k)]]
  /\ UNCHANGED <<store, edits, faults>>

\* An error of the update puts the key back.
UpdateStatus(k, failed) ==
  LET accepted == AcceptsUpdate(k, call[k].read.rv)
  IN  /\ call[k] # None
      /\ failed => accepted /\ faults < MaxFaults
      /\ faults' = IF failed THEN faults + 1 ELSE faults
      /\ IF accepted /\ ~failed
         THEN Commit(k, [call[k].read.obj EXCEPT !.status = call[k].verdict])
         ELSE UNCHANGED store
      /\ queue' = IF ~accepted \/ failed THEN queue \cup {k} ELSE queue
      /\ call' = [call EXCEPT ![k] = None]
      /\ UNCHANGED edits

-----------------------------------------------------------------------------
(* The cluster *)

Edit(k, o) ==
  /\ edits < MaxEdits
  /\ edits' = edits + 1
  /\ Commit(k, o)
  /\ UNCHANGED <<queue, call, faults>>

PutProvider(p) ==
  \E spec \in ProviderSpecs :
    IF api[p].obj = Absent
    THEN Edit(p, [gen |-> 1, spec |-> spec, status |-> Unreported])
    ELSE /\ spec # api[p].obj.spec
         /\ Edit(p, [api[p].obj EXCEPT !.spec = spec, !.gen = @ + 1])

CreatePolicy(t) ==
  /\ api[t].obj = Absent
  /\ \E p \in Providers :
       Edit(t, [gen |-> 1, providerRef |-> p, status |-> Unreported])

PutSecret(s) == \E data \in SecretData \ {api[s].obj} : Edit(s, data)

DeleteObject(k) == api[k].obj # Absent /\ Edit(k, Absent)

\* For and Watches: a provider or policy enqueues itself, a Secret the
\* providers that refer to it.  The policy controller does not watch providers.
WatchEvent(k) ==
  /\ Deliver(k)
  /\ queue' = queue \cup (IF k \in Reconciled THEN {k} ELSE providersForSecret(k))
  /\ UNCHANGED <<call, edits, faults>>

Resync(k) ==
  /\ k \notin queue
  /\ cache[k].obj # Absent
  /\ queue' = queue \cup {k}
  /\ UNCHANGED <<store, call, edits, faults>>

Restart ==
  /\ faults < MaxFaults
  /\ faults' = faults + 1
  /\ Relist
  /\ call' = [k \in Reconciled |-> None]
  /\ queue' = {k \in Reconciled : api[k].obj # Absent}
  /\ UNCHANGED edits

Init ==
  /\ api = [k \in Keys |-> [rv |-> 0, obj |-> Absent]]
  /\ cache = api
  /\ pending = [k \in Keys |-> {}]
  /\ queue = {}
  /\ call = [k \in Reconciled |-> None]
  /\ edits = 0 /\ faults = 0

Work(k) == Begin(k) \/ \E failed \in BOOLEAN : UpdateStatus(k, failed)

Next ==
  \/ \E k \in Reconciled : Work(k) \/ Resync(k)
  \/ \E p \in Providers : PutProvider(p)
  \/ \E t \in TenantPolicies : CreatePolicy(t)
  \/ \E s \in SecretNames : PutSecret(s)
  \/ \E k \in Keys : DeleteObject(k) \/ WatchEvent(k)
  \/ Restart

Spec == Init /\ [][Next]_vars

\* The queues are first in, first out and the watches deliver.  Nothing is
\* assumed of the resync, which takes hours.
FairSpec ==
  /\ Spec
  /\ \A k \in Reconciled : /\ SF_vars(Begin(k))
                           /\ WF_vars(\E failed \in BOOLEAN : UpdateStatus(k, failed))
  /\ \A k \in Keys : WF_vars(WatchEvent(k))

\* In the long run the informers resync.  Only the policies are given that:
\* providers have to do with their watches.
ResyncSpec == FairSpec /\ \A t \in TenantPolicies : WF_vars(Resync(t))

-----------------------------------------------------------------------------
(* Properties *)

\* What a provider or policy may report.
Reports ==
  [reason : {None, "Available", "ProviderSecretInvalid", "ProviderNotFound"}, gen : Nat]

Provider == [gen : Nat, spec : ProviderSpec, status : Reports]

TenantPolicy == [gen : Nat, providerRef : Providers, status : Reports]

Version(S) == [rv : Nat, obj : S \cup {Absent}]

ObjectsOf(k) ==
  IF k \in Providers THEN Provider
  ELSE IF k \in TenantPolicies THEN TenantPolicy
  ELSE SUBSET ContentKinds

Call(S) == [read : [rv : Nat, obj : S], verdict : Reports]

\* Secrets have contents that validation looks for, and no marker is a name, a
\* provider or a call.
ASSUME ContentsAssumption ==
  /\ SecretData \subseteq SUBSET ContentKinds
  /\ None \notin SecretNames /\ None \notin Call(Provider)
  /\ Absent \notin Provider

IsOver(f, S) == f = [x \in S |-> f[x]]

\* Every variable has its type, and a call holds a version it has read.
TypeOK ==
  /\ IsOver(api, Keys) /\ IsOver(cache, Keys) /\ IsOver(pending, Keys)
  /\ \A k \in Keys : Versions(k) \subseteq Version(ObjectsOf(k))
  /\ queue \subseteq Reconciled
  /\ IsOver(call, Reconciled)
  /\ \A k \in Reconciled : call[k] \in Call(ObjectsOf(k)) \cup {None}
  /\ edits \in 0..MaxEdits /\ faults \in 0..MaxFaults

\* The Secrets a provider needs, and what it needs in them.
Needs(spec) ==
  ({<<spec.root, "username">>, <<spec.root, "password">>} \cup
     IF spec.tls = None THEN {} ELSE {<<spec.tls.ca, "ca">>, <<spec.tls.cert, "pair">>})
  \ ({None} \X ContentKinds)

\* What the committed objects say about a provider's and a policy's references.
ReferencesValid(k) ==
  IF k \in Providers
  THEN /\ api[k].obj.spec.endpoint \in {"ws", "wss"}
       /\ \A n \in Needs(api[k].obj.spec) : api[n[1]].obj # Absent /\ n[2] \in api[n[1]].obj
  ELSE api[api[k].obj.providerRef].obj # Absent

\* The status says so, for the current generation.
Truthful(k) ==
  LET o == api[k].obj
  IN  o # Absent => /\ o.status.gen = o.gen
                    /\ (o.status.reason = "Available") <=> ReferencesValid(k)

\* No event of the provider or of a Secret it refers to is on its way, and its
\* worker has nothing to do for it.
Quiet(p) ==
  /\ p \notin queue /\ call[p] = None
  /\ pending[p] = {}
  /\ \A n \in Needs(api[p].obj.spec) : pending[n[1]] = {}

\* A provider is never forgotten: one that nothing is about to wake reports the
\* truth about its references as they are committed.  Every change that makes
\* its status wrong leaves an event behind that requeues it, also one that
\* comes between the reads of a reconcile and its status update
\* (providersForSecret and SetupWithManager, provider_controller 124-150).
NothingForgotten ==
  \A p \in Providers : api[p].obj # Absent /\ Quiet(p) => Truthful(p)

\* The watch has still to deliver what is newer than the cache, the committed
\* version last.
Delivering(k) ==
  /\ api[k] \in {cache[k]} \cup pending[k]
  /\ \A v \in pending[k] : cache[k].rv < v.rv /\ v.rv <= api[k].rv
  /\ \A v, w \in pending[k] : v.rv = w.rv => v = w

\* A provider that is not queued has the verdict of what the cache shows: in
\* the call that is about to write it, or in its status.
UpToDate(p) ==
  p \notin queue =>
    /\ call[p] # None =>
         call[p].read = cache[p] /\ call[p].verdict = Verdict(cache, p)
    /\ (call[p] = None /\ pending[p] = {} /\ cache[p].obj # Absent) =>
         cache[p].obj.status = Verdict(cache, p)

\* What is inductive, beside TypeOK, and makes NothingForgotten true.
Wakefulness ==
  /\ \A k \in Keys : Delivering(k)
  /\ \A p \in Providers : UpToDate(p)

\* In the end every provider reports whether its references are valid now: a
\* Secret that appears, changes or goes reaches the provider through the watch
\* alone, however provider and Secret events interleave with a reconcile in
\* progress (provider_controller 107-150).
ProvidersTruthful == \A p \in Providers : <>[]Truthful(p)

\* In the end every tenant policy reports whether its provider exists.
PoliciesTruthful == \A t \in TenantPolicies : <>[]Truthful(t)

=============================================================================
