-------------------------- MODULE ReferenceProofs --------------------------
(***************************************************************************)
(* Proofs about the provider and policy controllers, for every set of      *)
(* providers, policies, Secrets, specs and contents and for every value of *)
(* the bounds.                                                             *)
(***************************************************************************)
EXTENDS ReferenceControllers, TLAPS

-----------------------------------------------------------------------------
(* Keys and versions *)

\* What a key holds, by the kind of the key.
LEMMA KeyKinds ==
  /\ \A p \in Providers : p \in Reconciled /\ p \in Keys /\ ObjectsOf(p) = Provider
  /\ \A t \in TenantPolicies : t \in Reconciled /\ t \in Keys /\ ObjectsOf(t) = TenantPolicy
  /\ \A s \in SecretNames : s \in Keys /\ s \notin Reconciled
                            /\ ObjectsOf(s) = SUBSET ContentKinds
  /\ Reconciled \subseteq Keys
BY ReferencesAssumption DEF Keys, Reconciled, ObjectsOf

\* The store is typed; the part of TypeOK that the informers keep.
TypedStore ==
  /\ IsOver(api, Keys) /\ IsOver(cache, Keys) /\ IsOver(pending, Keys)
  /\ \A k \in Keys : Versions(k) \subseteq Version(ObjectsOf(k))

\* The workers' part of TypeOK.
TypedWork ==
  /\ queue \subseteq Reconciled
  /\ IsOver(call, Reconciled)
  /\ \A k \in Reconciled : call[k] \in Call(ObjectsOf(k)) \cup {None}

\* The versions of a key are versions of its kind of object.
LEMMA StoreAt ==
  ASSUME TypedStore, NEW k \in Keys
  PROVE  /\ api[k] \in Version(ObjectsOf(k))
         /\ cache[k] \in Version(ObjectsOf(k))
         /\ pending[k] \subseteq Version(ObjectsOf(k))
BY DEF TypedStore, Versions

\* A resource version is a number.
LEMMA Numbered ==
  ASSUME NEW S, NEW v \in Version(S)
  PROVE  v.rv \in Nat /\ v.obj \in S \cup {Absent}
BY DEF Version

-----------------------------------------------------------------------------
(* The store: commits, deliveries and relists *)

\* A commit leaves the other keys alone; its key gets a newer version, or
\* holds the object already.
CommitAt(k, o) ==
  /\ cache' = cache
  /\ IsOver(api', Keys) /\ IsOver(pending', Keys)
  /\ \A j \in Keys \ {k} : api'[j] = api[j] /\ pending'[j] = pending[j]
  /\ \/ o = api[k].obj /\ api'[k] = api[k] /\ pending'[k] = pending[k]
     \/ /\ api'[k] = [rv |-> api[k].rv + 1, obj |-> o]
        /\ pending'[k] = pending[k] \cup {api'[k]}

\* This is what Commit does.
LEMMA CommitIs ==
  ASSUME TypedStore, NEW k \in Keys, NEW o, Commit(k, o)
  PROVE  CommitAt(k, o)
<1> DEFINE v == [rv |-> api[k].rv + 1, obj |-> o]
<1>1. CASE o = api[k].obj
  BY <1>1 DEF Commit, CommitAt, TypedStore, IsOver
<1>2. CASE o # api[k].obj
  <2>1. /\ api' = [api EXCEPT ![k] = v]
        /\ pending' = [pending EXCEPT ![k] = @ \cup {v}]
        /\ cache' = cache
    BY <1>2 DEF Commit
  <2> HIDE DEF v
  <2>2. DOMAIN api = Keys /\ DOMAIN pending = Keys
    BY DEF TypedStore, IsOver
  <2>3. api'[k] = v /\ pending'[k] = pending[k] \cup {v}
    BY <2>1, <2>2
  <2>4. IsOver(api', Keys) /\ IsOver(pending', Keys)
    BY <2>1, <2>2 DEF IsOver
  <2>5. \A j \in Keys \ {k} : api'[j] = api[j] /\ pending'[j] = pending[j]
    BY <2>1, <2>2
  <2> QED BY <2>1, <2>3, <2>4, <2>5 DEF CommitAt, v
<1> QED BY <1>1, <1>2

\* A commit of an object of the key's kind keeps the store typed.
LEMMA CommitTyped ==
  ASSUME TypedStore, NEW k \in Keys, NEW o \in ObjectsOf(k) \cup {Absent}, Commit(k, o)
  PROVE  TypedStore'
<1>1. CommitAt(k, o)
  BY CommitIs
<1>2. IsOver(api', Keys) /\ IsOver(cache', Keys) /\ IsOver(pending', Keys)
  BY <1>1 DEF CommitAt, TypedStore
<1>3. ASSUME NEW j \in Keys
      PROVE  Versions(j)' \subseteq Version(ObjectsOf(j))
  <2>1. CASE j # k
    BY <1>1, <2>1, StoreAt DEF CommitAt, Versions
  <2>2. CASE j = k
    <3>1. api'[k] \in Version(ObjectsOf(k))
      <4>1. api[k].rv + 1 \in Nat
        BY StoreAt, Numbered
      <4>2. [rv |-> api[k].rv + 1, obj |-> o] \in Version(ObjectsOf(k))
        BY <4>1 DEF Version
      <4> QED BY <1>1, <4>2, StoreAt DEF CommitAt
    <3> QED BY <1>1, <2>2, <3>1, StoreAt DEF CommitAt, Versions
  <2> QED BY <2>1, <2>2
<1> QED BY <1>2, <1>3 DEF TypedStore

\* A delivery moves the oldest version of k from the watch to the cache.
DeliverAt(k) ==
  /\ api' = api
  /\ IsOver(cache', Keys) /\ IsOver(pending', Keys)
  /\ \A j \in Keys \ {k} : cache'[j] = cache[j] /\ pending'[j] = pending[j]
  /\ cache'[k] \in pending[k]
  /\ \A w \in pending[k] : cache'[k].rv <= w.rv
  /\ pending'[k] = pending[k] \ {cache'[k]}

\* This is what Deliver does.
LEMMA DeliverIs ==
  ASSUME TypedStore, NEW k \in Keys, Deliver(k)
  PROVE  DeliverAt(k)
<1>1. DOMAIN cache = Keys /\ DOMAIN pending = Keys
  BY DEF TypedStore, IsOver
<1>2. PICK v \in pending[k] :
        /\ \A w \in pending[k] : v.rv <= w.rv
        /\ cache' = [cache EXCEPT ![k] = v]
        /\ pending' = [pending EXCEPT ![k] = @ \ {v}]
        /\ UNCHANGED api
  BY DEF Deliver
<1>3. cache'[k] = v /\ pending'[k] = pending[k] \ {v}
  BY <1>1, <1>2
<1>4. \A j \in Keys \ {k} : cache'[j] = cache[j] /\ pending'[j] = pending[j]
  BY <1>1, <1>2
<1>5. IsOver(cache', Keys) /\ IsOver(pending', Keys)
  BY <1>1, <1>2 DEF IsOver
<1> QED BY <1>2, <1>3, <1>4, <1>5 DEF DeliverAt

\* Deliveries and relists move versions about and make none.
LEMMA DeliverTyped ==
  ASSUME TypedStore, NEW k \in Keys, Deliver(k)
  PROVE  TypedStore'
<1>1. DeliverAt(k)
  BY DeliverIs
<1>2. ASSUME NEW j \in Keys
      PROVE  Versions(j)' \subseteq Versions(j)
  <2>1. CASE j = k
    BY <1>1, <2>1 DEF DeliverAt, Versions
  <2>2. CASE j # k
    BY <1>1, <2>2 DEF DeliverAt, Versions
  <2> QED BY <2>1, <2>2
<1> QED BY <1>1, <1>2 DEF DeliverAt, TypedStore

\* A relist keeps the store typed and leaves nothing to deliver.
LEMMA RelistTyped ==
  ASSUME TypedStore, Relist
  PROVE  /\ TypedStore'
         /\ api' = api /\ cache' = api
         /\ \A k \in Keys : pending'[k] = {}
<1>1. api' = api /\ cache' = api /\ pending' = [k \in Keys |-> {}]
  BY DEF Relist, TypedStore, IsOver
<1>2. IsOver(api', Keys) /\ IsOver(cache', Keys) /\ IsOver(pending', Keys)
  BY <1>1 DEF TypedStore, IsOver
<1>3. \A k \in Keys : Versions(k)' \subseteq Versions(k)
  BY <1>1 DEF Versions
<1> QED BY <1>1, <1>2, <1>3 DEF TypedStore

-----------------------------------------------------------------------------
(* Delivery: the committed version is the last that the watch delivers. *)

\* A commit is announced, and newer than all that is on its way.
LEMMA DeliveringCommit ==
  ASSUME TypedStore, NEW k \in Keys, NEW o, Commit(k, o), NEW j \in Keys, Delivering(j)
  PROVE  Delivering(j)'
<1>1. CommitAt(k, o)
  BY CommitIs
<1>2. CASE j # k \/ (api'[k] = api[k] /\ pending'[k] = pending[k])
  BY <1>1, <1>2 DEF CommitAt, Delivering
<1>3. CASE j = k /\ api'[k] = [rv |-> api[k].rv + 1, obj |-> o]
                 /\ pending'[k] = pending[k] \cup {api'[k]}
  <2>1. api[k].rv \in Nat /\ cache[k].rv \in Nat /\ \A v \in pending[k] : v.rv \in Nat
    BY StoreAt, Numbered
  <2>2. api'[k].rv = api[k].rv + 1
    BY <1>3
  <2>3. cache[k].rv <= api[k].rv
    BY <1>3, <2>1 DEF Delivering
  <2>4. cache'[k] = cache[k]
    BY <1>1 DEF CommitAt
  <2>5. \A v \in pending[k] : cache[k].rv < v.rv /\ v.rv <= api[k].rv
    BY <1>3 DEF Delivering
  <2>6. \A v \in pending'[k] : cache'[k].rv < v.rv /\ v.rv <= api'[k].rv
    BY <1>3, <2>1, <2>2, <2>3, <2>4, <2>5
  <2>7. \A v \in pending[k] : v.rv # api'[k].rv
    BY <2>1, <2>2, <2>5
  <2>8. \A v, w \in pending'[k] : v.rv = w.rv => v = w
    BY <1>3, <2>7 DEF Delivering
  <2> QED BY <1>3, <2>6, <2>8 DEF Delivering
<1> QED BY <1>1, <1>2, <1>3 DEF CommitAt

\* After a delivery the rest is still newer, and holds the committed version.
LEMMA DeliveringDeliver ==
  ASSUME TypedStore, NEW k \in Keys, Deliver(k), NEW j \in Keys, Delivering(j)
  PROVE  Delivering(j)'
<1>1. DeliverAt(k)
  BY DeliverIs
<1>2. CASE j # k
  BY <1>1, <1>2 DEF DeliverAt, Delivering
<1>3. CASE j = k
  <2>1. api[k].rv \in Nat /\ cache[k].rv \in Nat /\ \A v \in pending[k] : v.rv \in Nat
    BY StoreAt, Numbered
  <2>2. \A v \in pending[k] : cache[k].rv < v.rv /\ v.rv <= api[k].rv
    BY <1>3 DEF Delivering
  <2>3. /\ cache'[k] \in pending[k] /\ pending'[k] = pending[k] \ {cache'[k]}
        /\ api'[k] = api[k] /\ \A w \in pending[k] : cache'[k].rv <= w.rv
    BY <1>1 DEF DeliverAt
  <2>4. api[k] \in pending[k]
    BY <1>3, <2>1, <2>2, <2>3 DEF Delivering
  <2>5. \A v \in pending'[k] : cache'[k].rv < v.rv
    BY <1>3, <2>1, <2>3 DEF Delivering
  <2> QED BY <1>3, <2>2, <2>3, <2>4, <2>5 DEF Delivering
<1> QED BY <1>2, <1>3

\* A relist leaves nothing to deliver.
LEMMA DeliveringRelist ==
  ASSUME TypedStore, Relist, NEW j \in Keys
  PROVE  Delivering(j)'
BY RelistTyped DEF Delivering

\* What is not on its way is there.
LEMMA NothingPending ==
  ASSUME NEW k, Delivering(k), pending[k] = {}
  PROVE  cache[k] = api[k]
BY DEF Delivering

-----------------------------------------------------------------------------
(* Objects and verdicts *)

\* The specs of a provider: its fields and those of its TLS config.
LEMMA SpecFields ==
  ASSUME NEW spec \in ProviderSpec
  PROVE  /\ spec.root \in SecretNames
         /\ spec.tls # None => /\ spec.tls.ca \in SecretNames \cup {None}
                               /\ spec.tls.cert \in SecretNames \cup {None}
BY DEF ProviderSpec, ProviderTLSConfig

\* A provider's fields.
LEMMA ProviderFields ==
  ASSUME NEW o \in Provider
  PROVE  o.gen \in Nat /\ o.spec \in ProviderSpec /\ o.status \in Reports
BY DEF Provider

\* referencedSecrets names every Secret that validation reads, no other, and
\* nothing but Secrets.
LEMMA ReferencesAreNeeds ==
  ASSUME NEW spec \in ProviderSpec
  PROVE  /\ referencedSecrets(spec) = {n[1] : n \in Needs(spec)}
         /\ referencedSecrets(spec) \subseteq SecretNames
<1>1. None \notin SecretNames
  BY ContentsAssumption
<1>2. referencedSecrets(spec) \subseteq SecretNames
  BY SpecFields DEF referencedSecrets
<1>3. CASE spec.tls = None
  <2>1. Needs(spec) = {<<spec.root, "username">>, <<spec.root, "password">>}
    BY <1>1, <1>3, SpecFields DEF Needs, ContentKinds
  <2>2. referencedSecrets(spec) = {spec.root}
    BY <1>3 DEF referencedSecrets
  <2> QED BY <1>2, <2>1, <2>2
<1>4. CASE spec.tls # None
  <2>1. \A n : n \in Needs(spec) <=>
                 \/ n = <<spec.root, "username">> \/ n = <<spec.root, "password">>
                 \/ n = <<spec.tls.ca, "ca">> /\ spec.tls.ca # None
                 \/ n = <<spec.tls.cert, "pair">> /\ spec.tls.cert # None
    BY <1>1, <1>4, SpecFields DEF Needs, ContentKinds
  <2>2. referencedSecrets(spec) = {spec.root} \cup ({spec.tls.ca, spec.tls.cert} \ {None})
    BY <1>4 DEF referencedSecrets
  <2>3. ASSUME NEW n \in Needs(spec)
        PROVE  n[1] \in referencedSecrets(spec)
    BY <2>1, <2>2
  <2>4. ASSUME NEW s \in referencedSecrets(spec)
        PROVE  \E n \in Needs(spec) : n[1] = s
    <3>1. CASE s = spec.root
      <4>1. <<spec.root, "username">> \in Needs(spec)
        BY <2>1
      <4> QED BY <3>1, <4>1
    <3>2. CASE s = spec.tls.ca /\ s # None
      <4>1. <<spec.tls.ca, "ca">> \in Needs(spec)
        BY <2>1, <3>2
      <4> QED BY <3>2, <4>1
    <3>3. CASE s = spec.tls.cert /\ s # None
      <4>1. <<spec.tls.cert, "pair">> \in Needs(spec)
        BY <2>1, <3>3
      <4> QED BY <3>3, <4>1
    <3> QED BY <2>2, <2>4, <3>1, <3>2, <3>3
  <2> QED BY <1>2, <2>3, <2>4
<1> QED BY <1>3, <1>4

\* A provider's references are valid as committed just when its validation
\* succeeds on the committed objects.
LEMMA ValidationIsExact ==
  ASSUME NEW p \in Providers, api[p].obj \in Provider
  PROVE  validateProvider(api, api[p].obj.spec) <=> ReferencesValid(p)
<1> DEFINE spec == api[p].obj.spec
           has(n) == api[n[1]].obj # Absent /\ n[2] \in api[n[1]].obj
<1>1. spec \in ProviderSpec
  BY ProviderFields
<1>2. None \notin SecretNames
  BY ContentsAssumption
<1>3. ReferencesValid(p) <=>
        spec.endpoint \in {"ws", "wss"} /\ \A n \in Needs(spec) : has(n)
  BY DEF ReferencesValid
<1>4. has(<<spec.root, "username">>) /\ has(<<spec.root, "password">>) <=>
        Provides(api, spec.root, {"username", "password"})
  BY DEF Provides
<1>5. (spec.tls # None /\ spec.tls.ca # None => has(<<spec.tls.ca, "ca">>)) <=>
        (spec.tls # None /\ spec.tls.ca # None => Provides(api, spec.tls.ca, {"ca"}))
  BY DEF Provides
<1>6. (spec.tls # None /\ spec.tls.cert # None => has(<<spec.tls.cert, "pair">>)) <=>
        (spec.tls # None /\ spec.tls.cert # None => Provides(api, spec.tls.cert, {"pair"}))
  BY DEF Provides
<1>7. \A n : n \in Needs(spec) <=>
               \/ n = <<spec.root, "username">> \/ n = <<spec.root, "password">>
               \/ n = <<spec.tls.ca, "ca">> /\ spec.tls # None /\ spec.tls.ca # None
               \/ n = <<spec.tls.cert, "pair">> /\ spec.tls # None /\ spec.tls.cert # None
  <2> HIDE DEF spec
  <2>1. CASE spec.tls = None
    BY <1>1, <1>2, <2>1, SpecFields DEF Needs, ContentKinds
  <2>2. CASE spec.tls # None
    BY <1>1, <1>2, <2>2, SpecFields DEF Needs, ContentKinds
  <2> QED BY <2>1, <2>2
<1>8. (\A n \in Needs(spec) : has(n)) <=>
        /\ has(<<spec.root, "username">>) /\ has(<<spec.root, "password">>)
        /\ spec.tls # None /\ spec.tls.ca # None => has(<<spec.tls.ca, "ca">>)
        /\ spec.tls # None /\ spec.tls.cert # None => has(<<spec.tls.cert, "pair">>)
  <2> HIDE DEF spec, has
  <2> QED BY <1>7
<1>9. validateProvider(api, spec) <=>
        /\ spec.endpoint \in {"ws", "wss"}
        /\ Provides(api, spec.root, {"username", "password"})
        /\ spec.tls # None /\ spec.tls.ca # None => Provides(api, spec.tls.ca, {"ca"})
        /\ spec.tls # None /\ spec.tls.cert # None => Provides(api, spec.tls.cert, {"pair"})
  BY DEF validateProvider, LoadTLSConfig, ParseEndpointURL
<1> HIDE DEF has, spec
<1> QED BY <1>3, <1>4, <1>5, <1>6, <1>8, <1>9 DEF spec

\* The verdict on a provider depends on the provider and the Secrets it refers
\* to, and on nothing else that the view shows.
LEMMA VerdictIsLocal ==
  ASSUME NEW p \in Providers, NEW u, NEW v, u[p].obj \in Provider, v[p] = u[p],
         \A s \in referencedSecrets(u[p].obj.spec) : v[s] = u[s]
  PROVE  Verdict(v, p) = Verdict(u, p)
<1> DEFINE spec == u[p].obj.spec
<1>1. spec.root \in referencedSecrets(spec)
  BY DEF referencedSecrets
<1>2. spec.tls # None /\ spec.tls.ca # None => spec.tls.ca \in referencedSecrets(spec)
  BY DEF referencedSecrets
<1>3. spec.tls # None /\ spec.tls.cert # None => spec.tls.cert \in referencedSecrets(spec)
  BY DEF referencedSecrets
<1>4. validateProvider(v, spec) <=> validateProvider(u, spec)
  <2> HIDE DEF spec
  <2> QED BY <1>1, <1>2, <1>3 DEF spec, validateProvider, Provides, LoadTLSConfig
<1> QED BY <1>4 DEF Verdict, ProviderVerdict

\* A verdict is something that may be reported.
LEMMA VerdictTyped ==
  ASSUME TypedStore, NEW k \in Reconciled, cache[k].obj # Absent
  PROVE  /\ Verdict(cache, k) \in Reports
         /\ [read |-> cache[k], verdict |-> Verdict(cache, k)] \in Call(ObjectsOf(k))
<1>1. k \in Keys /\ cache[k].obj \in ObjectsOf(k) /\ cache[k] \in [rv : Nat, obj : ObjectsOf(k)]
  BY KeyKinds, StoreAt DEF Version
<1>2. cache[k].obj.gen \in Nat
  <2>1. cache[k].obj \in Provider \/ cache[k].obj \in TenantPolicy
    BY <1>1, KeyKinds DEF Reconciled
  <2>2. CASE cache[k].obj \in Provider
    BY <2>2, ProviderFields
  <2>3. CASE cache[k].obj \in TenantPolicy
    BY <2>3 DEF TenantPolicy
  <2> QED BY <2>1, <2>2, <2>3
<1>3. Verdict(cache, k) \in Reports
  BY <1>2 DEF Verdict, Reports, ProviderVerdict, PolicyVerdict
<1> QED BY <1>1, <1>3 DEF Call

-----------------------------------------------------------------------------
(* The steps *)

\* A step is a worker's, an edit of one key, a watch event, a resync or a
\* restart.
LEMMA StepKinds ==
  ASSUME TypedStore, Next
  PROVE  \/ \E k \in Reconciled : Begin(k)
         \/ \E k \in Reconciled, failed \in BOOLEAN : UpdateStatus(k, failed)
         \/ \E k \in Reconciled : Resync(k)
         \/ \E k \in Keys : \E o \in ObjectsOf(k) \cup {Absent} : Edit(k, o)
         \/ \E k \in Keys : WatchEvent(k)
         \/ Restart
<1>1. ASSUME NEW p \in Providers, PutProvider(p)
      PROVE  \E o \in ObjectsOf(p) \cup {Absent} : Edit(p, o)
  <2>1. PICK spec \in ProviderSpecs :
          IF api[p].obj = Absent
          THEN Edit(p, [gen |-> 1, spec |-> spec, status |-> Unreported])
          ELSE /\ spec # api[p].obj.spec
               /\ Edit(p, [api[p].obj EXCEPT !.spec = spec, !.gen = @ + 1])
    BY <1>1 DEF PutProvider
  <2>2. spec \in ProviderSpec /\ ObjectsOf(p) = Provider /\ p \in Keys
    BY KeyKinds, SpecsAssumption
  <2>3. CASE api[p].obj = Absent
    <3>1. [gen |-> 1, spec |-> spec, status |-> Unreported] \in Provider
      BY <2>2 DEF Provider, Reports, Unreported
    <3> QED BY <2>1, <2>2, <2>3, <3>1
  <2>4. CASE api[p].obj # Absent
    <3>1. api[p].obj \in Provider
      BY <2>2, <2>4, StoreAt DEF Version
    <3> DEFINE o == [api[p].obj EXCEPT !.spec = spec, !.gen = @ + 1]
    <3>2. o \in Provider
      <4>1. PICK gen \in Nat : gen = api[p].obj.gen + 1
        BY <3>1, ProviderFields
      <4>2. \A old \in Provider : [old EXCEPT !.spec = spec, !.gen = gen] \in Provider
        BY <2>2 DEF Provider
      <4> QED BY <3>1, <4>1, <4>2
    <3>3. Edit(p, o)
      BY <2>1, <2>4
    <3> HIDE DEF o
    <3> QED BY <2>2, <3>2, <3>3
  <2> QED BY <2>3, <2>4
<1>2. ASSUME NEW t \in TenantPolicies, CreatePolicy(t)
      PROVE  \E o \in ObjectsOf(t) \cup {Absent} : Edit(t, o)
  <2>1. PICK p \in Providers : Edit(t, [gen |-> 1, providerRef |-> p, status |-> Unreported])
    BY <1>2 DEF CreatePolicy
  <2>2. [gen |-> 1, providerRef |-> p, status |-> Unreported] \in TenantPolicy
    BY DEF TenantPolicy, Reports, Unreported
  <2> QED BY <2>1, <2>2, KeyKinds
<1>3. ASSUME NEW s \in SecretNames, PutSecret(s)
      PROVE  \E o \in ObjectsOf(s) \cup {Absent} : Edit(s, o)
  BY <1>3, KeyKinds, ContentsAssumption DEF PutSecret
<1>4. ASSUME NEW k \in Keys, DeleteObject(k)
      PROVE  \E o \in ObjectsOf(k) \cup {Absent} : Edit(k, o)
  BY <1>4 DEF DeleteObject
<1> QED BY <1>1, <1>2, <1>3, <1>4, KeyKinds DEF Next, Work

\* A status update commits the verdict on the version that was read, or fails
\* and puts the key back.
LEMMA UpdateStatusIs ==
  ASSUME TypeOK, NEW k \in Reconciled, NEW failed \in BOOLEAN, UpdateStatus(k, failed)
  PROVE  /\ call[k] # None
         /\ \/ /\ api[k].rv = call[k].read.rv
               /\ Commit(k, [call[k].read.obj EXCEPT !.status = call[k].verdict])
               /\ queue' = queue
            \/ UNCHANGED store /\ queue' = queue \cup {k}
         /\ call' = [call EXCEPT ![k] = None]
         /\ edits' = edits /\ faults' \in 0..MaxFaults
<1>1. faults' \in 0..MaxFaults
  <2>1. MaxFaults \in Nat /\ faults \in 0..MaxFaults
    BY ReferencesAssumption DEF TypeOK
  <2>2. faults' = faults \/ (faults < MaxFaults /\ faults' = faults + 1)
    BY DEF UpdateStatus
  <2> QED BY <2>1, <2>2
<1> QED BY <1>1 DEF UpdateStatus, AcceptsUpdate

\* The object that a status update commits is of the key's kind.
LEMMA ReportTyped ==
  ASSUME TypedWork, NEW k \in Reconciled, call[k] # None
  PROVE  [call[k].read.obj EXCEPT !.status = call[k].verdict] \in ObjectsOf(k)
<1>1. call[k].read.obj \in ObjectsOf(k) /\ call[k].verdict \in Reports
  BY DEF TypedWork, Call
<1>2. \A o \in Provider, r \in Reports : [o EXCEPT !.status = r] \in Provider
  BY DEF Provider
<1>3. \A o \in TenantPolicy, r \in Reports : [o EXCEPT !.status = r] \in TenantPolicy
  BY DEF TenantPolicy
<1>4. \/ ObjectsOf(k) = Provider
      \/ ObjectsOf(k) = TenantPolicy
  BY KeyKinds DEF Reconciled
<1> QED BY <1>1, <1>2, <1>3, <1>4

\* Ending a call, or beginning one, leaves the calls of other keys alone.
LEMMA CallsTyped ==
  ASSUME TypedWork, NEW k \in Reconciled, NEW c \in Call(ObjectsOf(k)) \cup {None},
         call' = [call EXCEPT ![k] = c]
  PROVE  /\ IsOver(call', Reconciled)
         /\ call'[k] = c /\ \A j \in Reconciled \ {k} : call'[j] = call[j]
         /\ \A j \in Reconciled : call'[j] \in Call(ObjectsOf(j)) \cup {None}
<1>1. DOMAIN call = Reconciled
  BY DEF TypedWork, IsOver
<1>2. call'[k] = c /\ \A j \in Reconciled \ {k} : call'[j] = call[j]
  BY <1>1
<1>3. IsOver(call', Reconciled)
  BY <1>1 DEF IsOver
<1> QED BY <1>2, <1>3 DEF TypedWork

\* Queueing providers for an event keeps the queue typed.
LEMMA QueueTyped ==
  ASSUME TypeOK, NEW k \in Keys, WatchEvent(k)
  PROVE  queue' \subseteq Reconciled
BY DEF TypeOK, WatchEvent, providersForSecret, Reconciled

-----------------------------------------------------------------------------
(* Types *)

LEMMA TypeSplit ==
  TypeOK <=> TypedStore /\ TypedWork /\ edits \in 0..MaxEdits /\ faults \in 0..MaxFaults
BY DEF TypeOK, TypedStore, TypedWork

LEMMA TypeInit == Init => TypeOK
<1> SUFFICES ASSUME Init PROVE TypeOK
  OBVIOUS
<1>1. TypedStore
  <2>1. ASSUME NEW k \in Keys PROVE Versions(k) \subseteq Version(ObjectsOf(k))
    BY DEF Init, Versions, Version
  <2> QED BY <2>1 DEF Init, TypedStore, IsOver
<1>2. TypedWork
  BY DEF Init, TypedWork, IsOver
<1>3. edits \in 0..MaxEdits /\ faults \in 0..MaxFaults
  BY ReferencesAssumption DEF Init
<1> QED BY <1>1, <1>2, <1>3, TypeSplit

\* Every step keeps the types.
LEMMA TypeStep == TypeOK /\ [Next]_vars => TypeOK'
<1> SUFFICES ASSUME TypeOK, [Next]_vars PROVE TypeOK'
  OBVIOUS
<1>0. TypedStore /\ TypedWork /\ edits \in 0..MaxEdits /\ faults \in 0..MaxFaults
  BY TypeSplit
<1>1. ASSUME NEW k \in Reconciled, Begin(k) PROVE TypeOK'
  <2>1. PICK c : /\ c = None \/ (cache[k].obj # Absent
                                  /\ c = [read |-> cache[k], verdict |-> Verdict(cache, k)])
                 /\ call' = [call EXCEPT ![k] = c]
    BY <1>1 DEF Begin
  <2>2. c \in Call(ObjectsOf(k)) \cup {None}
    BY <1>0, <2>1, VerdictTyped
  <2>3. TypedStore' /\ edits' = edits /\ faults' = faults /\ queue' \subseteq Reconciled
    BY <1>0, <1>1 DEF Begin, store, TypedStore, Versions, TypedWork
  <2> QED BY <1>0, <2>1, <2>2, <2>3, CallsTyped, TypeSplit DEF TypedWork, TypeOK, TypedStore
<1>2. ASSUME NEW k \in Reconciled, NEW failed \in BOOLEAN, UpdateStatus(k, failed)
      PROVE  TypeOK'
  <2>1. /\ call[k] # None
        /\ \/ /\ Commit(k, [call[k].read.obj EXCEPT !.status = call[k].verdict])
              /\ queue' = queue
           \/ UNCHANGED store /\ queue' = queue \cup {k}
        /\ call' = [call EXCEPT ![k] = None]
        /\ edits' = edits /\ faults' \in 0..MaxFaults
    BY <1>2, UpdateStatusIs
  <2>2. TypedStore'
    <3>1. CASE Commit(k, [call[k].read.obj EXCEPT !.status = call[k].verdict])
      BY <1>0, <2>1, <3>1, ReportTyped, CommitTyped, KeyKinds
    <3>2. CASE UNCHANGED store
      BY <1>0, <3>2 DEF store, TypedStore, Versions
    <3> QED BY <2>1, <3>1, <3>2
  <2>3. IsOver(call', Reconciled)
        /\ \A j \in Reconciled : call'[j] \in Call(ObjectsOf(j)) \cup {None}
    BY <1>0, <2>1, CallsTyped
  <2>4. queue' \subseteq Reconciled
    BY <1>0, <2>1 DEF TypedWork
  <2> QED BY <1>0, <2>1, <2>2, <2>3, <2>4 DEF TypeOK, TypedStore
<1>3. ASSUME NEW k \in Reconciled, Resync(k) PROVE TypeOK'
  BY <1>0, <1>3 DEF Resync, store, TypeOK, TypedWork, Versions
<1>4. ASSUME NEW k \in Keys, NEW o \in ObjectsOf(k) \cup {Absent}, Edit(k, o) PROVE TypeOK'
  <2>1. TypedStore'
    BY <1>0, <1>4, CommitTyped DEF Edit
  <2>2. edits' \in 0..MaxEdits
    <3>1. MaxEdits \in Nat
      BY ReferencesAssumption
    <3> QED BY <1>0, <1>4, <3>1 DEF Edit
  <2> QED BY <1>0, <1>4, <2>1, <2>2 DEF Edit, TypeOK, TypedStore, TypedWork
<1>5. ASSUME NEW k \in Keys, WatchEvent(k) PROVE TypeOK'
  <2>1. TypedStore'
    BY <1>0, <1>5, DeliverTyped DEF WatchEvent
  <2>2. queue' \subseteq Reconciled
    BY <1>5, QueueTyped
  <2> QED BY <1>0, <1>5, <2>1, <2>2 DEF WatchEvent, TypeOK, TypedStore, TypedWork
<1>6. ASSUME Restart PROVE TypeOK'
  <2>1. TypedStore'
    BY <1>0, <1>6, RelistTyped DEF Restart
  <2>2. faults' \in 0..MaxFaults
    <3>1. MaxFaults \in Nat
      BY ReferencesAssumption
    <3> QED BY <1>0, <1>6, <3>1 DEF Restart
  <2>3. IsOver(call', Reconciled) /\ (\A k \in Reconciled : call'[k] = None)
        /\ queue' \subseteq Reconciled /\ edits' = edits
    BY <1>6 DEF Restart, IsOver
  <2> QED BY <1>0, <2>1, <2>2, <2>3 DEF TypeOK, TypedStore
<1>7. CASE UNCHANGED vars
  BY <1>7 DEF vars, TypeOK, Versions
<1> QED BY <1>0, <1>1, <1>2, <1>3, <1>4, <1>5, <1>6, <1>7, StepKinds

\* Every variable of the two controllers has its type, and a call holds a
\* version of its own kind that was read, with a verdict that may be reported,
\* for every instance of the constants (provider_controller 40-74,
\* tenantpolicy_controller 39-68).
THEOREM TypeCorrect == Spec => []TypeOK
BY TypeInit, TypeStep, PTL DEF Spec

-----------------------------------------------------------------------------
(* Wakefulness.  What makes a status wrong leaves a key in the queue, a      *)
(* version in the watch or a call that knows better.                         *)

LEMMA WakefulInit == Init => Wakefulness
BY KeyKinds DEF Init, Wakefulness, Delivering, UpToDate, Keys, Reconciled

\* Every step keeps the deliveries in order.
LEMMA DeliveringStep ==
  ASSUME TypeOK, [Next]_vars, NEW j \in Keys, Delivering(j)
  PROVE  Delivering(j)'
<1>0. TypedStore /\ TypedWork
  BY TypeSplit
<1>1. ASSUME UNCHANGED store PROVE Delivering(j)'
  BY <1>1 DEF store, Delivering
<1>2. ASSUME NEW k \in Reconciled, NEW failed \in BOOLEAN, UpdateStatus(k, failed)
      PROVE  Delivering(j)'
  <2>1. k \in Keys
    BY KeyKinds
  <2> QED BY <1>0, <1>1, <1>2, <2>1, UpdateStatusIs, DeliveringCommit
<1>3. ASSUME NEW k \in Keys, NEW o \in ObjectsOf(k) \cup {Absent}, Edit(k, o)
      PROVE  Delivering(j)'
  BY <1>0, <1>3, DeliveringCommit DEF Edit
<1>4. ASSUME NEW k \in Keys, WatchEvent(k) PROVE Delivering(j)'
  BY <1>0, <1>4, DeliveringDeliver DEF WatchEvent
<1>5. ASSUME Restart PROVE Delivering(j)'
  BY <1>0, <1>5, DeliveringRelist DEF Restart
<1>6. ASSUME NEW k \in Reconciled, Begin(k) \/ Resync(k) PROVE Delivering(j)'
  BY <1>1, <1>6 DEF Begin, Resync
<1>7. CASE UNCHANGED vars
  BY <1>1, <1>7 DEF vars, store
<1> QED BY <1>0, <1>2, <1>3, <1>4, <1>5, <1>6, <1>7, StepKinds

\* While the cache, the provider's call and its queue entry stay, and the watch
\* delivers nothing of it, what is up to date stays so.
LEMMA UpToDateKept ==
  ASSUME NEW p \in Providers, UpToDate(p),
         cache' = cache, call'[p] = call[p],
         p \in queue => p \in queue', pending'[p] = {} => pending[p] = {}
  PROVE  UpToDate(p)'
BY DEF UpToDate, Verdict, ProviderVerdict, validateProvider, Provides, LoadTLSConfig

\* An event of a Secret wakes every provider whose verdict it may change.
LEMMA UpToDateSecretEvent ==
  ASSUME TypeOK, NEW p \in Providers, UpToDate(p), NEW k \in Keys \ {p}, WatchEvent(k)
  PROVE  UpToDate(p)'
<1>0. TypedStore /\ TypedWork
  BY TypeSplit
<1>1. DeliverAt(k) /\ call' = call /\ queue \subseteq queue'
  BY <1>0, DeliverIs DEF WatchEvent
<1>2. cache'[p] = cache[p] /\ pending'[p] = pending[p]
  BY <1>1, KeyKinds DEF DeliverAt
<1>3. SUFFICES ASSUME p \notin queue', cache[p].obj # Absent
               PROVE  UpToDate(p)'
  <2>1. ASSUME cache[p].obj = Absent, p \notin queue' PROVE UpToDate(p)'
    <3>1. p \notin queue
      BY <1>1, <2>1
    <3>2. call[p] = None
      <4>1. ASSUME call[p] # None PROVE FALSE
        <5>1. call[p].read = cache[p] /\ call[p].read.obj \in Provider
          BY <1>0, <3>1, <4>1, KeyKinds DEF UpToDate, TypedWork, Call
        <5>2. call[p].read.obj = Absent
          BY <2>1, <5>1
        <5> QED BY <5>1, <5>2, ContentsAssumption
      <4> QED BY <4>1
    <3> QED BY <1>1, <1>2, <2>1, <3>2 DEF UpToDate
  <2>2. p \in queue' => UpToDate(p)'
    BY DEF UpToDate
  <2> QED BY <1>3, <2>1, <2>2
<1>4. cache[p].obj \in Provider
  BY <1>0, <1>3, StoreAt, KeyKinds DEF Version
<1>5. referencedSecrets(cache[p].obj.spec) \subseteq SecretNames
  BY <1>4, ProviderFields, ReferencesAreNeeds
<1>6. \A s \in referencedSecrets(cache[p].obj.spec) : cache'[s] = cache[s]
  <2>1. CASE k \in Reconciled
    BY <1>1, <1>5, <2>1, KeyKinds DEF DeliverAt
  <2>2. CASE k \notin Reconciled
    <3>1. queue' = queue \cup {q \in Providers : cache[q].obj # Absent
                                 /\ k \in referencedSecrets(cache[q].obj.spec)}
      BY <2>2 DEF WatchEvent, providersForSecret
    <3>2. k \notin referencedSecrets(cache[p].obj.spec)
      BY <1>3, <3>1
    <3> QED BY <1>1, <1>5, <3>2, KeyKinds DEF DeliverAt
  <2> QED BY <2>1, <2>2
<1>7. Verdict(cache', p) = Verdict(cache, p)
  BY <1>2, <1>4, <1>6, VerdictIsLocal
<1>8. Verdict(cache, p)' = Verdict(cache', p)
  BY DEF Verdict, ProviderVerdict, validateProvider, Provides, LoadTLSConfig
<1> QED BY <1>1, <1>2, <1>3, <1>7, <1>8 DEF UpToDate

\* A status update ends the call: what it commits is on its way, or was there.
LEMMA UpToDateUpdate ==
  ASSUME TypeOK, NEW p \in Providers, UpToDate(p), Delivering(p),
         NEW failed \in BOOLEAN, UpdateStatus(p, failed)
  PROVE  UpToDate(p)'
<1>0. TypedStore /\ TypedWork /\ p \in Reconciled /\ p \in Keys
  BY TypeSplit, KeyKinds
<1> DEFINE o == [call[p].read.obj EXCEPT !.status = call[p].verdict]
<1>1. /\ call[p] # None /\ call'[p] = None
      /\ \/ Commit(p, o) /\ queue' = queue
         \/ p \in queue'
  <2>1. DOMAIN call = Reconciled
    BY <1>0 DEF TypedWork, IsOver
  <2> QED BY <1>0, <2>1, UpdateStatusIs
<1>2. CASE p \in queue'
  BY <1>2 DEF UpToDate
<1>3. CASE p \notin queue'
  <2>1. Commit(p, o) /\ p \notin queue
    BY <1>1, <1>3
  <2>2. call[p].verdict = Verdict(cache, p) /\ call[p].read.obj \in Provider
    BY <1>0, <1>1, <2>1, KeyKinds DEF UpToDate, TypedWork, Call
  <2>3. o.status = Verdict(cache, p)
    BY <2>2 DEF Provider
  <2> HIDE DEF o
  <2>4. CommitAt(p, o)
    BY <1>0, <2>1, CommitIs
  <2>5. CASE pending'[p] # {}
    BY <1>1, <2>5 DEF UpToDate
  <2>6. CASE pending'[p] = {}
    <3>1. o = api[p].obj /\ pending[p] = {} /\ cache'[p] = cache[p]
      BY <2>4, <2>6 DEF CommitAt
    <3>2. cache'[p].obj.status = Verdict(cache, p)
      BY <2>3, <3>1, NothingPending
    <3>3. Verdict(cache, p)' = Verdict(cache, p)
      BY <2>4 DEF CommitAt, Verdict, ProviderVerdict, validateProvider, Provides, LoadTLSConfig
    <3> QED BY <1>1, <3>2, <3>3 DEF UpToDate
  <2> QED BY <2>5, <2>6
<1> QED BY <1>2, <1>3

\* Every step keeps the providers up to date.
LEMMA UpToDateStep ==
  ASSUME TypeOK, [Next]_vars, NEW p \in Providers, UpToDate(p), Delivering(p)
  PROVE  UpToDate(p)'
<1>0. TypedStore /\ TypedWork /\ p \in Reconciled /\ p \in Keys
  BY TypeSplit, KeyKinds
<1>c. DOMAIN call = Reconciled
  BY <1>0 DEF TypedWork, IsOver
<1>1. ASSUME NEW k \in Reconciled, Begin(k) PROVE UpToDate(p)'
  <2>1. CASE k # p
    <3>1. call'[p] = call[p] /\ cache' = cache /\ pending' = pending
      BY <1>0, <1>c, <1>1, <2>1 DEF Begin, store
    <3>2. p \in queue => p \in queue'
      BY <1>1, <2>1 DEF Begin
    <3> QED BY <3>1, <3>2, UpToDateKept
  <2>2. CASE k = p
    <3>1. cache' = cache
      BY <1>1 DEF Begin, store
    <3>2. Verdict(cache, p)' = Verdict(cache, p)
      BY <3>1 DEF Verdict, ProviderVerdict, validateProvider, Provides, LoadTLSConfig
    <3>3. CASE cache[p].obj = Absent
      <4>1. call'[p] = None
        BY <1>0, <1>c, <1>1, <2>2, <3>3 DEF Begin
      <4> QED BY <3>1, <3>3, <4>1 DEF UpToDate
    <3>4. CASE cache[p].obj # Absent
      <4>1. call'[p] = [read |-> cache[p], verdict |-> Verdict(cache, p)]
        BY <1>0, <1>c, <1>1, <2>2, <3>4 DEF Begin
      <4>2. call'[p] \in Call(Provider)
        BY <1>0, <3>4, <4>1, VerdictTyped, KeyKinds
      <4>3. call'[p] # None
        BY <4>2, ContentsAssumption
      <4> QED BY <3>1, <3>2, <4>1, <4>3 DEF UpToDate
    <3> QED BY <3>3, <3>4
  <2> QED BY <2>1, <2>2
<1>2. ASSUME NEW k \in Reconciled, NEW failed \in BOOLEAN, UpdateStatus(k, failed)
      PROVE  UpToDate(p)'
  <2>1. CASE k # p
    <3>1. call'[p] = call[p] /\ queue \subseteq queue'
      BY <1>0, <1>c, <1>2, <2>1, UpdateStatusIs
    <3>2. cache' = cache /\ pending'[p] = pending[p]
      <4>1. CASE UNCHANGED store
        BY <4>1 DEF store
      <4>2. ASSUME NEW o, Commit(k, o) PROVE cache' = cache /\ pending'[p] = pending[p]
        <5>1. k \in Keys /\ p \in Keys \ {k}
          BY <1>0, <2>1, KeyKinds
        <5>2. CommitAt(k, o)
          BY <1>0, <4>2, <5>1, CommitIs
        <5> QED BY <5>1, <5>2 DEF CommitAt
      <4> QED BY <1>2, <4>1, <4>2, UpdateStatusIs
    <3> QED BY <3>1, <3>2, UpToDateKept
  <2>2. CASE k = p
    BY <1>2, <2>2, UpToDateUpdate
  <2> QED BY <2>1, <2>2
<1>3. ASSUME NEW k \in Reconciled, Resync(k) PROVE UpToDate(p)'
  <2>1. cache' = cache /\ pending' = pending /\ call' = call /\ queue \subseteq queue'
    BY <1>3 DEF Resync, store
  <2> QED BY <2>1, UpToDateKept
<1>4. ASSUME NEW k \in Keys, NEW o \in ObjectsOf(k) \cup {Absent}, Edit(k, o)
      PROVE  UpToDate(p)'
  <2>1. CommitAt(k, o) /\ call' = call /\ queue' = queue
    BY <1>0, <1>4, CommitIs DEF Edit
  <2>2. cache' = cache /\ (pending'[p] = {} => pending[p] = {})
    BY <1>0, <2>1 DEF CommitAt
  <2> QED BY <2>1, <2>2, UpToDateKept
<1>5. ASSUME NEW k \in Keys, WatchEvent(k) PROVE UpToDate(p)'
  <2>1. CASE k = p
    BY <1>0, <1>5, <2>1 DEF WatchEvent, UpToDate
  <2>2. CASE k # p
    BY <1>5, <2>2, UpToDateSecretEvent
  <2> QED BY <2>1, <2>2
<1>6. ASSUME Restart PROVE UpToDate(p)'
  <2>1. cache' = api /\ call'[p] = None /\ queue' = {k \in Reconciled : api[k].obj # Absent}
    BY <1>0, <1>6, RelistTyped DEF Restart
  <2> QED BY <1>0, <2>1 DEF UpToDate
<1>7. CASE UNCHANGED vars
  BY <1>7, UpToDateKept DEF vars
<1> QED BY <1>0, <1>1, <1>2, <1>3, <1>4, <1>5, <1>6, <1>7, StepKinds

LEMMA WakefulStep == TypeOK /\ Wakefulness /\ [Next]_vars => Wakefulness'
<1> SUFFICES ASSUME TypeOK, Wakefulness, [Next]_vars PROVE Wakefulness'
  OBVIOUS
<1>1. \A k \in Keys : Delivering(k)'
  BY DeliveringStep DEF Wakefulness
<1>2. \A p \in Providers : UpToDate(p)'
  BY UpToDateStep, KeyKinds DEF Wakefulness
<1> QED BY <1>1, <1>2 DEF Wakefulness

\* A quiet provider has the verdict of the committed objects in its status.
LEMMA QuietIsTruthful ==
  ASSUME TypeOK, Wakefulness, NEW p \in Providers, api[p].obj # Absent, Quiet(p)
  PROVE  Truthful(p)
<1>0. TypedStore /\ p \in Keys /\ p \in Reconciled
  BY TypeSplit, KeyKinds
<1>1. api[p].obj \in Provider
  BY <1>0, StoreAt, KeyKinds DEF Version
<1>2. cache[p] = api[p]
  BY <1>0, NothingPending DEF Quiet, Wakefulness
<1>3. \A s \in referencedSecrets(api[p].obj.spec) : cache[s] = api[s]
  <2> SUFFICES ASSUME NEW s \in referencedSecrets(api[p].obj.spec)
               PROVE  cache[s] = api[s]
    OBVIOUS
  <2>1. s \in Keys /\ \E n \in Needs(api[p].obj.spec) : n[1] = s
    BY <1>1, ProviderFields, ReferencesAreNeeds, KeyKinds
  <2>2. pending[s] = {}
    BY <2>1 DEF Quiet
  <2> QED BY <2>1, <2>2, NothingPending DEF Wakefulness
<1>4. Verdict(cache, p) = Verdict(api, p)
  BY <1>1, <1>2, <1>3, VerdictIsLocal
<1>5. api[p].obj.status = Verdict(api, p)
  BY <1>1, <1>2, <1>4 DEF Quiet, Wakefulness, UpToDate
<1>6. validateProvider(api, api[p].obj.spec) <=> ReferencesValid(p)
  BY <1>1, ValidationIsExact
<1> QED BY <1>5, <1>6 DEF Verdict, ProviderVerdict, Truthful

\* No provider is forgotten: one that is not queued, that no call works on and
\* that no event is on its way to reports the truth about its references as
\* they are committed, whatever edits, events, failed updates and restarts came
\* before (provider_controller 55-74, 108-150).
THEOREM NoProviderIsForgotten == Spec => []NothingForgotten
<1>1. Init => TypeOK /\ Wakefulness
  BY TypeInit, WakefulInit
<1>2. (TypeOK /\ Wakefulness) /\ [Next]_vars => (TypeOK /\ Wakefulness)'
  BY TypeStep, WakefulStep
<1>3. TypeOK /\ Wakefulness => NothingForgotten
  BY QuietIsTruthful DEF NothingForgotten
<1> QED BY <1>1, <1>2, <1>3, PTL DEF Spec

=============================================================================
