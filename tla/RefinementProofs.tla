-------------------------- MODULE RefinementProofs --------------------------
(***************************************************************************)
(* The controller implements CredentialService, for every instance, where  *)
(* nobody changes the target of a credential or asks for force cleanup:    *)
(* what NextEffects and SecretSteps say a step can do is matched with the  *)
(* steps of the service, one kind of object at a time.                     *)
(***************************************************************************)
EXTENDS CredentialRefinement, CustodyProofs

\* At most one object changes in a step.
LEMMA OneKey ==
  ASSUME TypedStore, StoreStep
  PROVE  api' = api \/ \E k \in Keys : \A j \in Keys \ {k} : api'[j] = api[j]
<1>1. ASSUME NEW k \in Keys, NEW o, Commit(k, o)
      PROVE  \A j \in Keys \ {k} : api'[j] = api[j]
  BY <1>1, CommitMoves
<1>2. CASE UNCHANGED store \/ Relist \/ \E k \in Keys : Deliver(k)
  BY <1>2 DEF store, Relist, Deliver
<1> QED BY <1>1, <1>2 DEF StoreStep

\* What the service sees of a credential.
LEMMA SeenCredential ==
  ASSUME NEW o \in Credential \cup {Absent}
  PROVE  /\ o = Absent => Seen(o) = None
         /\ o # Absent => /\ Seen(o) # None
                          /\ Seen(o) = [uid |-> o.uid, phase |-> Phase(o)]
<1>1. CASE o = Absent
  BY <1>1 DEF Seen
<1>2. CASE o # Absent
  <2>1. o.uid \in Nat
    BY <1>2, CredentialFields
  <2>2. Phase(o) \in Service!Phases
    BY DEF Phase, Service!Phases
  <2> QED BY <1>2, <2>1, <2>2, MarkersAssumption DEF Seen
<1> QED BY <1>1, <1>2

\* What the service sees of a Secret.
LEMMA ShownSecret ==
  ASSUME NEW o \in Secret \cup {Absent}
  PROVE  /\ o = Absent => Shown(o) = Absent
         /\ o # Absent => /\ Shown(o) # Absent
                          /\ Shown(o) = [owner |-> o.owner, user |-> o.user, pw |-> o.pw]
<1>1. CASE o = Absent
  BY <1>1 DEF Shown
<1>2. CASE o # Absent
  <2>1. /\ o.owner \in Owner \cup {None} /\ o.user \in Users \cup {None}
        /\ o.pw \in Nat \cup {None}
    BY <1>2 DEF Secret
  <2> QED BY <1>2, <2>1, MarkersAssumption DEF Shown
<1> QED BY <1>1, <1>2

\* The objects of credentials and Secrets are typed.
LEMMA TypedObjects ==
  ASSUME TypedStore
  PROVE  /\ \A c \in Creds : api[c].obj \in Credential \cup {Absent}
         /\ \A s \in SecretNames : api[s].obj \in Secret \cup {Absent}
BY StoreAt, KeyKinds DEF Version

\* They are after a step, too.
LEMMA TypedObjectsNext ==
  ASSUME TypedStore'
  PROVE  /\ \A c \in Creds : api'[c].obj \in Credential \cup {Absent}
         /\ \A s \in SecretNames : api'[s].obj \in Secret \cup {Absent}
BY KeyKinds DEF TypedStore, Versions, Version

\* The initial states are initial states of the service.
LEMMA ServiceInit ==
  ASSUME Init
  PROVE  Service!Init
<1>1. /\ \A k \in Creds \cup SecretNames : api[k].obj = Absent
      /\ users = [u \in Users |-> None]
  <2> PICK p \in Policies :
        api = [k \in Keys |-> [rv |-> 0, obj |-> IF k = PolicyName THEN p ELSE Absent]]
    BY DEF Init
  <2> QED BY NamesAssumption, KeyKinds DEF Init
<1> QED BY <1>1 DEF Service!Init, Seen, Shown

\* The service sees no change of a credential, or of a Secret.
SeenSame == \A c \in Creds : Seen(api[c].obj)' = Seen(api[c].obj)
ShownSame == \A s \in SecretNames : Shown(api[s].obj)' = Shown(api[s].obj)

\* A step that changes nothing the service sees stutters.
LEMMA ServiceStutter ==
  ASSUME SeenSame, ShownSame, users' = users
  PROVE  UNCHANGED Service!vars
BY DEF SeenSame, ShownSame, Service!vars

\* A guarded credential is protected or leaving.
LEMMA GuardedPhase ==
  ASSUME TypedStore, NEW c \in Creds, Guarded(c)
  PROVE  Service!In(c, {"protected", "leaving"})
<1>1. Phase(api[c].obj) \in {"protected", "leaving"}
  BY DEF Guarded, Phase
<1> QED BY <1>1, TypedObjects, SeenCredential DEF Guarded, Service!In

\* DefineUser and RemoveUser.
LEMMA ServiceAccounts ==
  ASSUME IInv, Custody, AccountStep, users' # users
  PROVE  Service!Next
<1>1. /\ UNCHANGED store /\ job.user \in Users /\ job.req \in Creds
      /\ job.user.credential = job.req /\ api' = api /\ TypedStore
  BY InCall DEF AccountStep, store, IInv, TypeOK, CallTyped, Custody, JobInCustody
<1>2. SeenSame /\ ShownSame
  BY <1>1 DEF SeenSame, ShownSame, Seen, Shown
<1>3. ASSUME job.pc = "define",
             users' = [users EXCEPT ![job.user] = [pw |-> job.password, roles |-> Cred.spec.roles]]
      PROVE  Service!Define(job.user)
  <2>1. Service!In(job.user.credential, {"protected", "leaving"})
    BY <1>1, <1>3, GuardedPhase DEF Custody, JobInCustody
  <2>2. users'[job.user] # None
    BY <1>1, <1>3, InCall, SpecFields, ValuesAssumption DEF IInv, TypeOK, CallTyped, Account
  <2> QED BY <1>1, <1>2, <1>3, <2>1, <2>2
            DEF Service!Define, Service!Only, SeenSame, ShownSame, IInv, TypeOK
<1>4. ASSUME job.pc = "removeUser", users' = [users EXCEPT ![job.user] = None]
      PROVE  Service!Remove(job.user)
  <2>1. users[job.user] # None
    BY <1>1, <1>4 DEF IInv, TypeOK
  <2>2. Guarded(job.req)
    BY <1>1, <2>1 DEF Custody, NoOrphanUser, Guarded
  <2>3. ~Live(api[job.req].obj)
    BY <1>4 DEF Custody, JobInCustody, Versions
  <2>4. Phase(api[job.req].obj) = "leaving"
    BY <2>2, <2>3 DEF Guarded, Live, Phase
  <2>5. Service!In(job.user.credential, {"leaving"})
    BY <1>1, <2>2, <2>4, TypedObjects, SeenCredential DEF Guarded, Service!In
  <2> QED BY <1>2, <1>4, <2>5 DEF Service!Remove, SeenSame, ShownSame
<1> QED BY <1>1, <1>3, <1>4 DEF AccountStep, Service!Next

\* What happens to a credential, when nothing else does.
LEMMA ServiceCredential ==
  ASSUME IInv, IInv', Custody, NEW c \in Creds, CredentialStep(c), KeyMoves(c),
         \A k \in Keys \ {c} : api'[k] = api[k], users' = users
  PROVE  Service!Next \/ UNCHANGED Service!vars
<1> DEFINE o == api[c].obj
           n == api'[c].obj
<1>1. /\ TypedStore /\ ShownSame
      /\ \A d \in Creds \ {c} : Seen(api[d].obj)' = Seen(api[d].obj)
  BY KeyKinds, NamesAssumption DEF IInv, TypeOK, ShownSame, Shown, Seen, Phase
<1>2. o \in Credential \cup {Absent} /\ n \in Credential \cup {Absent}
  BY TypedObjects, TypedObjectsNext DEF IInv, TypeOK
<1>3. /\ o = Absent => Seen(o) = None
      /\ o # Absent => Seen(o) # None /\ Seen(o) = [uid |-> o.uid, phase |-> Phase(o)]
      /\ n = Absent => Seen(n) = None
      /\ n # Absent => Seen(n) # None /\ Seen(n) = [uid |-> n.uid, phase |-> Phase(n)]
  BY <1>2, SeenCredential
<1>4. Seen(api[c].obj)' = Seen(n)
  BY DEF Seen, Phase
<1>5. ASSUME Seen(n) = Seen(o) PROVE UNCHANGED Service!vars
  <2>1. SeenSame
    BY <1>1, <1>4, <1>5 DEF SeenSame
  <2> QED BY <1>1, <2>1, ServiceStutter
<1>6. ASSUME NEW v, Seen(n) = v PROVE Service!Moves(c, v)
  BY <1>1, <1>4, <1>6 DEF Service!Moves
<1>7. ASSUME Created(c) PROVE Service!Request(c)
  <2>1. o = Absent /\ n # Absent /\ Bare(n)
    BY <1>7 DEF Created, Bare
  <2>2. n.uid = api[c].rv + 1 /\ api[c].rv \in Nat
    BY <1>1, <1>7, <2>1, StoreAt, KeyKinds DEF Created, KeyMoves, Version
  <2>3. Seen(n) = [uid |-> n.uid, phase |-> "requested"]
    BY <1>3, <2>1 DEF Bare, Phase
  <2>4. \A s \in SecretNames :
          Shown(api[s].obj) # Absent =>
            Shown(api[s].obj).owner # [credential |-> c, uid |-> n.uid]
    <3> SUFFICES ASSUME NEW s \in SecretNames, Shown(api[s].obj) # Absent,
                        Shown(api[s].obj).owner = [credential |-> c, uid |-> n.uid]
                 PROVE  FALSE
      OBVIOUS
    <3>1. api[s].obj # Absent /\ api[s].obj.owner = [credential |-> c, uid |-> n.uid]
      BY <1>1, TypedObjects, ShownSecret
    <3>2. [credential |-> c, uid |-> n.uid] \in Owner
      BY <2>2 DEF Owner
    <3>3. n.uid <= api[c].rv
      BY <3>1, <3>2, ValuesAssumption DEF Custody, OwnersKnown
    <3> QED BY <2>2, <3>3
  <2> HIDE DEF o, n
  <2>5. Service!Moves(c, [uid |-> n.uid, phase |-> "requested"])
    BY <1>6, <2>3
  <2>6. Service!Request(c)
    <3> DEFINE seen == [d \in Creds |-> Seen(api[d].obj)]
    <3>1. seen[c] = None /\ seen'[c] = [uid |-> n.uid, phase |-> "requested"] /\ seen'[c] # None
      BY <1>3, <1>4, <2>1, <2>3 DEF o
    <3>2. UNCHANGED [s \in SecretNames |-> Shown(api[s].obj)]
      BY <1>1 DEF ShownSame
    <3> QED BY <2>4, <2>5, <3>1, <3>2
            DEF Service!Request, Service!Owner, Service!Incarnation
  <2> QED BY <2>6
<1>8. UNCHANGED [s \in SecretNames |-> Shown(api[s].obj)]
  BY <1>1 DEF ShownSame
<1>9. ASSUME NEW phases, o # Absent, Phase(o) \in phases PROVE Service!In(c, phases)
  BY <1>3, <1>9 DEF Service!In
<1> DEFINE seen == [d \in Creds |-> Seen(api[d].obj)]
<1>10. ASSUME NEW phase, n # Absent, o # Absent, n.uid = o.uid, Phase(n) = phase
       PROVE  Service!Moves(c, Service!Incarnation(seen[c].uid, phase))
  <2>1. Seen(n) = Service!Incarnation(seen[c].uid, phase)
    BY <1>3, <1>10 DEF Service!Incarnation
  <2> QED BY <1>6, <2>1
<1>11. CASE Protected(c)
  <2>1. /\ o # Absent /\ Phase(o) = "requested"
        /\ n # Absent /\ Phase(n) = "protected" /\ n.uid = o.uid
    BY <1>11 DEF Protected, Bare, Live, Phase
  <2>2. Service!Protect(c)
    BY <1>8, <1>9, <1>10, <2>1 DEF Service!Protect
  <2> QED BY <2>2 DEF Service!Next
<1>12. CASE Withdrawn(c)
  <2>1. CASE Bare(o) /\ n = Absent
    <3>1. o # Absent /\ Phase(o) = "requested"
      BY <2>1 DEF Bare, Phase
    <3>2. Service!In(c, {"requested"}) /\ Service!Moves(c, None)
      BY <1>3, <1>6, <1>9, <2>1, <3>1
    <3>3. Service!Withdraw(c)
      BY <1>8, <3>2 DEF Service!Withdraw
    <3> QED BY <3>3 DEF Service!Next
  <2>2. CASE Live(o) /\ Dying(n) /\ n.uid = o.uid
    <3>1. o # Absent /\ Phase(o) = "protected" /\ n # Absent /\ Phase(n) = "leaving"
      BY <2>2 DEF Live, Dying, Phase
    <3>2. Service!Withdraw(c)
      BY <1>8, <1>9, <1>10, <2>2, <3>1 DEF Service!Withdraw
    <3> QED BY <3>2 DEF Service!Next
  <2> QED BY <1>12, <2>1, <2>2 DEF Withdrawn
<1>13. CASE Released(c)
  <2>1. o # Absent /\ o.finalizer /\ job.pc = "removeFinalizer" /\ job.req = c
    BY <1>13 DEF Released, Guarded
  <2>2. ~Live(o) /\ NoAccounts(c)
    BY <2>1 DEF Custody, JobInCustody, Cleaned, Versions
  <2>3. o.deleting /\ Phase(o) = "leaving" /\ n = Absent
    BY <1>13, <2>1, <2>2 DEF Live, Phase, Released, RemoveFinalizer
  <2>4. Service!In(c, {"leaving"}) /\ Service!Moves(c, None)
    BY <1>3, <1>6, <1>9, <2>1, <2>3
  <2>5. Service!Accounts(c) = {}
    BY <2>2 DEF Service!Accounts, NoAccounts
  <2>6. Service!Release(c)
    BY <1>8, <2>4, <2>5 DEF Service!Release
  <2> QED BY <2>6 DEF Service!Next
<1>14. CASE Rewritten(c)
  <2>1. o # Absent /\ n # Absent /\ n.uid = o.uid /\ Phase(n) = Phase(o)
    BY <1>14 DEF Rewritten, SameCustody, Phase
  <2> QED BY <1>3, <1>5, <2>1
<1>15. CASE api'[c] = api[c]
  BY <1>5, <1>15
<1> QED BY <1>7, <1>11, <1>12, <1>13, <1>14, <1>15 DEF CredentialStep, Service!Next

\* What happens to a Secret, when nothing else does.
LEMMA ServiceSecret ==
  ASSUME IInv, IInv', Custody, NEW s \in SecretNames, SecretStep(s),
         \A k \in Keys \ {s} : api'[k] = api[k], users' = users
  PROVE  Service!Next \/ UNCHANGED Service!vars
<1> DEFINE o == api[s].obj
           n == api'[s].obj
<1>1. /\ TypedStore /\ SeenSame
      /\ \A t \in SecretNames \ {s} : Shown(api[t].obj)' = Shown(api[t].obj)
  BY KeyKinds, NamesAssumption DEF IInv, TypeOK, SeenSame, Shown, Seen, Phase
<1>2. o \in Secret \cup {Absent} /\ n \in Secret \cup {Absent}
  BY TypedObjects, TypedObjectsNext DEF IInv, TypeOK
<1>3. /\ o = Absent => Shown(o) = Absent
      /\ o # Absent => /\ Shown(o) # Absent
                       /\ Shown(o) = [owner |-> o.owner, user |-> o.user, pw |-> o.pw]
      /\ n = Absent => Shown(n) = Absent
      /\ n # Absent => /\ Shown(n) # Absent
                       /\ Shown(n) = [owner |-> n.owner, user |-> n.user, pw |-> n.pw]
  BY <1>2, ShownSecret
<1>4. Shown(api[s].obj)' = Shown(n)
  BY DEF Shown
<1> DEFINE shown == [t \in SecretNames |-> Shown(api[t].obj)]
<1>5. UNCHANGED [d \in Creds |-> Seen(api[d].obj)]
  BY <1>1 DEF SeenSame
<1>6. ASSUME NEW v, Shown(n) = v PROVE shown' = [shown EXCEPT ![s] = v]
  BY <1>1, <1>4, <1>6
<1>7. CASE api'[s] = api[s]
  BY <1>1, <1>4, <1>7, ServiceStutter DEF ShownSame
<1>8. CASE n = Absent
  <2>1. Service!Meddle(s)
    BY <1>3, <1>5, <1>6, <1>8 DEF Service!Meddle
  <2> QED BY <2>1 DEF Service!Next
<1>9. CASE o = Absent /\ n = ForeignSecret
  <2>1. n # Absent
    <3>1. [owner |-> None, user |-> None, pw |-> None, url |-> None] \in Secret
      BY DEF Secret
    <3> QED BY <1>9, <3>1, ValuesAssumption DEF ForeignSecret
  <2>2. Shown(n) = [owner |-> None, user |-> None, pw |-> None]
    BY <1>3, <1>9, <2>1 DEF ForeignSecret
  <2>3. Service!Meddle(s)
    BY <1>3, <1>5, <1>6, <1>9, <2>2 DEF Service!Meddle
  <2> QED BY <2>3 DEF Service!Next
<1>10. CASE o # Absent /\ n = [o EXCEPT !.pw = None]
  <2>1. o \in Secret
    BY <1>2, <1>10
  <2>2. n \in Secret
    BY <1>10, <2>1 DEF Secret
  <2>3. n # Absent /\ n.owner = o.owner /\ n.user = o.user /\ n.pw = None
    BY <1>10, <2>1, <2>2, ValuesAssumption DEF Secret
  <2>4. Shown(n) = [shown[s] EXCEPT !.pw = None]
    BY <1>3, <1>10, <2>3
  <2>5. Service!Meddle(s)
    BY <1>3, <1>5, <1>6, <1>10, <2>4 DEF Service!Meddle
  <2> QED BY <2>5 DEF Service!Next
<1>11. CASE /\ job.pc = "secret" /\ s = Cred.spec.targetSecret /\ AcceptsSecret
            /\ n = BuildTargetSecret(job.req, Cred, job.user, job.password, job.url)
  <2> DEFINE c == job.req
             seen == [d \in Creds |-> Seen(api[d].obj)]
  <2>1. /\ c \in Creds /\ job.user \in Users /\ job.user.credential = c
        /\ Guarded(c) /\ api[c].obj.uid = Cred.uid /\ Cred.uid \in Nat
        /\ job.password \in Nat /\ job.url \in Endpoints
    BY <1>11, InCall, CredentialFields DEF IInv, TypeOK, CallTyped, Custody, JobInCustody
  <2>2. /\ users[job.user] = [pw |-> job.password, roles |-> Cred.spec.roles]
        /\ users[job.user] # None
    <3>1. users[job.user] = [pw |-> job.password, roles |-> Cred.spec.roles]
      BY <1>11 DEF IInv, JobCoherent, HoldsOwnSecret, UserDefined
    <3> QED BY <1>11, <2>1, <3>1, InCall, SpecFields, ValuesAssumption DEF IInv, TypeOK, Account
  <2>3. seen[c] # None /\ seen[c].uid = Cred.uid
    BY <2>1, <1>1, TypedObjects, SeenCredential DEF Guarded
  <2>4. Service!Owner(job.user.credential) = OwnerReference(c, Cred)
    BY <2>1, <2>3 DEF Service!Owner, OwnerReference
  <2>5. n # Absent
    BY <1>11, <2>1, ValuesAssumption DEF BuildTargetSecret, OwnerReference, Secret, Owner
  <2>6. Shown(n) = [owner |-> Service!Owner(job.user.credential), user |-> job.user,
                    pw |-> users[job.user].pw]
    BY <1>3, <1>11, <2>2, <2>4, <2>5 DEF BuildTargetSecret
  <2>7. shown[s] # Absent => shown[s].owner = Service!Owner(job.user.credential)
    <3>1. Current(s, job.existing) /\ EnsureCanManage(job.existing.obj, job.req, Cred)
      BY <1>11 DEF IInv, JobCoherent, HoldsOwnSecret, UserDefined
    <3>2. o # Absent => o.owner = OwnerReference(c, Cred)
      BY <1>11, <3>1
         DEF AcceptsSecret, AcceptsCreate, AcceptsUpdate, Current, EnsureCanManage,
             IsOwnedByCredential
    <3> QED BY <1>3, <2>4, <3>2
  <2>8. Service!In(job.user.credential, {"protected", "leaving"})
    BY <1>1, <2>1, GuardedPhase
  <2>9. Service!Publish(s, job.user)
    <3> HIDE DEF shown, n, o
    <3>1. shown' = [shown EXCEPT ![s] =
                      [owner |-> Service!Owner(job.user.credential), user |-> job.user,
                       pw |-> users[job.user].pw]]
      BY <1>6, <2>6
    <3> QED BY <1>5, <2>2, <2>7, <2>8, <3>1 DEF Service!Publish, shown
  <2> QED BY <2>1, <2>9 DEF Service!Next
<1> QED BY <1>7, <1>8, <1>9, <1>10, <1>11 DEF SecretStep

\* The policy is not part of the service.
LEMMA ServiceElsewhere ==
  ASSUME TypedStore, \A k \in Creds \cup SecretNames : api'[k] = api[k], users' = users
  PROVE  UNCHANGED Service!vars
<1>1. SeenSame /\ ShownSame
  BY DEF SeenSame, ShownSame, Seen, Shown, Phase
<1> QED BY <1>1, ServiceStutter

\* Every step of the controller and of its surroundings is one of the service,
\* or invisible to it.
LEMMA ServiceStep ==
  ASSUME SafeEdits, IInv, IInv', Custody, [Next]_vars
  PROVE  Service!Next \/ UNCHANGED Service!vars
<1>1. /\ TypeOK /\ TypedStore /\ StoreCoherent
      /\ Effects /\ StoreMoves /\ SecretSteps
  BY NextEffects, NextMoves DEF IInv, TypeOK, SafeEdits
<1>2. CASE users' # users
  BY <1>1, <1>2, ServiceAccounts DEF Effects
<1>3. CASE users' = users
  <2>1. CASE api' = api
    BY <1>1, <1>3, <2>1, ServiceElsewhere
  <2>2. ASSUME NEW k \in Keys, \A j \in Keys \ {k} : api'[j] = api[j]
        PROVE  Service!Next \/ UNCHANGED Service!vars
    <3>1. CASE k \in Creds
      BY <1>1, <1>3, <2>2, <3>1, ServiceCredential
         DEF Effects, CredentialSteps, StoreMoves
    <3>2. CASE k \in SecretNames
      BY <1>1, <1>3, <2>2, <3>2, ServiceSecret DEF SecretSteps
    <3>3. CASE k = PolicyName
      <4>1. Creds \cup SecretNames \subseteq Keys \ {k}
        BY <3>3, KeyKinds, NamesAssumption
      <4> QED BY <1>1, <1>3, <2>2, <4>1, ServiceElsewhere
    <3> QED BY <3>1, <3>2, <3>3 DEF Keys
  <2> QED BY <1>1, <2>1, <2>2, OneKey DEF Effects
<1> QED BY <1>2, <1>3

\* Where nobody changes a target or asks for force cleanup, what the controller
\* does to credentials, accounts and Secrets is what CredentialService
\* promises, for every number of credentials and every lag of the cache
\* (controller 80-83, 136-147, 268-278).
THEOREM ControllerImplementsService ==
  ASSUME SafeEdits
  PROVE  Spec /\ TargetsKept => ImplementsService
<1>1. Init => Service!Init
  BY ServiceInit
<1>2. IInv /\ IInv' /\ Custody /\ [Next]_vars => [Service!Next]_(Service!vars)
  BY ServiceStep
<1> QED BY <1>1, <1>2, Coherence, CustodyHolds, PTL DEF Spec, ImplementsService, Service!Spec
=============================================================================
