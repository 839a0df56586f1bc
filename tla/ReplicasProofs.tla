--------------------------- MODULE ReplicasProofs ---------------------------
(***************************************************************************)
(* What leader election saves of the promises of a single process, for     *)
(* every set of credentials, Secrets, specs, policies, edits and passwords *)
(* and for every value of the bounds.  What is proved of a process is      *)
(* taken from its own proofs: A!T and B!T are theorem T of process A and B.*)
(***************************************************************************)
EXTENDS Replicas, TLAPS

-----------------------------------------------------------------------------
(* The processes are of one kind: what does not depend on a process's own  *)
(* variables is the same for both.                                         *)

LEMMA SameKeys == A!Keys = B!Keys
BY DEF A!Keys, B!Keys

LEMMA SameUsers == A!Users = B!Users
BY DEF A!Users, B!Users, A!Targets, B!Targets, A!UserTarget, B!UserTarget,
       A!Username, B!Username

LEMMA SameStatus == A!Status = B!Status
BY SameUsers
   DEF A!Status, B!Status, A!Conditions, B!Conditions, A!ConditionTypes, B!ConditionTypes,
       A!Reasons, B!Reasons, A!TrueReasons, B!TrueReasons, A!FalseReasons, B!FalseReasons

LEMMA SameObjects ==
  /\ A!Credential = B!Credential /\ A!Secret = B!Secret /\ A!Account = B!Account
  /\ \A k : A!ObjectsOf(k) = B!ObjectsOf(k)
  /\ \A S : A!Version(S) = B!Version(S)
  /\ A!AnyVersion = B!AnyVersion
BY SameUsers, SameStatus
   DEF A!Credential, B!Credential, A!Secret, B!Secret, A!Owner, B!Owner,
       A!Account, B!Account, A!Roles, B!Roles, A!ObjectsOf, B!ObjectsOf,
       A!Version, B!Version, A!AnyVersion, B!AnyVersion

-----------------------------------------------------------------------------
(* What a step is: one of a process that works, which leaves the other     *)
(* what it has heard, or the failover.                                     *)

StepsA ==
  /\ [A!Next]_(A!vars)
  /\ HearsB
  /\ UNCHANGED <<queueB, timerB, jobB, leader>>

StepsB ==
  /\ [B!Next]_(B!vars)
  /\ HearsA
  /\ UNCHANGED <<queueA, timerA, jobA, leader>>

LEMMA StepKinds ==
  ASSUME leader \in {"A", "B"}, [Next]_vars
  PROVE  \/ Works("A") /\ StepsA
         \/ Works("B") /\ StepsB
         \/ Failover
         \/ UNCHANGED vars
<1>1. ASSUME StepOfA, A!Next PROVE StepsA
  BY <1>1 DEF StepOfA, StepsA
<1>2. ASSUME StepOfB, B!Next PROVE StepsB
  BY <1>2 DEF StepOfB, StepsB
<1>3. ASSUME NEW c \in Creds, ReconcileA(c) \/ ResyncA(c) PROVE Works("A") /\ StepsA
  <2>1. Works("A") /\ StepOfA /\ (A!Reconcile(c) \/ A!Resync(c))
    BY <1>3 DEF ReconcileA, ResyncA
  <2> QED BY <1>1, <2>1 DEF A!Next, A!Cluster
<1>4. ASSUME NEW c \in Creds, ReconcileB(c) \/ ResyncB(c) PROVE Works("B") /\ StepsB
  <2>1. Works("B") /\ StepOfB /\ (B!Reconcile(c) \/ B!Resync(c))
    BY <1>4 DEF ReconcileB, ResyncB
  <2> QED BY <1>2, <2>1 DEF B!Next, B!Cluster
<1>5. ASSUME ProceedA PROVE Works("A") /\ StepsA
  BY <1>1, <1>5 DEF ProceedA, A!Next
<1>6. ASSUME ProceedB PROVE Works("B") /\ StepsB
  BY <1>2, <1>6 DEF ProceedB, B!Next
<1>7. ASSUME NEW k \in A!Keys, WatchEventA(k) PROVE Works("A") /\ StepsA
  BY <1>1, <1>7 DEF WatchEventA, A!Next, A!Cluster
<1>8. ASSUME NEW k \in A!Keys, WatchEventB(k) PROVE Works("B") /\ StepsB
  BY <1>2, <1>8, SameKeys DEF WatchEventB, B!Next, B!Cluster
<1>9. Works("A") \/ Works("B")
  BY DEF Works
<1>10. ASSUME UserEdit PROVE (Works("A") /\ StepsA) \/ (Works("B") /\ StepsB)
  BY <1>1, <1>2, <1>9, <1>10 DEF UserEdit, A!Next, B!Next
<1>11. ASSUME NEW s \in SecretNames, GarbageCollect(s)
       PROVE  (Works("A") /\ StepsA) \/ (Works("B") /\ StepsB)
  BY <1>1, <1>2, <1>9, <1>11 DEF GarbageCollect, A!Next, A!Cluster, B!Next, B!Cluster
<1> QED BY <1>3, <1>4, <1>5, <1>6, <1>7, <1>8, <1>10, <1>11 DEF Next

LEMMA FlagIsFixed ==
  ASSUME [Next]_vars
  PROVE  elect' = elect
BY DEF Next, ReconcileA, ReconcileB, ResyncA, ResyncB, ProceedA, ProceedB,
       WatchEventA, WatchEventB, UserEdit, GarbageCollect, Failover,
       StepOfA, StepOfB, vars

\* With leader election only the leader works.
LEMMA StepsOfLeader ==
  ASSUME elect, leader \in {"A", "B"}, [Next]_vars
  PROVE  /\ leader = "A" => StepsA \/ Failover \/ UNCHANGED vars
         /\ leader = "B" => leader' = "B" /\ [B!Next]_(B!vars)
<1>1. Works("A") <=> leader = "A"
  BY DEF Works
<1>2. Works("B") <=> leader = "B"
  BY DEF Works
<1>3. Failover => leader = "A"
  BY DEF Failover
<1>4. UNCHANGED vars => leader' = leader /\ UNCHANGED B!vars
  BY DEF vars, common, processB, B!vars
<1> QED BY <1>1, <1>2, <1>3, <1>4, StepKinds DEF StepsB

-----------------------------------------------------------------------------
(* Hearing of a step.  A process that hears of a step of the other, or that *)
(* will list what it has left, has a store that is typed and coherent.      *)

LEMMA HeardCoherent ==
  ASSUME B!TypedStore, B!StoreCoherent, A!TypedStore', A!StoreMoves, HearsB
  PROVE  B!TypedStore' /\ B!StoreCoherent' /\ B!StoreMoves
<1>1. /\ api' \in [B!Keys -> B!AnyVersion]
      /\ \A k \in B!Keys : api'[k] \in B!Version(B!ObjectsOf(k))
  BY SameKeys, SameObjects DEF A!TypedStore, A!Versions
<1>2. \A k \in B!Keys : api'[k] = api[k] \/ api'[k].rv = api[k].rv + 1
  BY SameKeys DEF A!StoreMoves, A!KeyMoves
<1>3. CASE Works("B")
  <2>1. /\ pendingB' = [k \in B!Keys |-> pendingB[k] \cup ({api'[k]} \ {api[k]})]
        /\ cacheB' = cacheB
    BY <1>3 DEF HearsB, B!TypedStore, Heard
  <2> QED BY <1>1, <1>2, <2>1, ProcessesAssumption, B!HeardStore
<1>4. CASE ~Works("B")
  <2>1. cacheB' = api' /\ pendingB' = [k \in B!Keys |-> {}]
    BY <1>4, SameKeys DEF HearsB, NothingPending
  <2> QED BY <1>1, <1>2, <2>1, ProcessesAssumption, B!ListedStore
<1> QED BY <1>3, <1>4

LEMMA HeardCoherentA ==
  ASSUME A!TypedStore, A!StoreCoherent, B!TypedStore', B!StoreMoves, HearsA
  PROVE  A!TypedStore' /\ A!StoreCoherent' /\ A!StoreMoves
<1>1. /\ api' \in [A!Keys -> A!AnyVersion]
      /\ \A k \in A!Keys : api'[k] \in A!Version(A!ObjectsOf(k))
  BY SameKeys, SameObjects DEF B!TypedStore, B!Versions
<1>2. \A k \in A!Keys : api'[k] = api[k] \/ api'[k].rv = api[k].rv + 1
  BY SameKeys DEF B!StoreMoves, B!KeyMoves
<1>3. CASE Works("A")
  <2>1. /\ pendingA' = [k \in A!Keys |-> pendingA[k] \cup ({api'[k]} \ {api[k]})]
        /\ cacheA' = cacheA
    BY <1>3 DEF HearsA, A!TypedStore, Heard
  <2> QED BY <1>1, <1>2, <2>1, ProcessesAssumption, A!HeardStore
<1>4. CASE ~Works("A")
  <2>1. cacheA' = api' /\ pendingA' = [k \in A!Keys |-> {}]
    BY <1>4 DEF HearsA, NothingPending
  <2> QED BY <1>1, <1>2, <2>1, ProcessesAssumption, A!ListedStore
<1> QED BY <1>3, <1>4

-----------------------------------------------------------------------------
(* Two processes at work.  SharedInv is the part of the inductive invariant *)
(* of one process that the other cannot take away.                          *)

LEMMA BothStart == Init => A!Starts /\ B!Starts
<1> SUFFICES ASSUME Init PROVE A!Starts /\ B!Starts
  OBVIOUS
<1>1. faults \in Nat /\ lag \in Nat
  BY ProcessesAssumption DEF Init, A!NamesAssumption
<1>2. A!Starts
  BY <1>1 DEF Init, A!Starts, Unset, NothingPending
<1> QED BY <1>1, <1>2, SameKeys, SameUsers DEF Init, B!Starts, Unset, NothingPending

Shared ==
  /\ A!SharedInv /\ B!SharedInv
  /\ elect \in BOOLEAN
  /\ leader \in {"A", "B"}

LEMMA SharedInit == Init => Shared
BY BothStart, ProcessesAssumption, A!InvStart, B!InvStart
   DEF Init, Shared, A!IInv, B!IInv, A!JobCoherent, B!JobCoherent, A!SharedInv, B!SharedInv

\* What a step of the one leaves to the other.
LEMMA SharedStepA ==
  ASSUME A!SharedInv, B!SharedInv, StepsA
  PROVE  A!SharedInv' /\ B!SharedInv'
<1>1. /\ A!TypeOK /\ A!TypedStore' /\ B!TypeOK /\ B!TypedStore /\ B!StoreCoherent
      /\ A!SharedInv' /\ A!TypeOK'
  BY ProcessesAssumption, A!SharedStep
     DEF StepsA, A!SharedInv, A!JobStep, A!TypeOK, B!SharedInv, B!TypeOK
<1>2. A!StoreMoves
  BY <1>1, ProcessesAssumption, A!NextMoves DEF StepsA
<1>3. B!TypedStore' /\ B!StoreMoves
  BY <1>1, <1>2, HeardCoherent DEF StepsA
<1>4. users' \in [B!Users -> B!Account \cup {None}]
  BY <1>1, SameUsers, SameObjects DEF A!TypeOK
<1>5. B!SharedInv'
  BY <1>1, <1>3, <1>4, ProcessesAssumption, B!SharedKept DEF StepsA, A!TypeOK, B!TypeOK
<1> QED BY <1>1, <1>5

LEMMA SharedStepB ==
  ASSUME A!SharedInv, B!SharedInv, StepsB
  PROVE  A!SharedInv' /\ B!SharedInv'
<1>1. /\ B!TypeOK /\ B!TypedStore' /\ A!TypeOK /\ A!TypedStore /\ A!StoreCoherent
      /\ B!SharedInv' /\ B!TypeOK'
  BY ProcessesAssumption, B!SharedStep
     DEF StepsB, B!SharedInv, B!JobStep, B!TypeOK, A!SharedInv, A!TypeOK
<1>2. B!StoreMoves
  BY <1>1, ProcessesAssumption, B!NextMoves DEF StepsB
<1>3. A!TypedStore' /\ A!StoreMoves
  BY <1>1, <1>2, HeardCoherentA DEF StepsB
<1>4. users' \in [A!Users -> A!Account \cup {None}]
  BY <1>1, SameUsers, SameObjects DEF B!TypeOK
<1>5. A!SharedInv'
  BY <1>1, <1>3, <1>4, ProcessesAssumption, A!SharedKept DEF StepsB, A!TypeOK, B!TypeOK
<1> QED BY <1>1, <1>5

LEMMA SharedFailover ==
  ASSUME A!SharedInv, B!SharedInv, Failover
  PROVE  A!SharedInv' /\ B!SharedInv'
<1>1. /\ UNCHANGED <<users, now, edits, lag, timerB, jobB>>
      /\ A!Relist /\ B!Relist /\ faults' = faults + 1 /\ jobA' = A!IdleJob
      /\ queueA' = {} /\ timerA' = Unset /\ queueB' \subseteq Creds
  BY DEF Failover, Listed
<1>2. A!TypedStore' /\ A!StoreMoves
  BY <1>1, ProcessesAssumption, A!RelistTyped, A!RelistMoves DEF A!SharedInv, A!TypeOK
<1>3. B!TypedStore' /\ B!StoreMoves
  BY <1>1, ProcessesAssumption, B!RelistTyped, B!RelistMoves DEF B!SharedInv, B!TypeOK
<1>4. /\ users' \in [A!Users -> A!Account \cup {None}]
      /\ users' \in [B!Users -> B!Account \cup {None}]
      /\ timerA' \in [Creds -> Nat \cup {None}]
      /\ timerB' \in [Creds -> Nat \cup {None}]
      /\ now' \in Nat /\ edits' \in Nat /\ faults' \in Nat /\ lag' \in Nat
  BY <1>1 DEF A!SharedInv, A!TypeOK, B!SharedInv, B!TypeOK, Unset
<1>5. A!SharedInv'
  BY <1>1, <1>2, <1>4, ProcessesAssumption, A!SharedKept
<1>6. B!SharedInv'
  BY <1>1, <1>3, <1>4, ProcessesAssumption, B!SharedKept
<1> QED BY <1>5, <1>6

LEMMA SharedNext ==
  ASSUME Shared, [Next]_vars
  PROVE  Shared'
<1>1. StepsA \/ StepsB \/ Failover \/ UNCHANGED vars
  BY StepKinds DEF Shared
<1>2. ASSUME UNCHANGED vars PROVE A!SharedInv' /\ B!SharedInv'
  BY <1>2, ProcessesAssumption, A!SharedStep, B!SharedStep
     DEF vars, common, processA, processB, A!vars, B!vars, Shared, A!SharedInv, B!SharedInv,
         A!JobStep, B!JobStep
<1>3. A!SharedInv' /\ B!SharedInv'
  BY <1>1, <1>2, SharedStepA, SharedStepB, SharedFailover DEF Shared
<1>4. elect' = elect /\ leader' \in {"A", "B"}
  BY <1>1, FlagIsFixed DEF Shared, StepsA, StepsB, Failover, vars
<1> QED BY <1>3, <1>4 DEF Shared

LEMMA SharedHolds == Spec => []Shared
BY SharedInit, SharedNext, PTL DEF Spec

\* Every variable of both processes keeps its type, whether one of them works or
\* both do, and a call's locals are set when they are used.
THEOREM BothTypeCorrect == Spec => []TypeOK
<1>1. Shared => TypeOK
  BY DEF Shared, TypeOK, A!SharedInv, B!SharedInv
<1> QED BY <1>1, SharedHolds, PTL

\* A Secret never changes hands, even where two processes write it: a call that
\* has seen an older version of it cannot write, whoever wrote the newer one.
THEOREM OwnersStay == Spec => SecretsKeepOwners
<1>1. ASSUME Shared, [Next]_vars, NEW s \in SecretNames
      PROVE  A!OwnerKept(s)
  <2>1. StepsA \/ StepsB \/ api' = api
    BY <1>1, StepKinds DEF Shared, Failover, A!Relist, vars, common
  <2>2. CASE StepsA
    BY <1>1, <2>2, ProcessesAssumption, A!OwnershipStep DEF Shared, StepsA
  <2>3. CASE StepsB
    BY <1>1, <2>3, ProcessesAssumption, B!OwnershipStep
       DEF Shared, StepsB, A!OwnerKept, B!OwnerKept
  <2>4. CASE api' = api
    BY <2>4 DEF A!OwnerKept
  <2> QED BY <2>1, <2>2, <2>3, <2>4
<1>2. Shared /\ [Next]_vars => [\A s \in SecretNames : A!OwnerKept(s)]_vars
  BY <1>1
<1>3. SecretsKeepOwners <=> [][\A s \in SecretNames : A!OwnerKept(s)]_vars
  BY PTL DEF SecretsKeepOwners, A!OwnerKept
<1> QED BY <1>2, <1>3, SharedHolds, PTL DEF Spec

-----------------------------------------------------------------------------
(* The leader's process works as if it were alone: all that is proved of a *)
(* single process holds of the one that leads.  The standby is idle, and   *)
(* the list it will start from is what is committed.                       *)

StandbyB ==
  /\ B!TypedStore /\ B!StoreCoherent
  /\ cacheB = api /\ pendingB = NothingPending
  /\ timerB = Unset /\ jobB = B!IdleJob

Elected ==
  elect => \/ leader = "A" /\ A!IInv /\ StandbyB
           \/ leader = "B" /\ B!IInv

LEMMA ElectedInit == Init => Elected
<1> SUFFICES ASSUME Init PROVE leader = "A" /\ A!IInv /\ StandbyB
  BY DEF Elected
<1> QED BY BothStart, ProcessesAssumption, A!InvStart, B!InvStart
        DEF Init, StandbyB, B!IInv, B!TypeOK

\* A step of A while it leads.
LEMMA LeaderKept ==
  ASSUME elect, leader = "A", A!IInv, StandbyB, StepsA
  PROVE  A!IInv' /\ StandbyB'
<1>1. A!IInv'
  BY ProcessesAssumption, A!InvStep DEF StepsA
<1>2. A!StoreMoves
  BY ProcessesAssumption, A!NextMoves DEF A!IInv, StepsA
<1>3. B!TypedStore' /\ B!StoreCoherent'
  BY <1>1, <1>2, HeardCoherent DEF A!IInv, A!TypeOK, StandbyB, StepsA
<1>4. cacheB' = api' /\ pendingB' = NothingPending
  BY DEF StepsA, HearsB, Works
<1>5. timerB' = Unset /\ jobB' = B!IdleJob
  BY DEF StandbyB, StepsA
<1> QED BY <1>1, <1>3, <1>4, <1>5 DEF StandbyB, Unset, B!IdleJob, NothingPending, A!Keys

\* The standby takes over.
LEMMA TakenOver ==
  ASSUME A!IInv, StandbyB, Failover
  PROVE  B!IInv'
<1>1. /\ UNCHANGED <<users, now, edits, lag, timerB, jobB>>
      /\ B!Relist /\ faults' = faults + 1 /\ queueB' \subseteq Creds
  BY DEF Failover, Listed
<1>2. B!TypedStore' /\ B!StoreMoves
  BY <1>1, ProcessesAssumption, B!RelistTyped, B!RelistMoves DEF StandbyB
<1>3. B!StoreCoherent'
  BY <1>2, ProcessesAssumption, B!CoherentStep DEF StandbyB
<1>4. timerB' = Unset /\ jobB' = B!IdleJob
  BY <1>1 DEF StandbyB
<1>5. users' \in [B!Users -> B!Account \cup {None}]
  BY <1>1, SameUsers, SameObjects DEF A!IInv, A!TypeOK
<1>6. timerB' \in [Creds -> Nat \cup {None}]
  BY <1>4 DEF Unset
<1>7. now' \in Nat /\ edits' \in Nat /\ faults' \in Nat /\ lag' \in Nat
  BY <1>1 DEF A!IInv, A!TypeOK
<1>8. B!TypeOK'
  BY <1>1, <1>2, <1>4, <1>5, <1>6, <1>7 DEF B!TypeOK, B!TypedJob, B!IdleJob
<1>9. B!JobCoherent'
  BY <1>4 DEF B!JobCoherent, B!HoldsOwnSecret, B!UserDefined, B!IdleJob
<1> QED BY <1>3, <1>8, <1>9 DEF B!IInv

LEMMA ElectedStep ==
  ASSUME Elected, [Next]_vars
  PROVE  Elected'
<1>1. CASE ~elect
  BY <1>1, FlagIsFixed DEF Elected
<1>2. CASE elect /\ leader = "A" /\ A!IInv /\ StandbyB
  <2>1. StepsA \/ Failover \/ UNCHANGED vars
    BY <1>2, StepsOfLeader
  <2>2. ASSUME StepsA PROVE A!IInv' /\ StandbyB' /\ leader' = "A"
    BY <1>2, <2>2, LeaderKept DEF StepsA
  <2>3. ASSUME Failover PROVE B!IInv' /\ leader' = "B"
    BY <1>2, <2>3, TakenOver DEF Failover
  <2>4. ASSUME UNCHANGED vars PROVE A!IInv' /\ StandbyB' /\ leader' = "A"
    <3>1. UNCHANGED A!vars /\ UNCHANGED <<api, cacheB, pendingB, timerB, jobB, leader>>
      BY <2>4 DEF vars, common, processA, processB, A!vars
    <3>2. A!IInv'
      BY <1>2, <3>1, ProcessesAssumption, A!InvStep
    <3>3. StandbyB'
      BY <1>2, <3>1
         DEF StandbyB, B!TypedStore, B!StoreCoherent, B!Versions, B!Current, Unset,
             B!IdleJob, NothingPending, A!Keys
    <3> QED BY <1>2, <3>1, <3>2, <3>3
  <2> QED BY <2>1, <2>2, <2>3, <2>4 DEF Elected
<1>3. CASE elect /\ leader = "B" /\ B!IInv
  <2>1. leader' = "B" /\ [B!Next]_(B!vars)
    BY <1>3, StepsOfLeader
  <2>2. B!IInv'
    BY <1>3, <2>1, ProcessesAssumption, B!InvStep
  <2> QED BY <2>1, <2>2 DEF Elected
<1> QED BY <1>1, <1>2, <1>3 DEF Elected

\* With leader election the leader's process has every invariant of a process
\* that works alone, before and after a failover.
THEOREM LeaderIsAlone == Spec => []Elected
BY ElectedInit, ElectedStep, PTL DEF Spec

-----------------------------------------------------------------------------
(* Publishing *)

LEMMA LeaderPublishes ==
  ASSUME Elected, [Next]_vars, elect, NEW s \in SecretNames
  PROVE  A!PublishesWorking(s)
<1>1. B!PublishesWorking(s) => A!PublishesWorking(s)
  BY DEF A!PublishesWorking, B!PublishesWorking
<1>2. CASE leader = "A" /\ A!IInv /\ StandbyB
  <2>1. StepsA \/ Failover \/ UNCHANGED vars
    BY <1>2, StepsOfLeader
  <2>2. CASE StepsA
    BY <1>2, <2>2, ProcessesAssumption, A!PublishingStep DEF StepsA
  <2>3. CASE Failover \/ UNCHANGED vars
    BY <2>3 DEF Failover, A!Relist, vars, common, A!PublishesWorking
  <2> QED BY <2>1, <2>2, <2>3
<1>3. CASE leader = "B" /\ B!IInv
  <2>1. [B!Next]_(B!vars)
    BY <1>3, StepsOfLeader
  <2> QED BY <1>1, <1>3, <2>1, ProcessesAssumption, B!PublishingStep
<1> QED BY <1>2, <1>3 DEF Elected

\* With leader election a password is published only while SurrealDB accepts it:
\* no failover lets the password of one process into a Secret after the account
\* has got another's.
THEOREM LeaderPublishesWorkingPasswords == Spec => LeaderPublishesWorking
<1>1. Elected /\ [Next]_vars => [elect => \A s \in SecretNames : A!PublishesWorking(s)]_vars
  BY LeaderPublishes
<1> QED BY <1>1, LeaderIsAlone, PTL DEF Spec, LeaderPublishesWorking

-----------------------------------------------------------------------------
(* Keeping promises.  What is committed when the leader stops is all that  *)
(* the other process starts from, and it has custody and honesty.          *)

LEMMA SameTargets ==
  /\ A!SafeEdits <=> B!SafeEdits
  /\ \A spec : A!TargetsOf(spec) = B!TargetsOf(spec)
  /\ \A c \in Creds : A!KeepsTarget(c) <=> B!KeepsTarget(c)
<1>1. \A p, spec : A!UserTarget(p, spec) = B!UserTarget(p, spec)
  BY DEF A!UserTarget, B!UserTarget
<1>2. \A spec : A!TargetsOf(spec) = B!TargetsOf(spec)
  BY <1>1 DEF A!TargetsOf, B!TargetsOf
<1> QED BY <1>1, <1>2 DEF A!SafeEdits, B!SafeEdits, A!KeepsTarget, B!KeepsTarget

LEMMA SamePromises ==
  /\ A!NoOrphanUser <=> B!NoOrphanUser
  /\ A!ReadyIsHonest <=> B!ReadyIsHonest
  /\ A!OwnersKnown <=> B!OwnersKnown
BY SameUsers
   DEF A!NoOrphanUser, B!NoOrphanUser, A!ReadyIsHonest, B!ReadyIsHonest,
       A!OwnersKnown, B!OwnersKnown

LEMMA SameCommitted ==
  ASSUME A!Committed
  PROVE  B!Committed
<1>1. \A c \in Creds : A!CommittedAt(c) <=> B!CommittedAt(c)
  BY DEF A!CommittedAt, B!CommittedAt, A!HonestAt, B!HonestAt, A!ReadyNow, B!ReadyNow
<1>2. \A u \in A!Users : A!TargetFound(u) <=> B!TargetFound(u)
  BY SameTargets DEF A!TargetFound, B!TargetFound
<1> QED BY <1>1, <1>2, SameUsers, SamePromises DEF A!Committed, B!Committed

\* Custody and honesty are about the store, the accounts and the call.
LEMMA CustodyAlone ==
  ASSUME B!Custody, B!Honesty, UNCHANGED <<api, users, cacheB, pendingB, jobB>>
  PROVE  B!Custody' /\ B!Honesty'
<1>1. B!Custody'
  BY DEF B!Custody, B!PendingNewer, B!HeldInCustody, B!Versions, B!Guarded, B!Live, B!Dying,
         B!JobInCustody, B!Cleaned, B!NoAccounts, B!Cred, B!OwnersKnown, B!AccountsFound,
         B!NoOrphanUser
<1>2. B!Honesty'
  BY DEF B!Honesty, B!ReadyIsHonest, B!ReadyInCustody, B!ReadyNow, B!Versions, B!Live,
         B!CallIsCurrent, B!Current, B!Cred, B!StatusIsHonest, B!ReportsReady
<1> QED BY <1>1, <1>2

Trusted ==
  elect => \/ leader = "A" /\ A!Custody /\ A!Honesty
           \/ leader = "B" /\ B!Custody /\ B!Honesty

LEMMA TrustedInit == Init => Trusted
<1> SUFFICES ASSUME Init, elect PROVE leader = "A" /\ A!Custody /\ A!Honesty
  BY DEF Trusted
<1>1. A!Init
  BY DEF Init, A!Init, Unset, NothingPending
<1>2. A!Custody /\ A!Honesty
  BY <1>1, ProcessesAssumption, A!CustodyInit, A!HonestyInit
<1> QED BY <1>2 DEF Init

\* While A leads.
LEMMA TrustKeptByA ==
  ASSUME A!SafeEdits, A!IInv, A!Custody, A!Honesty, [A!Next]_(A!vars),
         \A c \in Creds : A!KeepsTarget(c)
  PROVE  A!Custody' /\ A!Honesty'
<1>1. A!IInv'
  BY ProcessesAssumption, A!InvStep
<1>2. A!Custody'
  BY ProcessesAssumption, A!CustodyStep
<1>3. A!Honesty'
  BY <1>1, ProcessesAssumption, A!HonestyStep
<1> QED BY <1>2, <1>3

\* While B leads.
LEMMA TrustKeptByB ==
  ASSUME A!SafeEdits, B!IInv, B!Custody, B!Honesty, [B!Next]_(B!vars),
         \A c \in Creds : A!KeepsTarget(c)
  PROVE  B!Custody' /\ B!Honesty'
<1>1. B!SafeEdits /\ \A c \in Creds : B!KeepsTarget(c)
  BY SameTargets
<1>2. B!IInv'
  BY ProcessesAssumption, B!InvStep
<1>3. B!Custody'
  BY <1>1, ProcessesAssumption, B!CustodyStep
<1>4. B!Honesty'
  BY <1>1, <1>2, ProcessesAssumption, B!HonestyStep
<1> QED BY <1>3, <1>4

\* When B takes over.
LEMMA TrustPassedOn ==
  ASSUME A!Custody, A!Honesty, StandbyB, Failover
  PROVE  B!Custody' /\ B!Honesty'
<1>1. B!Committed
  <2>1. A!Committed
    BY ProcessesAssumption, A!CommittedOfAll
  <2> QED BY <2>1, SameCommitted
<1>2. \A k \in B!Keys : pendingB[k] = {} /\ cacheB[k] = api[k]
  BY SameKeys DEF StandbyB, NothingPending
<1>3. B!Custody /\ B!Honesty
  BY <1>1, <1>2, ProcessesAssumption, B!AllOfCommitted DEF StandbyB, B!IdleJob
<1>4. UNCHANGED <<api, users, cacheB, pendingB, jobB>>
  BY SameKeys DEF Failover, B!Relist, StandbyB, NothingPending
<1> QED BY <1>3, <1>4, CustodyAlone

LEMMA TrustedStep ==
  ASSUME A!SafeEdits, Elected, Trusted, [Next]_vars,
         [\A c \in Creds : A!KeepsTarget(c)]_(A!vars)
  PROVE  Trusted'
<1> \A c \in Creds : A!KeepsTarget(c)
  BY DEF A!KeepsTarget, A!vars
<1>1. CASE ~elect
  BY <1>1, FlagIsFixed DEF Trusted
<1>2. CASE elect /\ leader = "A" /\ A!IInv /\ StandbyB
  <2>1. A!Custody /\ A!Honesty
    BY <1>2 DEF Trusted
  <2>2. StepsA \/ Failover \/ UNCHANGED vars
    BY <1>2, StepsOfLeader
  <2>3. ASSUME StepsA \/ UNCHANGED vars
        PROVE  leader' = "A" /\ [A!Next]_(A!vars)
    BY <1>2, <2>3 DEF StepsA, vars, common, processA, A!vars
  <2>4. ASSUME Failover
        PROVE  leader' = "B" /\ B!Custody' /\ B!Honesty'
    BY <1>2, <2>1, <2>4, TrustPassedOn DEF Failover
  <2> QED BY <1>2, <2>1, <2>2, <2>3, <2>4, TrustKeptByA DEF Trusted
<1>3. CASE elect /\ leader = "B" /\ B!IInv
  <2>1. B!Custody /\ B!Honesty
    BY <1>3 DEF Trusted
  <2>2. leader' = "B" /\ [B!Next]_(B!vars)
    BY <1>3, StepsOfLeader
  <2>3. B!Custody' /\ B!Honesty'
    BY <1>3, <2>1, <2>2, TrustKeptByB
  <2> QED BY <2>2, <2>3 DEF Trusted
<1> QED BY <1>1, <1>2, <1>3 DEF Elected

LEMMA TrustKeepsPromises == Trusted => LeaderKeepsPromises
BY SamePromises
   DEF Trusted, LeaderKeepsPromises, A!Custody, A!Honesty, B!Custody, B!Honesty

\* With leader election the promises hold across the failover, at whatever step of
\* whichever call it comes and however far the cache of either leader lags: every
\* account has the credential that will remove it, and every Ready status is true
\* (main.go 68-70, 162-165, 214-217).
THEOREM PromisesAreKept ==
  ASSUME A!SafeEdits
  PROVE  Spec /\ A!TargetsKept => []LeaderKeepsPromises
<1>1. /\ Elected /\ Trusted /\ [Next]_vars
      /\ [\A c \in Creds : A!KeepsTarget(c)]_(A!vars)
      => Trusted'
  BY TrustedStep
<1> QED BY <1>1, TrustKeepsPromises, TrustedInit, LeaderIsAlone, PTL
        DEF Spec, A!TargetsKept
=============================================================================
