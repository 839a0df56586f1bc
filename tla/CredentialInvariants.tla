------------------------ MODULE CredentialInvariants ------------------------
(***************************************************************************)
(* The inductive invariants behind NoOrphanUser and ImplementsService      *)
(* (Custody), behind ReadyIsHonest (Honesty, beside Custody) and behind    *)
(* RotationNotDelayed and ReusesPassword (Schedule and FreshCall); all of  *)
(* them need IInv, which is behind the other safety properties.            *)
(***************************************************************************)
EXTENDS CredentialProperties

(* Custody *)

\* The accounts that a spec can ask for.
TargetsOf(spec) == {UserTarget(p, spec) : p \in Policies}

\* What they are promised for: what a policy says of the provider and of the
\* SurrealDB namespace never changes, nobody asks for force cleanup ...
SafeEdits ==
  /\ \A p \in Policies, q \in Policies, spec \in Specs :
       UserTarget(p, spec) = UserTarget(q, spec)
  /\ "Force" \notin EnvEdits

\* ... and nobody changes the level or the database of a credential: who wants
\* another has to delete it and create it anew.
KeepsTarget(c) ==
  api[c].obj # Absent /\ api'[c].obj # Absent =>
    TargetsOf(api'[c].obj.spec) = TargetsOf(api[c].obj.spec)

TargetsKept == [][\A c \in Creds : KeepsTarget(c)]_vars

Guarded(c) == api[c].obj # Absent /\ api[c].obj.finalizer

\* The watch still has to deliver what is newer than the cache, one version at
\* a time.
PendingNewer(k) ==
  /\ \A v \in pending[k] : cache[k].rv < v.rv
  /\ \A v, w \in pending[k] : v.rv = w.rv => v = w

\* A live version that somebody holds is of the incarnation that is there, and
\* that is protected; a dying version is newer than the live ones.
HeldInCustody(c) ==
  /\ \A v \in Versions(c) : v.obj # Absent => v.obj.uid <= v.rv /\ ~v.obj.force
  /\ \A v \in Versions(c) : Live(v.obj) => Guarded(c) /\ api[c].obj.uid = v.obj.uid
  /\ \A v, w \in Versions(c) : Dying(v.obj) /\ Live(w.obj) => w.rv < v.rv

\* The user has been removed and the finalizer is what remains.
Cleaned(j) ==
  \/ j.pc \in {"deleteSecret", "removeFinalizer"}
  \/ j.pc = "recordFailure" /\ j.after = "removeFinalizer"

NoAccounts(c) == \A u \in Users : u.credential = c => users[u] = None

\* A call that makes an account works for the incarnation that is there, which
\* keeps its finalizer; a cleanup knows of no live version, and once it is past
\* RemoveUser there is no account.
JobInCustody ==
  /\ job.pc \in {"define", "secret"} =>
       Guarded(job.req) /\ api[job.req].obj.uid = Cred.uid
  /\ job.pc \in {"define", "secret", "removeUser"} => job.user.credential = job.req
  /\ job.pc = "removeUser" \/ Cleaned(job) => \A v \in Versions(job.req) : ~Live(v.obj)
  /\ Cleaned(job) => NoAccounts(job.req)

\* No Secret names an incarnation that is yet to come.
OwnersKnown ==
  \A s \in SecretNames :
    LET o == api[s].obj
    IN  o # Absent /\ o.owner # None => o.owner.uid <= api[o.owner.credential].rv

\* A guarded credential is known with one target, and its accounts are there.
AccountsFound ==
  /\ \A c \in Creds : Guarded(c) =>
       \A v \in Versions(c) : v.obj # Absent =>
         TargetsOf(v.obj.spec) = TargetsOf(api[c].obj.spec)
  /\ \A u \in Users : users[u] # None =>
       u.target \in TargetsOf(api[u.credential].obj.spec)
  /\ job.pc \in {"define", "secret", "removeUser"} /\ Guarded(job.req) =>
       job.user.target \in TargetsOf(api[job.req].obj.spec)

Custody ==
  /\ \A k \in Keys : PendingNewer(k)
  /\ \A c \in Creds : HeldInCustody(c)
  /\ JobInCustody
  /\ OwnersKnown
  /\ AccountsFound
  /\ NoOrphanUser

-----------------------------------------------------------------------------
(* Honesty *)

ReportsReady(status) == status.conds["Ready"].reason = "Reconciled"

\* It says that its current generation is reconciled.
ReadyNow(o) ==
  /\ o # Absent /\ ~o.deleting
  /\ o.status.conds["Ready"] = [reason |-> "Reconciled", gen |-> o.gen]

\* Nobody holds a version of a ready credential with another spec, so nobody is
\* about to give its account other roles.
ReadyInCustody(c) ==
  LET o == api[c].obj
  IN  /\ o # Absent /\ ~o.deleting => o.status.conds["Ready"].gen <= o.gen
      /\ ReadyNow(o) =>
           /\ o.finalizer
           /\ o.status.user # None /\ o.status.user.credential = c
           /\ \A v \in Versions(c) : v.obj # Absent => v.obj.spec = o.spec
           /\ job.pc # "idle" /\ job.req = c => Cred.spec = o.spec

\* The call works on a version that was committed, of a credential that lives
\* if it makes an account.
CallIsCurrent ==
  /\ job.pc # "idle" => Current(job.req, job.credential)
  /\ job.pc \in {"define", "secret"} =>
       Live(Cred) /\ job.credential.rv <= cache[job.req].rv /\ job.status.user = job.user

\* A status is about the generation the call works on, and says Ready only of
\* an account with the roles of that generation's spec.
StatusIsHonest ==
  /\ job.pc \in {"status", "recordFailure"} => job.status.conds["Ready"].gen = Cred.gen
  /\ job.pc = "recordFailure" => ~ReportsReady(job.status)
  /\ job.pc = "status" /\ ReportsReady(job.status) =>
       /\ Live(Cred) /\ job.credential.rv <= cache[job.req].rv
       /\ job.after # "repeat"
       /\ job.status.user \in Users /\ job.status.user.credential = job.req
       /\ users[job.status.user] # None
       /\ users[job.status.user].roles = Cred.spec.roles

Honesty ==
  /\ ReadyIsHonest
  /\ \A c \in Creds : ReadyInCustody(c)
  /\ CallIsCurrent /\ StatusIsHonest

-----------------------------------------------------------------------------
(* Schedule *)

Later(s, t) == s # None /\ t # None /\ t < s

\* The version that a call works on was committed.
CallHeld == job.pc # "idle" => Current(job.req, job.credential)

\* The status of a call that has not written its Secret has the schedule it has
\* read; a status on its way moves it back only where there is a new password.
ScheduleKept ==
  /\ job.pc \in {"define", "secret"} =>
       /\ job.status.nextRot = Cred.status.nextRot
       /\ Later(job.decision.NextRotationTime, Cred.status.nextRot) =>
            MakesPassword(job.decision)
  /\ (job.pc \in {"status", "recordFailure"}
        /\ Later(job.status.nextRot, Cred.status.nextRot)) =>
       MakesPassword(job.decision)

\* A call that has read a password keeps it, or what it has read asks for another.
PasswordDue ==
  job.pc \in {"define", "secret"} =>
    LET secret == job.existing.obj
    IN  secret # Absent /\ secret.pw # None =>
          job.password = secret.pw \/ RotationWanted(Cred, Cred.status)

Schedule == CallHeld /\ ScheduleKept /\ PasswordDue

\* What a lagging cache may spoil: the status that a call has read stays the
\* committed one until the call itself writes another ...
FreshCall ==
  job.pc \in {"define", "secret"} =>
    Guarded(job.req) /\ api[job.req].obj.status = Cred.status

\* ... provided that the cache shows the committed credential when a call starts.
StartsFresh ==
  job.pc = "idle" /\ job'.pc # "idle" => cache[job'.req] = api[job'.req]

FreshStarts == [][StartsFresh]_vars
=============================================================================
