------------------------- MODULE CredentialService --------------------------
(***************************************************************************)
(* What the operator promises, as a tenant sees it and without a           *)
(* reconciler, a queue or a cache: credentials, the SurrealDB accounts     *)
(* that belong to them, and the Secrets that publish those accounts.       *)
(*                                                                         *)
(* A credential is protected before it gets an account, a Secret shows an  *)
(* account as it is when the Secret is written, and a credential leaves    *)
(* only when it has no account left.                                       *)
(***************************************************************************)
EXTENDS Naturals

CONSTANTS Creds, SecretNames,
          Users,          \* the accounts: u.credential is the credential of u
          None, Absent

VARIABLES
  credential,    \* credential[c]: its incarnation and phase, or None
  account,       \* account[u]: password and roles, or None
  secret         \* secret[s]: owner, user and password, or Absent

vars == <<credential, account, secret>>

Phases == {"requested", "protected", "leaving"}

Incarnation(uid, phase) == [uid |-> uid, phase |-> phase]

In(c, phases) == credential[c] # None /\ credential[c].phase \in phases

Accounts(c) == {u \in Users : u.credential = c /\ account[u] # None}

Owner(c) == [credential |-> c, uid |-> credential[c].uid]

\* Nothing but f[k] changes.
Only(f, next, k) == \A j \in DOMAIN f \ {k} : next[j] = f[j]

Init ==
  /\ credential = [c \in Creds |-> None]
  /\ account = [u \in Users |-> None]
  /\ secret = [s \in SecretNames |-> Absent]

\* Where credential c goes from here, in one step.
Moves(c, next) == credential' = [credential EXCEPT ![c] = next]

\* A new incarnation, which owns no Secret yet.
Request(c) ==
  /\ credential[c] = None
  /\ credential'[c] # None
  /\ Moves(c, Incarnation(credential'[c].uid, "requested"))
  /\ \A s \in SecretNames : secret[s] # Absent => secret[s].owner # Owner(c)'
  /\ UNCHANGED <<account, secret>>

Protect(c) ==
  /\ In(c, {"requested"})
  /\ Moves(c, Incarnation(credential[c].uid, "protected"))
  /\ UNCHANGED <<account, secret>>

\* The tenant deletes the credential: it goes at once, or has to be released.
Withdraw(c) ==
  /\ \/ In(c, {"requested"}) /\ Moves(c, None)
     \/ In(c, {"protected"}) /\ Moves(c, Incarnation(credential[c].uid, "leaving"))
  /\ UNCHANGED <<account, secret>>

\* A call that was on its way when the credential was deleted still counts.
Define(u) ==
  /\ In(u.credential, {"protected", "leaving"})
  /\ account'[u] # None
  /\ Only(account, account', u)
  /\ UNCHANGED <<credential, secret>>

Publish(s, u) ==
  /\ In(u.credential, {"protected", "leaving"})
  /\ account[u] # None
  /\ secret[s] # Absent => secret[s].owner = Owner(u.credential)
  /\ secret' = [secret EXCEPT ![s] =
       [owner |-> Owner(u.credential), user |-> u, pw |-> account[u].pw]]
  /\ UNCHANGED <<credential, account>>

Remove(u) ==
  /\ In(u.credential, {"leaving"})
  /\ account' = [account EXCEPT ![u] = None]
  /\ UNCHANGED <<credential, secret>>

Release(c) ==
  /\ In(c, {"leaving"})
  /\ Accounts(c) = {}
  /\ Moves(c, None)
  /\ UNCHANGED <<account, secret>>

\* Secrets can be deleted, blanked, and made by others.
Meddle(s) ==
  /\ \/ secret' = [secret EXCEPT ![s] = Absent]
     \/ secret[s] # Absent /\ secret' = [secret EXCEPT ![s].pw = None]
     \/ /\ secret[s] = Absent
        /\ secret' = [secret EXCEPT ![s] = [owner |-> None, user |-> None, pw |-> None]]
  /\ UNCHANGED <<credential, account>>

Next ==
  \/ \E c \in Creds : Request(c) \/ Protect(c) \/ Withdraw(c) \/ Release(c)
  \/ \E u \in Users : Define(u) \/ Remove(u)
  \/ \E s \in SecretNames : Meddle(s) \/ \E u \in Users : Publish(s, u)

Spec == Init /\ [][Next]_vars
=============================================================================
