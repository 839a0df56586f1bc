----------------------------- MODULE MCOperator -----------------------------
(* An instance of Operator for TLC: one provider with one root Secret. *)
EXTENDS Operator, MCCredential

CONSTANTS root

Plain  == [endpoint |-> "ws", root |-> root, tls |-> None]
Secure == [Plain EXCEPT !.endpoint = "wss"]

\* A CA of its own: refused on connecting, if the Secret has one at all.
Custom == [Secure EXCEPT !.tls = [ca |-> root, cert |-> None]]

MCSpecs == {Plain, Secure, Custom}
Full    == {"username", "password", "ca"}
MCData  == {Full, Full \ {"ca"}}

\* The first two endpoints are interchangeable, and so are the contents of the Secret to
\* a provider that has no CA of its own.
Start ==
  LET p == rapi["primary"]
  IN  p.rv = 0 /\ rapi[root].rv = 0 =>
        p.obj.spec = Custom \/ (p.obj.spec = Plain /\ rapi[root].obj = Full)

\* The provider goes and comes back as it was, and nothing else is changed around the
\* credential.
AwayAndBack ==
  /\ api[PolicyName].rv = 0
  /\ rapi[root].rv = 0 /\ rapi[root].obj = Full
  /\ LET p == rapi["primary"].obj IN p = Absent \/ p.spec = Plain

\* Three edits in all, and four of a credential and a provider that comes back: enough
\* to create and delete the one while the other goes and returns.
Bounds == Start /\ edits + platformEdits <= (IF AwayAndBack THEN 4 ELSE 3)
=============================================================================
