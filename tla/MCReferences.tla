---------------------------- MODULE MCReferences ----------------------------
(* Instances of ReferenceControllers for TLC. *)
EXTENDS ReferenceControllers

CONSTANTS p1, t1, s1, s2

Plain  == [endpoint |-> "ws", root |-> s1, tls |-> None]
Custom == [endpoint |-> "wss", root |-> s1, tls |-> [ca |-> s2, cert |-> s2]]
Broken == [Plain EXCEPT !.endpoint = "unparsable"]

MCSpecs == {Plain, Custom, Broken}
TwoSpecs == {Plain, Custom}

MCData == {{"username", "password", "ca", "pair"}, {"username", "ca"}}
=============================================================================
