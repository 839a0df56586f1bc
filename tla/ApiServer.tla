----------------------------- MODULE ApiServer -----------------------------
(***************************************************************************)
(* The Kubernetes API server and the informer cache of controller-runtime, *)
(* as the reconcilers use them through client.Client.  Both are external   *)
(* to the operator.                                                        *)
(*                                                                         *)
(* A key names one object.  A version of it is [rv, obj]: the resource     *)
(* version and the object, Absent when there is none.  Reads (r.Get) are   *)
(* answered from cache; writes go to api; a committed version waits in     *)
(* pending until the watch delivers it to the cache, oldest first and      *)
(* independently for every key.  Delivery therefore models a cache that    *)
(* lags by any number of versions, and two caches (credentials and         *)
(* Secrets, say) that lag each other.                                      *)
(***************************************************************************)
EXTENDS Naturals

CONSTANT Absent      \* the object of a key that does not exist

VARIABLES api,       \* api[k]: the committed version of key k
          cache,     \* cache[k]: the version the informer cache holds
          pending    \* pending[k]: committed versions not yet delivered

store == <<api, cache, pending>>

Versions(k) == {api[k], cache[k]} \cup pending[k]

\* A write that changes nothing keeps the resource version and sends no event.
Commit(k, o) ==
  LET v == [rv |-> api[k].rv + 1, obj |-> o]
  IN  /\ IF o = api[k].obj
         THEN UNCHANGED <<api, pending>>
         ELSE /\ api' = [api EXCEPT ![k] = v]
              /\ pending' = [pending EXCEPT ![k] = @ \cup {v}]
      /\ UNCHANGED cache

\* Update and Status().Update are compare-and-swap on the resource version.
AcceptsUpdate(k, rv) == api[k].obj # Absent /\ api[k].rv = rv

\* Create fails with AlreadyExists when the object is there.
AcceptsCreate(k) == api[k].obj = Absent

\* The watch hands the oldest undelivered version of k to the cache.
Deliver(k) ==
  \E v \in pending[k] :
    /\ \A w \in pending[k] : v.rv <= w.rv
    /\ cache' = [cache EXCEPT ![k] = v]
    /\ pending' = [pending EXCEPT ![k] = @ \ {v}]
    /\ UNCHANGED api

\* A new process lists every object before it reconciles anything.
Relist ==
  /\ cache' = api
  /\ pending' = [k \in DOMAIN pending |-> {}]
  /\ UNCHANGED api

=============================================================================
