------------------------------ MODULE Balancer ------------------------------
(***************************************************************************)
(* The gateway's service proxy: a request asks Consul for the healthy      *)
(* instances of a service, and then the round-robin balancer picks one     *)
(* with a counter that all requests and all services share.  The instances *)
(* may change in between.  The counter is a uint64 that wraps, here modulo *)
(* CounterSize.                                                            *)
(***************************************************************************)
EXTENDS Naturals

CONSTANTS
  ProxyRequests, \* requests for the service that may be under way together
  CounterSize,   \* 2^64 in the code
  MaxInstances,  \* bound: instances of a service
  MaxStrays      \* bound: picks for others between two changes of the list

ASSUME BalancerAssumption ==
  CounterSize \in Nat \ {0} /\ MaxInstances \in Nat /\ MaxStrays \in Nat

VARIABLES
  current,       \* RoundRobin.current
  healthy,       \* how many instances Consul lists
  listed,          \* the list each request holds: "none", "fresh" or "stale"
  served,        \* requests each instance of the list got since it changed
  strays,        \* counter values since then that went to other services, or
                 \* to requests with a list from before
  wraps          \* how often the counter wrapped since then

balancerVars == <<current, healthy, listed, served, strays, wraps>>

BalancerInit ==
  /\ current = 0 /\ healthy = 0 /\ listed = [r \in ProxyRequests |-> "none"]
  /\ served = [i \in 0..MaxInstances - 1 |-> 0]
  /\ strays = 0 /\ wraps = 0

\* A pick that looks at the counter before and after it adds to it.
NextTorn == {current, (current + 1) % CounterSize}

\* AddUint64 returns the new value, which no other request gets.
NextIndex == {(current + 1) % CounterSize}

Advance ==
  /\ current' = (current + 1) % CounterSize
  /\ wraps' = wraps + IF current' = 0 THEN 1 ELSE 0

\* ServeHTTP asks for the list, and answers 502 when nothing is on it.
Discover(r) ==
  /\ listed[r] = "none" /\ healthy > 0
  /\ listed' = [listed EXCEPT ![r] = "fresh"]
  /\ UNCHANGED <<current, healthy, served, strays, wraps>>

\* The balancer picks from the list the request holds.
Next(r) ==
  /\ listed[r] # "none"
  /\ listed' = [listed EXCEPT ![r] = "none"]
  /\ IF listed[r] = "fresh"
       THEN /\ \A i \in DOMAIN served : served[i] < CounterSize
            /\ \E idx \in NextIndex : served' = [served EXCEPT ![idx % healthy] = @ + 1]
            /\ UNCHANGED strays
       ELSE /\ strays < MaxStrays /\ strays' = strays + 1
            /\ UNCHANGED served
  /\ Advance
  /\ UNCHANGED healthy

\* A request for another service advances the same counter.
NextOther ==
  /\ strays < MaxStrays /\ strays' = strays + 1
  /\ Advance
  /\ UNCHANGED <<healthy, listed, served>>

\* Instances come, go, pass or fail their checks, or one takes another's
\* place.
InstancesChange ==
  /\ healthy' \in 0..MaxInstances
  /\ listed' = [r \in ProxyRequests |-> IF listed[r] = "none" THEN "none" ELSE "stale"]
  /\ served' = [i \in 0..MaxInstances - 1 |-> 0]
  /\ strays' = 0 /\ wraps' = 0
  /\ UNCHANGED current

BalancerNext ==
  \/ \E r \in ProxyRequests : Discover(r) \/ Next(r)
  \/ NextOther \/ InstancesChange

----------------------------------------------------------------------------
\* While the list of a service stays as it is, its instances get the same
\* number of requests give or take one, and one more for each counter value
\* that went elsewhere and for each time the counter wrapped: neither a stale
\* list nor the shared counter puts it out of step for good.
RoundRobinFair ==
  \A i \in 0..healthy - 1, j \in 0..healthy - 1 :
    served[i] <= served[j] + 1 + strays + wraps
=============================================================================
