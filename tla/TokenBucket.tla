----------------------------- MODULE TokenBucket -----------------------------
(***************************************************************************)
(* What a rate limiter promises the server: of each client it lets no more *)
(* through than a bucket of the given capacity that gains Rate tokens a    *)
(* second.  How it does so, and when it refuses, is its own affair.        *)
(***************************************************************************)
EXTENDS Integers

CONSTANTS IPs, Rate, Capacity

VARIABLE level    \* the tokens left to each client

Init == level = [ip \in IPs |-> Capacity]

Grant(ip) ==
  /\ level[ip] > 0
  /\ level' = [level EXCEPT ![ip] = @ - 1]

\* A second passes
Refill ==
  level' = [ip \in IPs |-> IF level[ip] + Rate < Capacity THEN level[ip] + Rate ELSE Capacity]

Next == Refill \/ \E ip \in IPs : Grant(ip)

Spec == Init /\ [][Next]_level

=============================================================================
