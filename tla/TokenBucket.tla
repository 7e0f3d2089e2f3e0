---------------------------- MODULE TokenBucket ----------------------------
(***************************************************************************)
(* What the rate limiter promises every address: a bucket of its own that  *)
(* starts full, is filled steadily, and pays for every request that is     *)
(* admitted.  No address is ever forgotten here, and no time is read.      *)
(*                                                                         *)
(* The unit of a level is what flows back in one unit of time.             *)
(***************************************************************************)
EXTENDS Naturals

CONSTANTS
    Addresses,  \* the addresses of clients
    Cost,       \* what one request costs: the time between tokens
    Capacity    \* a full bucket: what the burst costs

VARIABLES
    level,      \* level[a]: what the bucket of a holds
    verdict     \* verdict[a]: the answer to the last request of a

bucketVars == <<level, verdict>>

Verdicts == {"none", "admitted", "refused"}

Init ==
    /\ level = [a \in Addresses |-> Capacity]
    /\ verdict = [a \in Addresses |-> "none"]

Filled(n) == IF n < Capacity THEN n + 1 ELSE Capacity

Flow ==
    /\ level' = [a \in Addresses |-> Filled(level[a])]
    /\ UNCHANGED verdict

Admit(a) ==
    /\ level[a] >= Cost
    /\ level' = [level EXCEPT ![a] = @ - Cost]
    /\ verdict' = [verdict EXCEPT ![a] = "admitted"]

Refuse(a) ==
    /\ level[a] < Cost
    /\ verdict' = [verdict EXCEPT ![a] = "refused"]
    /\ UNCHANGED level

Next == Flow \/ \E a \in Addresses : Admit(a) \/ Refuse(a)

Spec == Init /\ [][Next]_bucketVars
=============================================================================
