---------------------------- MODULE RateLimiter ----------------------------
(***************************************************************************)
(* The rate limiter of internal/httpapi during one life of the process: a  *)
(* table of buckets under a mutex, allow for every request, and collect,   *)
(* which deletes idle buckets when its ticker fires.                       *)
(*                                                                         *)
(* Two clock readings are not taken where they are used.  allow notes when *)
(* it saw the address before the limiter reads the clock again, and        *)
(* collect compares with the time at which the ticker fired, however long  *)
(* it then waited for the mutex.  A goroutine that waits for the mutex has *)
(* done nothing yet, so only the holder is part of the state.              *)
(***************************************************************************)
EXTENDS Integers

CONSTANTS
    Addresses,  \* the addresses of clients
    NULL,
    Cost,       \* the time in which one token comes back
    Capacity,   \* the time in which an empty bucket fills
    TTL,        \* bucketTTL: the period of the ticker, and who is idle
    RetryAfter, \* what a refused client is told to wait
    MaxStall,   \* how long a goroutine that could run may stand still
    MaxTime     \* the clock stops here

\* In the code 50 ms, 2 s, 10 min and 1 s: an idle bucket is full long
\* before it is deleted, and a token is back long before the client is.
ASSUME TimeAssumption ==
    /\ {Cost, Capacity, TTL, RetryAfter, MaxStall, MaxTime} \subseteq Nat
    /\ 0 < Cost /\ Cost <= Capacity
    /\ Capacity + MaxStall <= TTL
    /\ Cost + MaxStall <= RetryAfter

Times == 0..MaxTime
Visits == [ip : Addresses, at : Times]
Buckets == [tokens : 0..Capacity, last : Times, lastSeen : Times]

ASSUME NullAssumption == NULL \notin Buckets \cup Times \cup Visits

VARIABLES
    clock,      \* time.Now, from the start of the server
    buckets,    \* buckets[ip] is a bucket, or NULL
    mu,         \* the call of allow that holds the mutex [ip, at], or NULL
    due,        \* the time that waits in the ticker's channel, or NULL
    nextTick,   \* when the ticker fires next
    collecting, \* collect has not returned
    verdict,    \* verdict[ip]: the answer to the last request
    window,     \* whom an observer watches since when [ip, at], or NULL
    spent       \* the cost of the requests that it saw admitted

tableVars == <<buckets, mu, verdict>>
observerVars == <<window, spent>>
vars == <<clock, tableVars, due, nextTick, collecting, observerVars>>

TypeOK ==
    /\ clock \in Times
    /\ buckets \in [Addresses -> Buckets \cup {NULL}]
    /\ mu \in Visits \cup {NULL}
    /\ due \in Times \cup {NULL}
    /\ nextTick \in Nat
    /\ collecting \in BOOLEAN
    /\ verdict \in [Addresses -> {"none", "admitted", "refused"}]
    /\ window \in Visits \cup {NULL}
    /\ spent \in Nat

Init ==
    /\ clock = 0
    /\ buckets = [ip \in Addresses |-> NULL]
    /\ mu = NULL
    /\ due = NULL
    /\ nextTick = TTL
    /\ collecting = TRUE
    /\ verdict = [ip \in Addresses |-> "none"]
    /\ window = NULL
    /\ spent = 0

-----------------------------------------------------------------------------
(* golang.org/x/time/rate. *)

\* NewLimiter: full, last used at the zero time.
NewBucket == [tokens |-> Capacity, last |-> 0, lastSeen |-> clock]

\* Limiter.advance: what the bucket holds now, computed when it is asked.
Level(b) ==
    IF b.tokens + (clock - b.last) < Capacity THEN b.tokens + (clock - b.last)
    ELSE Capacity

-----------------------------------------------------------------------------
(* allow and collect. *)

\* Lock, the bucket found or made, lastSeen noted.
Enter(ip) ==
    /\ mu = NULL
    /\ mu' = [ip |-> ip, at |-> clock]
    /\ buckets' = [buckets EXCEPT ![ip] =
                     IF @ = NULL THEN NewBucket ELSE [@ EXCEPT !.lastSeen = clock]]
    /\ UNCHANGED <<clock, due, nextTick, collecting, verdict, observerVars>>

\* The observer counts what the address that it watches is granted.
Watched(ip) == window # NULL /\ window.ip = ip

Count(ip) == spent' = IF Watched(ip) THEN spent + Cost ELSE spent

\* limiter.Allow reads the clock again; then Unlock.
Admit ==
    /\ mu # NULL
    /\ Level(buckets[mu.ip]) >= Cost
    /\ buckets' = [buckets EXCEPT ![mu.ip] =
                     [tokens |-> Level(@) - Cost, last |-> clock, lastSeen |-> @.lastSeen]]
    /\ verdict' = [verdict EXCEPT ![mu.ip] = "admitted"]
    /\ Count(mu.ip)
    /\ mu' = NULL
    /\ UNCHANGED <<clock, due, nextTick, collecting, window>>

\* Mutant: a refused request reserves a token that is yet to come.
RefuseAndReserve ==
    /\ mu # NULL
    /\ Level(buckets[mu.ip]) < Cost
    /\ buckets' = [buckets EXCEPT ![mu.ip] =
                     [tokens |-> Level(@) - Cost, last |-> clock, lastSeen |-> @.lastSeen]]
    /\ verdict' = [verdict EXCEPT ![mu.ip] = "refused"]
    /\ mu' = NULL
    /\ UNCHANGED <<clock, due, nextTick, collecting, observerVars>>

\* A request that is refused leaves the limiter as it was: 429.
Refuse ==
    /\ mu # NULL
    /\ Level(buckets[mu.ip]) < Cost
    /\ verdict' = [verdict EXCEPT ![mu.ip] = "refused"]
    /\ mu' = NULL
    /\ UNCHANGED <<clock, buckets, due, nextTick, collecting, observerVars>>

\* Mutants: the bucket is due a token, not idle; nothing is ever idle.
ExpiredEarly(b) == due - b.lastSeen >= Cost
NeverExpired(b) == due < b.lastSeen

Expired(b) == due - b.lastSeen > TTL

\* What collect does with one tick, holding the mutex.
Sweep ==
    /\ collecting
    /\ due # NULL
    /\ mu = NULL
    /\ buckets' = [ip \in Addresses |->
                     IF buckets[ip] # NULL /\ Expired(buckets[ip]) THEN NULL
                     ELSE buckets[ip]]
    /\ due' = NULL
    /\ UNCHANGED <<clock, nextTick, mu, collecting, verdict, observerVars>>

\* SIGTERM: collect returns while requests are still served.
Stop ==
    /\ collecting
    /\ collecting' = FALSE
    /\ due' = NULL
    /\ UNCHANGED <<clock, tableVars, nextTick, observerVars>>

-----------------------------------------------------------------------------
(* Time and the observer. *)

\* Neither the holder of the mutex nor collect stands still for longer than
\* MaxStall.
Tick ==
    /\ clock < MaxTime
    /\ mu # NULL => clock < mu.at + MaxStall
    /\ due # NULL => clock < due + MaxStall
    /\ clock' = clock + 1
    /\ IF clock' = nextTick
       THEN /\ due' = IF collecting /\ due = NULL THEN nextTick ELSE due
            /\ nextTick' = nextTick + TTL
       ELSE UNCHANGED <<due, nextTick>>
    /\ UNCHANGED <<tableVars, collecting, observerVars>>

Watch(ip) ==
    /\ window = NULL
    /\ window' = [ip |-> ip, at |-> clock]
    /\ UNCHANGED <<clock, tableVars, due, nextTick, collecting, spent>>

Next ==
    \/ \E ip \in Addresses : Enter(ip) \/ Watch(ip)
    \/ Admit
    \/ Refuse
    \/ Sweep
    \/ Stop
    \/ Tick

Spec == Init /\ [][Next]_vars

-----------------------------------------------------------------------------
(* Properties. *)

\* What the limiter would grant an address now, known to it or not.
Grant(ip) == IF buckets[ip] = NULL THEN Capacity ELSE Level(buckets[ip])

\* Whenever one begins to count, an address never gets more than the burst
\* and what the rate allows since, whatever buckets were deleted meanwhile:
\* 40 requests and 20 for every second (New: newIPRateLimiter(20, 40)).
RateNeverExceeded ==
    window # NULL => spent <= Capacity + (clock - window.at)

\* The limiter is no stricter either, and answers as one that keeps every
\* bucket for ever and fills it all the time: neither the deletion of idle
\* buckets nor the late look at the clock is ever noticed by a client.
Ideal == INSTANCE TokenBucket WITH level <- [ip \in Addresses |-> Grant(ip)]
ImplementsTokenBucket == Ideal!Spec

\* A client that kept away for the time that Retry-After names is admitted,
\* however often it was refused before.
RetryAfterSuffices ==
    \A ip \in Addresses :
      (buckets[ip] # NULL /\ clock - buckets[ip].lastSeen >= RetryAfter) =>
        Grant(ip) >= Cost

\* The table does not grow for ever: as long as collect runs, the bucket of
\* an address that stays away is gone after two periods of the ticker.
IdleBucketsGo ==
    collecting =>
      \A ip \in Addresses :
        buckets[ip] # NULL => clock - buckets[ip].lastSeen <= 2 * TTL + MaxStall

-----------------------------------------------------------------------------
(* The inductive invariant behind these properties. *)

\* A bucket was last used hardly later than it was last seen: only while the
\* mutex was held.
InOrder(b) ==
    /\ b.last <= clock
    /\ b.lastSeen <= clock
    /\ b.last <= b.lastSeen + MaxStall

HolderSeen ==
    mu # NULL =>
      /\ buckets[mu.ip] # NULL
      /\ mu.at = buckets[mu.ip].lastSeen
      /\ clock <= mu.at + MaxStall

\* No tick is lost: the one before is long handled when the next one fires.
TickerInOrder ==
    /\ clock < nextTick
    /\ nextTick <= clock + TTL
    /\ due # NULL => /\ collecting
                     /\ due = nextTick - TTL
                     /\ clock <= due + MaxStall

LastSweep == IF due = NULL THEN nextTick - TTL ELSE nextTick - 2 * TTL

SweptLately ==
    collecting =>
      \A ip \in Addresses :
        buckets[ip] # NULL => LastSweep - buckets[ip].lastSeen <= TTL

\* What was granted and what could still be granted at once is what came in.
WindowPaid ==
    window # NULL =>
      /\ window.at <= clock
      /\ spent + Grant(window.ip) <= Capacity + (clock - window.at)

IInv ==
    /\ TypeOK
    /\ \A ip \in Addresses : buckets[ip] # NULL => InOrder(buckets[ip])
    /\ HolderSeen
    /\ TickerInOrder
    /\ SweptLately
    /\ WindowPaid
    /\ window = NULL => spent = 0
=============================================================================
