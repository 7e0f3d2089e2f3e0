------------------------- MODULE RateLimiterProofs -------------------------
(***************************************************************************)
(* The rate limiter keeps its rate and answers as the ideal one does, for  *)
(* every rate, burst, number of addresses and period of the ticker that    *)
(* meet TimeAssumption.                                                    *)
(***************************************************************************)
EXTENDS RateLimiter, TLAPS

USE TimeAssumption, NullAssumption

\* The assumptions as the provers use them.
LEMMA Constants ==
  /\ Cost \in Nat /\ Capacity \in Nat /\ TTL \in Nat /\ RetryAfter \in Nat
  /\ MaxStall \in Nat /\ MaxTime \in Nat
  /\ Cost > 0 /\ Cost <= Capacity
  /\ Capacity + MaxStall <= TTL /\ Cost + MaxStall <= RetryAfter
  OBVIOUS

LEMMA InitIInv == Init => IInv
<1> SUFFICES ASSUME Init PROVE IInv
  OBVIOUS
<1>1. TypeOK
  BY Constants DEF Init, TypeOK, Times
<1>2. TickerInOrder /\ SweptLately /\ HolderSeen /\ WindowPaid
  BY Constants DEF Init, TickerInOrder, SweptLately, HolderSeen, WindowPaid
<1> QED
  BY <1>1, <1>2 DEF Init, IInv

-----------------------------------------------------------------------------
\* The level of a bucket is between nothing and full, and follows the time.
LEMMA LevelBounds ==
  ASSUME TypeOK, NEW b \in Buckets, b.last <= clock
  PROVE  /\ Level(b) \in 0..Capacity
         /\ Level(b) <= b.tokens + (clock - b.last)
         /\ Level(b) = Capacity \/ Level(b) >= clock - b.last
  BY Constants DEF TypeOK, Buckets, Times, Level

\* A bucket that has rested for a whole TTL is full.
LEMMA RestedIsFull ==
  ASSUME TypeOK, NEW b \in Buckets, InOrder(b), clock - b.lastSeen > TTL
  PROVE  Level(b) = Capacity
  BY Constants DEF TypeOK, Buckets, Times, Level, InOrder

\* What is granted is a number between nothing and a full bucket.
LEMMA GrantBounds ==
  ASSUME IInv, NEW ip \in Addresses
  PROVE  Grant(ip) \in 0..Capacity
<1>1. CASE buckets[ip] = NULL
  BY <1>1, Constants DEF Grant
<1>2. CASE buckets[ip] # NULL
  <2>1. buckets[ip] \in Buckets /\ buckets[ip].last <= clock
    BY <1>2 DEF IInv, TypeOK, InOrder
  <2> QED
    BY <1>2, <2>1, LevelBounds DEF Grant, IInv
<1> QED
  BY <1>1, <1>2

-----------------------------------------------------------------------------
(* What each step does to the bucket of an address, and to what it grants. *)

LEMMA EnterKeepsGrant ==
  ASSUME IInv, NEW ip \in Addresses, Enter(ip), NEW a \in Addresses
  PROVE  Grant(a)' = Grant(a)
<1>1. clock' = clock
  BY DEF Enter
<1>2. CASE a # ip
  BY <1>1, <1>2 DEF Enter, IInv, TypeOK, Grant, Level
<1>3. CASE a = ip /\ buckets[ip] = NULL
  <2>1. buckets'[ip] = NewBucket
    BY <1>3 DEF Enter, IInv, TypeOK
  <2>2. NewBucket \in Buckets /\ clock \in Nat
    BY Constants DEF NewBucket, Buckets, Times, IInv, TypeOK
  <2>3. NewBucket.tokens = Capacity /\ NewBucket.last = 0
    BY DEF NewBucket
  <2>4. Level(NewBucket)' = Capacity
    BY <1>1, <2>2, <2>3, Constants DEF Level, NewBucket
  <2>5. Grant(a)' = Capacity
    BY <1>1, <1>3, <2>1, <2>2, <2>3, Constants DEF Grant, Level
  <2> QED
    BY <1>3, <2>5 DEF Grant
<1>4. CASE a = ip /\ buckets[ip] # NULL
  <2>1. buckets[ip] \in Buckets
    BY <1>4 DEF IInv, TypeOK
  <2>2. buckets'[ip] = [buckets[ip] EXCEPT !.lastSeen = clock]
    BY <1>4 DEF Enter, IInv, TypeOK
  <2>3. /\ buckets'[ip].tokens = buckets[ip].tokens
        /\ buckets'[ip].last = buckets[ip].last
        /\ buckets'[ip] \in Buckets
    BY <2>1, <2>2 DEF Buckets, IInv, TypeOK
  <2> QED
    BY <1>1, <1>4, <2>3 DEF Grant, Level
<1> QED
  BY <1>2, <1>3, <1>4

LEMMA HolderIsClient ==
  ASSUME IInv, mu # NULL
  PROVE  mu.ip \in Addresses
  BY DEF IInv, TypeOK, Visits

LEMMA AdmitPays ==
  ASSUME IInv, Admit, NEW ip \in Addresses, ip = mu.ip
  PROVE  /\ buckets'[ip] \in Buckets
         /\ buckets'[ip].last = clock
         /\ buckets'[ip].lastSeen = buckets[ip].lastSeen
         /\ Grant(ip) >= Cost
         /\ Grant(ip)' = Grant(ip) - Cost
         /\ \A a \in Addresses \ {ip} : buckets'[a] = buckets[a] /\ Grant(a)' = Grant(a)
<1> DEFINE b == buckets[ip]
           paid == [tokens |-> Level(b) - Cost, last |-> clock, lastSeen |-> b.lastSeen]
<1>1. b # NULL /\ b \in Buckets /\ b.last <= clock
  BY DEF Admit, IInv, TypeOK, HolderSeen, InOrder
<1>2. Level(b) \in 0..Capacity /\ Level(b) >= Cost /\ clock \in Times
  BY <1>1, LevelBounds DEF Admit, IInv, TypeOK
<1>3. paid \in Buckets
  BY <1>1, <1>2, Constants DEF Buckets
<1>4. buckets' = [buckets EXCEPT ![ip] = paid] /\ clock' = clock
  BY DEF Admit
<1>5. buckets'[ip] = paid
  BY <1>1, <1>4 DEF IInv, TypeOK
<1>6. Grant(ip)' = Level(b) - Cost
  <2>1. paid # NULL /\ paid.tokens = Level(b) - Cost /\ paid.last = clock
    BY <1>3
  <2> HIDE DEF paid, b
  <2> QED
    BY <1>2, <1>4, <1>5, <2>1, Constants DEF Grant, Level, Times
<1>7. Grant(ip) = Level(b)
  BY <1>1 DEF Grant
<1>8. \A a \in Addresses \ {ip} : buckets'[a] = buckets[a] /\ Grant(a)' = Grant(a)
  BY <1>4 DEF Grant, Level, IInv, TypeOK
<1> QED
  BY <1>1, <1>2, <1>3, <1>5, <1>6, <1>7, <1>8

\* No bucket that is deleted had anything to remember.
LEMMA SweepKeepsGrant ==
  ASSUME IInv, Sweep, NEW a \in Addresses
  PROVE  /\ Grant(a)' = Grant(a)
         /\ buckets'[a] # NULL => /\ buckets'[a] = buckets[a]
                                  /\ due - buckets[a].lastSeen <= TTL
<1>1. /\ clock' = clock
      /\ buckets'[a] = IF buckets[a] # NULL /\ Expired(buckets[a]) THEN NULL ELSE buckets[a]
  BY DEF Sweep
<1>2. CASE buckets[a] # NULL /\ Expired(buckets[a])
  <2>1. buckets[a] \in Buckets /\ InOrder(buckets[a])
    BY <1>2 DEF IInv, TypeOK
  <2>2. due \in Times /\ due <= clock
    BY Constants DEF Sweep, IInv, TypeOK, TickerInOrder, Times
  <2>3. clock - buckets[a].lastSeen > TTL
    BY <1>2, <2>1, <2>2, Constants DEF Expired, IInv, TypeOK, Times, Buckets
  <2>4. Level(buckets[a]) = Capacity
    BY <2>1, <2>3, RestedIsFull DEF IInv
  <2> QED
    BY <1>1, <1>2, <2>4 DEF Grant
<1>3. CASE buckets[a] = NULL
  BY <1>1, <1>3 DEF Grant
<1>4. CASE buckets[a] # NULL /\ ~Expired(buckets[a])
  <2>1. buckets[a] \in Buckets /\ due \in Nat
    BY <1>4 DEF Sweep, IInv, TypeOK, Times
  <2> QED
    BY <1>1, <1>4, <2>1, Constants DEF Grant, Level, Expired, Buckets, Times
<1> QED
  BY <1>2, <1>3, <1>4

\* A unit of time fills every bucket by one unit, up to the brim.
LEMMA TickFills ==
  ASSUME IInv, Tick, NEW a \in Addresses
  PROVE  Grant(a)' = IF Grant(a) < Capacity THEN Grant(a) + 1 ELSE Capacity
<1>1. buckets' = buckets /\ clock' = clock + 1 /\ clock \in Nat
  BY DEF Tick, tableVars, IInv, TypeOK, Times
<1>2. CASE buckets[a] = NULL
  BY <1>1, <1>2, Constants DEF Grant
<1>3. CASE buckets[a] # NULL
  <2>1. /\ buckets[a].tokens \in Nat /\ buckets[a].last \in Nat
        /\ buckets[a].last <= clock
    BY <1>3 DEF IInv, TypeOK, InOrder, Buckets, Times
  <2> QED
    BY <1>1, <1>3, <2>1, Constants DEF Grant, Level
<1> QED
  BY <1>2, <1>3

-----------------------------------------------------------------------------
(* Every step keeps the invariant. *)

LEMMA EnterKeepsIInv ==
  ASSUME IInv, NEW ip \in Addresses, Enter(ip)
  PROVE  IInv'
<1>1. /\ clock' = clock /\ due' = due /\ nextTick' = nextTick
      /\ collecting' = collecting /\ window' = window /\ spent' = spent
      /\ verdict' = verdict /\ mu' = [ip |-> ip, at |-> clock] /\ clock \in Times
  BY DEF Enter, observerVars, IInv, TypeOK
<1>2. /\ buckets'[ip] \in Buckets
      /\ buckets'[ip].lastSeen = clock
      /\ buckets'[ip].last <= clock
      /\ \A a \in Addresses \ {ip} : buckets'[a] = buckets[a]
      /\ buckets' \in [Addresses -> Buckets \cup {NULL}]
  <2>1. CASE buckets[ip] = NULL
    <3>1. NewBucket \in Buckets /\ NewBucket.lastSeen = clock /\ NewBucket.last <= clock
      BY <1>1, Constants DEF NewBucket, Buckets, Times
    <3> QED
      BY <2>1, <3>1 DEF Enter, IInv, TypeOK
  <2>2. CASE buckets[ip] # NULL
    <3>1. buckets[ip] \in Buckets /\ buckets[ip].last <= clock
      BY <2>2 DEF IInv, TypeOK, InOrder
    <3>2. buckets' = [buckets EXCEPT ![ip] = [buckets[ip] EXCEPT !.lastSeen = clock]]
      BY <2>2 DEF Enter, IInv, TypeOK
    <3>3. [buckets[ip] EXCEPT !.lastSeen = clock] \in Buckets
      BY <1>1, <3>1 DEF Buckets
    <3> QED
      BY <1>1, <3>1, <3>2, <3>3 DEF IInv, TypeOK, Buckets
  <2> QED
    BY <2>1, <2>2
<1>3. TypeOK'
  BY <1>1, <1>2 DEF IInv, TypeOK, Visits
<1>4. (\A a \in Addresses : buckets[a] # NULL => InOrder(buckets[a]))'
  BY <1>1, <1>2, Constants DEF IInv, TypeOK, InOrder, Times, Buckets
<1>5. HolderSeen'
  BY <1>1, <1>2, Constants DEF HolderSeen, Times
<1>6. TickerInOrder'
  BY <1>1 DEF IInv, TickerInOrder
<1>7. SweptLately'
  <2>1. LastSweep' = LastSweep /\ LastSweep - clock <= TTL
    BY <1>1, Constants DEF LastSweep, IInv, TypeOK, TickerInOrder, Times
  <2> QED
    BY <1>1, <1>2, <2>1 DEF IInv, SweptLately
<1>8. WindowPaid'
  <2>1. window # NULL => window.ip \in Addresses
    BY DEF IInv, TypeOK, Visits
  <2>2. \A a \in Addresses : Grant(a)' = Grant(a)
    BY EnterKeepsGrant
  <2> QED
    BY <1>1, <2>1, <2>2 DEF IInv, WindowPaid, Grant
<1> QED
  BY <1>1, <1>3, <1>4, <1>5, <1>6, <1>7, <1>8 DEF IInv

LEMMA AdmitKeepsIInv ==
  ASSUME IInv, Admit
  PROVE  IInv'
<1>1. PICK ip \in Addresses : ip = mu.ip
  BY HolderIsClient DEF Admit
<1>2. /\ clock' = clock /\ due' = due /\ nextTick' = nextTick
      /\ collecting' = collecting /\ window' = window /\ mu' = NULL
      /\ spent' = IF Watched(ip) THEN spent + Cost ELSE spent
      /\ verdict' = [verdict EXCEPT ![ip] = "admitted"]
      /\ mu # NULL /\ clock \in Times
  BY <1>1 DEF Admit, Count, IInv, TypeOK
<1>3. /\ buckets'[ip] \in Buckets
      /\ buckets'[ip].last = clock
      /\ buckets'[ip].lastSeen = buckets[ip].lastSeen
      /\ Grant(ip)' = Grant(ip) - Cost
      /\ \A a \in Addresses \ {ip} : buckets'[a] = buckets[a] /\ Grant(a)' = Grant(a)
  BY <1>1, AdmitPays
<1>4. TypeOK'
  <2>1. buckets' \in [Addresses -> Buckets \cup {NULL}]
    BY <1>3 DEF Admit, IInv, TypeOK
  <2>2. spent' \in Nat /\ verdict' \in [Addresses -> {"none", "admitted", "refused"}]
    BY <1>2, Constants DEF IInv, TypeOK
  <2> QED
    BY <1>2, <2>1, <2>2 DEF IInv, TypeOK
<1>5. buckets[ip] # NULL /\ InOrder(buckets[ip]) /\ clock <= buckets[ip].lastSeen + MaxStall
  BY <1>1, <1>2 DEF IInv, HolderSeen
<1>6. (\A a \in Addresses : buckets[a] # NULL => InOrder(buckets[a]))'
  BY <1>2, <1>3, <1>5 DEF IInv, InOrder, Times
<1>7. SweptLately'
  BY <1>2, <1>3, <1>5 DEF IInv, SweptLately, LastSweep
<1>8. WindowPaid'
  <2>1. window # NULL => window.ip \in Addresses /\ window.at \in Nat
    BY DEF IInv, TypeOK, Visits, Times
  <2>2. Grant(ip) \in Nat /\ spent \in Nat
    BY GrantBounds, Constants DEF IInv, TypeOK
  <2>3. CASE Watched(ip)
    BY <1>2, <1>3, <2>1, <2>2, <2>3, Constants DEF IInv, WindowPaid, Watched, Times
  <2>4. CASE ~Watched(ip)
    <3>1. window # NULL => Grant(window.ip)' = Grant(window.ip)
      BY <1>2, <1>3, <2>1, <2>4 DEF Watched, Grant, Level
    <3> QED
      BY <1>2, <2>4, <3>1 DEF IInv, WindowPaid, Grant, Level
  <2> QED
    BY <2>3, <2>4
<1> QED
  BY <1>2, <1>4, <1>6, <1>7, <1>8 DEF IInv, HolderSeen, TickerInOrder, Watched

LEMMA SweepKeepsIInv ==
  ASSUME IInv, Sweep
  PROVE  IInv'
<1>1. /\ clock' = clock /\ nextTick' = nextTick /\ mu' = mu /\ mu = NULL
      /\ collecting' = collecting /\ verdict' = verdict
      /\ window' = window /\ spent' = spent /\ due' = NULL
      /\ due # NULL /\ due = nextTick - TTL
  BY DEF Sweep, observerVars, IInv, TickerInOrder
<1>2. \A a \in Addresses :
        /\ Grant(a)' = Grant(a)
        /\ buckets'[a] # NULL => /\ buckets'[a] = buckets[a]
                                 /\ due - buckets[a].lastSeen <= TTL
  BY SweepKeepsGrant
<1>3. TypeOK'
  BY <1>1 DEF Sweep, IInv, TypeOK
<1>4. (\A a \in Addresses : buckets[a] # NULL => InOrder(buckets[a]))'
  BY <1>1, <1>2 DEF IInv, InOrder
<1>5. SweptLately'
  BY <1>1, <1>2 DEF SweptLately, LastSweep
<1>6. WindowPaid'
  BY <1>1, <1>2 DEF IInv, TypeOK, Visits, WindowPaid, Grant, Level
<1> QED
  BY <1>1, <1>3, <1>4, <1>5, <1>6 DEF IInv, HolderSeen, TickerInOrder

LEMMA TickKeepsIInv ==
  ASSUME IInv, Tick
  PROVE  IInv'
<1>1. /\ clock' = clock + 1 /\ clock \in Nat /\ clock < MaxTime
      /\ buckets' = buckets /\ mu' = mu /\ verdict' = verdict
      /\ collecting' = collecting /\ window' = window /\ spent' = spent
      /\ mu # NULL => clock < mu.at + MaxStall
      /\ due # NULL => clock < due + MaxStall
  BY DEF Tick, tableVars, observerVars, IInv, TypeOK, Times
<1>2. /\ nextTick \in Nat /\ clock < nextTick /\ nextTick <= clock + TTL
      /\ due # NULL => due \in Nat /\ collecting /\ due = nextTick - TTL
  BY DEF IInv, TypeOK, TickerInOrder, Times
<1>3. \/ /\ clock + 1 = nextTick
         /\ due = NULL
         /\ due' = IF collecting THEN nextTick ELSE NULL
         /\ nextTick' = nextTick + TTL
      \/ /\ clock + 1 # nextTick
         /\ due' = due
         /\ nextTick' = nextTick
  <2>1. clock + 1 = nextTick => due = NULL
    BY <1>1, <1>2, Constants
  <2> QED
    BY <1>1, <2>1 DEF Tick
<1>4. TypeOK'
  <2>1. clock' \in Times /\ (due' # NULL => due' \in Times) /\ nextTick' \in Nat
    BY <1>1, <1>2, <1>3, Constants DEF Times, IInv, TypeOK
  <2> QED
    BY <1>1, <2>1 DEF IInv, TypeOK
<1>5. (\A a \in Addresses : buckets[a] # NULL => InOrder(buckets[a]))'
  <2>1. \A a \in Addresses : buckets[a] # NULL =>
          buckets[a].last \in Nat /\ buckets[a].lastSeen \in Nat
    BY DEF IInv, TypeOK, Buckets, Times
  <2> QED
    BY <1>1, <2>1 DEF IInv, InOrder
<1>6. HolderSeen'
  <2>1. mu # NULL => mu.at \in Nat
    BY DEF IInv, TypeOK, Visits, Times
  <2> QED
    BY <1>1, <2>1, Constants DEF IInv, HolderSeen
<1>7. TickerInOrder'
  BY <1>1, <1>2, <1>3, Constants DEF TickerInOrder
<1>8. SweptLately'
  <2>1. collecting => LastSweep' = LastSweep
    BY <1>1, <1>2, <1>3, Constants DEF LastSweep, IInv, TypeOK, Times
  <2> QED
    BY <1>1, <2>1 DEF IInv, SweptLately
<1>9. WindowPaid'
  <2>1. window # NULL => window.ip \in Addresses /\ window.at \in Nat /\ spent \in Nat
    BY DEF IInv, TypeOK, Visits, Times
  <2>2. \A a \in Addresses : Grant(a) \in Nat /\ Grant(a)' \in Nat /\ Grant(a)' <= Grant(a) + 1
    BY TickFills, GrantBounds, Constants
  <2> QED
    BY <1>1, <2>1, <2>2, Constants DEF IInv, WindowPaid, Grant
<1> QED
  BY <1>1, <1>4, <1>5, <1>6, <1>7, <1>8, <1>9 DEF IInv

LEMMA NextKeepsIInv == IInv /\ [Next]_vars => IInv'
<1> SUFFICES ASSUME IInv, [Next]_vars PROVE IInv'
  OBVIOUS
<1>1. ASSUME NEW ip \in Addresses, Enter(ip) PROVE IInv'
  BY <1>1, EnterKeepsIInv
<1>2. CASE Admit
  BY <1>2, AdmitKeepsIInv
<1>3. CASE Refuse
  BY <1>3 DEF Refuse, observerVars, IInv, TypeOK, InOrder, HolderSeen, TickerInOrder,
              SweptLately, LastSweep, WindowPaid, Grant, Level
<1>4. CASE Sweep
  BY <1>4, SweepKeepsIInv
<1>5. CASE Stop
  BY <1>5 DEF Stop, tableVars, observerVars, IInv, TypeOK, InOrder, HolderSeen,
              TickerInOrder, SweptLately, WindowPaid, Grant, Level
<1>6. CASE Tick
  BY <1>6, TickKeepsIInv
<1>7. ASSUME NEW ip \in Addresses, Watch(ip) PROVE IInv'
  <2>1. /\ UNCHANGED <<clock, buckets, mu, verdict, due, nextTick, collecting, spent>>
        /\ window = NULL /\ window' = [ip |-> ip, at |-> clock] /\ clock \in Times
    BY <1>7 DEF Watch, tableVars, IInv, TypeOK
  <2>2. TypeOK' /\ window' # NULL
    BY <2>1 DEF IInv, TypeOK, Visits
  <2>3. WindowPaid'
    <3>1. Grant(ip) \in 0..Capacity /\ Grant(ip)' = Grant(ip) /\ spent' = 0
      BY <2>1, GrantBounds DEF IInv, Grant, Level
    <3>2. window'.ip = ip /\ window'.at = clock
      BY <2>1
    <3>3. Grant(window.ip)' = Grant(ip)'
      BY <3>2 DEF Grant
    <3> QED
      BY <2>1, <3>1, <3>2, <3>3, Constants DEF WindowPaid, Times
  <2> QED
    BY <2>1, <2>2, <2>3 DEF IInv, InOrder, HolderSeen, TickerInOrder, SweptLately, LastSweep
<1>8. CASE UNCHANGED vars
  BY <1>8 DEF vars, tableVars, observerVars, IInv, TypeOK, InOrder, HolderSeen,
              TickerInOrder, SweptLately, LastSweep, WindowPaid, Grant, Level
<1> QED
  BY <1>1, <1>2, <1>3, <1>4, <1>5, <1>6, <1>7, <1>8 DEF Next

\* The inductive invariant of the limiter holds in every state.
THEOREM InvariantHolds == Spec => []IInv
  BY InitIInv, NextKeepsIInv, PTL DEF Spec

\* The property RateNeverExceeded: no address gets more than the burst and its
\* rate, from any moment to any later one, though buckets are deleted.
THEOREM RateIsNeverExceeded == Spec => []RateNeverExceeded
<1>1. IInv => RateNeverExceeded
  <2> SUFFICES ASSUME IInv, window # NULL
               PROVE  spent <= Capacity + (clock - window.at)
    BY DEF RateNeverExceeded
  <2>1. /\ window.ip \in Addresses /\ window.at \in Nat
        /\ spent \in Nat /\ clock \in Nat
    BY DEF IInv, TypeOK, Visits, Times
  <2>2. Grant(window.ip) \in Nat
    BY <2>1, GrantBounds, Constants
  <2> QED
    BY <2>1, <2>2, Constants DEF IInv, WindowPaid
<1> QED
  BY <1>1, InvariantHolds, PTL

\* The property RetryAfterSuffices: a client that waits as it was told to is
\* admitted (Retry-After of rateLimit).
THEOREM RetryAfterAlwaysSuffices == Spec => []RetryAfterSuffices
<1>1. IInv => RetryAfterSuffices
  <2> SUFFICES ASSUME IInv, NEW ip \in Addresses, buckets[ip] # NULL,
                      clock - buckets[ip].lastSeen >= RetryAfter
               PROVE  Grant(ip) >= Cost
    BY DEF RetryAfterSuffices
  <2>1. /\ buckets[ip] \in Buckets /\ InOrder(buckets[ip]) /\ clock \in Nat
        /\ buckets[ip].last \in Nat /\ buckets[ip].lastSeen \in Nat
    BY DEF IInv, TypeOK, Buckets, Times
  <2>2. Level(buckets[ip]) = Capacity \/ Level(buckets[ip]) >= clock - buckets[ip].last
    BY <2>1, LevelBounds DEF IInv, InOrder
  <2>3. Level(buckets[ip]) \in Nat
    BY <2>1, LevelBounds, Constants DEF IInv, InOrder
  <2> QED
    BY <2>1, <2>2, <2>3, Constants DEF Grant, InOrder
<1> QED
  BY <1>1, InvariantHolds, PTL

\* The property IdleBucketsGo: collect keeps up with the addresses that stay
\* away, so the table holds those of two periods at most.
THEOREM IdleBucketsAlwaysGo == Spec => []IdleBucketsGo
<1>1. IInv => IdleBucketsGo
  <2> SUFFICES ASSUME IInv, collecting, NEW ip \in Addresses, buckets[ip] # NULL
               PROVE  clock - buckets[ip].lastSeen <= 2 * TTL + MaxStall
    BY DEF IdleBucketsGo
  <2>1. buckets[ip].lastSeen \in Nat /\ clock \in Nat /\ nextTick \in Nat
    BY DEF IInv, TypeOK, Buckets, Times
  <2>2. LastSweep - buckets[ip].lastSeen <= TTL
    BY DEF IInv, SweptLately
  <2> QED
    BY <2>1, <2>2, Constants DEF IInv, TickerInOrder, LastSweep
<1> QED
  BY <1>1, InvariantHolds, PTL

-----------------------------------------------------------------------------
\* Every step of the limiter is one of the ideal limiter, or none.
LEMMA StepIsIdeal ==
  ASSUME IInv, [Next]_vars
  PROVE  [Ideal!Next]_(Ideal!bucketVars)
<1> DEFINE granted == [ip \in Addresses |-> Grant(ip)]
<1> USE DEF Ideal!bucketVars
<1>1. ASSUME NEW ip \in Addresses, Enter(ip) PROVE UNCHANGED <<granted, verdict>>
  <2>1. \A a \in Addresses : Grant(a)' = Grant(a)
    BY <1>1, EnterKeepsGrant
  <2> QED
    BY <1>1, <2>1 DEF Enter
<1>2. CASE Admit
  <2>1. PICK ip \in Addresses : ip = mu.ip
    BY <1>2, HolderIsClient DEF Admit
  <2>2. /\ Grant(ip) >= Cost /\ Grant(ip)' = Grant(ip) - Cost
        /\ \A a \in Addresses \ {ip} : Grant(a)' = Grant(a)
    BY <1>2, <2>1, AdmitPays
  <2>3. granted' = [granted EXCEPT ![ip] = @ - Cost]
    BY <2>2
  <2>4. verdict' = [verdict EXCEPT ![ip] = "admitted"]
    BY <1>2, <2>1 DEF Admit
  <2> QED
    BY <2>2, <2>3, <2>4 DEF Ideal!Next, Ideal!Admit
<1>3. CASE Refuse
  <2>1. PICK ip \in Addresses : ip = mu.ip
    BY <1>3, HolderIsClient DEF Refuse
  <2>2. Grant(ip) < Cost
    BY <1>3, <2>1 DEF Refuse, Grant, IInv, HolderSeen
  <2>3. granted' = granted /\ verdict' = [verdict EXCEPT ![ip] = "refused"]
    BY <1>3, <2>1 DEF Refuse, Grant, Level
  <2> QED
    BY <2>2, <2>3 DEF Ideal!Next, Ideal!Refuse
<1>4. CASE Sweep
  <2>1. \A a \in Addresses : Grant(a)' = Grant(a)
    BY <1>4, SweepKeepsGrant
  <2> QED
    BY <1>4, <2>1 DEF Sweep
<1>5. CASE Tick
  <2>1. \A a \in Addresses :
          Grant(a)' = IF Grant(a) < Capacity THEN Grant(a) + 1 ELSE Capacity
    BY <1>5, TickFills
  <2>2. granted' = [a \in Addresses |-> Ideal!Filled(granted[a])]
    BY <2>1 DEF Ideal!Filled
  <2>3. verdict' = verdict
    BY <1>5 DEF Tick, tableVars
  <2> QED
    BY <2>2, <2>3 DEF Ideal!Next, Ideal!Flow
<1>6. CASE \/ Stop
           \/ \E ip \in Addresses : Watch(ip)
           \/ UNCHANGED vars
  BY <1>6 DEF Stop, Watch, vars, tableVars, Grant, Level
<1> QED
  BY <1>1, <1>2, <1>3, <1>4, <1>5, <1>6 DEF Next

\* The property ImplementsTokenBucket: no client can tell the limiter from one
\* that keeps every bucket for ever.
THEOREM LimiterImplementsTokenBucket == Spec => ImplementsTokenBucket
<1>1. Init => Ideal!Init
  BY DEF Init, Ideal!Init, Grant
<1>2. IInv /\ [Next]_vars => [Ideal!Next]_(Ideal!bucketVars)
  BY StepIsIdeal
<1> QED
  BY <1>1, <1>2, InvariantHolds, PTL DEF Spec, ImplementsTokenBucket, Ideal!Spec
=============================================================================
