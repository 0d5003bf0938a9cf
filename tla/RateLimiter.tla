----------------------------- MODULE RateLimiter ----------------------------
(***************************************************************************)
(* server/middleware.go: the token bucket per client of the HTTP service.  *)
(*                                                                         *)
(* A request costs Cost units and a bucket gains Rate units per unit of    *)
(* time, so that the code's float64 tokens are whole numbers here: a rate  *)
(* of 0.3 tokens per second is Rate 3, Cost 10.  allow runs under the      *)
(* mutex and is one action.                                                *)
(*                                                                         *)
(* opened and spent are history: the requests granted since a moment that  *)
(* Observe may choose anywhere in a behaviour.                             *)
(***************************************************************************)
EXTENDS Integers

CONSTANTS
    Clients,        \* keys clientOf may return
    Rate,           \* units a bucket gains per unit of time
    Burst,          \* units a bucket holds at most
    Cost,           \* units a request takes
    SweepInterval,  \* the sweepInterval constant
    MaxTime,        \* bound: the clock stops here
    None            \* no bucket in the map

ASSUME LimiterAssumption ==
    /\ Rate \in Nat \ {0}
    /\ Cost \in Nat \ {0}
    /\ Burst \in Nat
    /\ SweepInterval \in Nat \ {0}
    /\ MaxTime \in Nat
    /\ None \notin [tokens: Int, seen: Int]

VARIABLES
    now,
    buckets,  \* rateLimiter.buckets
    swept,    \* rateLimiter.swept
    granted,  \* what allow last returned to a client
    opened,   \* history: when the observation of a client began
    spent     \* history: the requests granted to it since

vars == <<now, buckets, swept, granted, opened, spent>>

Uncapped(tokens) == tokens  \* mutant: a bucket fills beyond its burst
Capped(tokens) == IF tokens < Burst THEN tokens ELSE Burst

Init ==
    /\ now = 0
    /\ buckets = [c \in Clients |-> None]
    /\ swept = 0
    /\ granted = [c \in Clients |-> TRUE]
    /\ opened = [c \in Clients |-> 0]
    /\ spent = [c \in Clients |-> 0]

SweepDue == now - swept >= SweepInterval

\* Buckets idle for longer than the interval leave the map.
NotSwept == buckets  \* mutant: nothing is ever collected
SweptWhole == [c \in Clients |-> IF SweepDue THEN None ELSE buckets[c]]  \* mutant
Swept ==
    [c \in Clients |->
        IF SweepDue /\ buckets[c] # None /\ now - buckets[c].seen > SweepInterval
        THEN None ELSE buckets[c]]

\* What client c's bucket holds when it asks: a new one is full.
Available(map, c) ==
    IF map[c] = None THEN Burst
    ELSE Capped(map[c].tokens + (now - map[c].seen) * Rate)

Allow(c) ==
    LET tokens == Available(Swept, c)
        enough == tokens >= Cost
    IN /\ swept' = IF SweepDue THEN now ELSE swept
       /\ buckets' = [Swept EXCEPT ![c] =
            [tokens |-> IF enough THEN tokens - Cost ELSE tokens, seen |-> now]]
       /\ granted' = [granted EXCEPT ![c] = enough]
       /\ spent' = IF enough THEN [spent EXCEPT ![c] = @ + 1] ELSE spent
       /\ UNCHANGED <<now, opened>>

Tick ==
    /\ now < MaxTime
    /\ now' = now + 1
    /\ UNCHANGED <<buckets, swept, granted, opened, spent>>

Observe(c) ==
    /\ opened' = [opened EXCEPT ![c] = now]
    /\ spent' = [spent EXCEPT ![c] = 0]
    /\ UNCHANGED <<now, buckets, swept, granted>>

Next == Tick \/ \E c \in Clients : Allow(c) \/ Observe(c)

Spec == Init /\ [][Next]_vars

----------------------------------------------------------------------------
BucketType == [tokens: 0..Burst, seen: Nat]

TypeOK ==
    /\ now \in Nat
    /\ buckets \in [Clients -> BucketType \cup {None}]
    /\ swept \in 0..now
    /\ granted \in [Clients -> BOOLEAN]
    /\ opened \in [Clients -> Nat]
    /\ spent \in [Clients -> Nat]

\* What a client gains at most in an interval: what the rate yields or, if that
\* is less than a burst, the full bucket a client gets after an idle interval.
Yield == IF Burst > Rate * SweepInterval THEN Burst ELSE Rate * SweepInterval

\* In any window of time a client is let through at most a burst and, per
\* interval of the window, Yield.  Where a bucket fills within an interval, as
\* with the defaults, that is a burst and what the rate yields meanwhile,
\* although the bucket may be collected and made anew.
RateHeld ==
    \A c \in Clients :
        SweepInterval * (Cost * spent[c])
            <= SweepInterval * Burst + Yield * (now - opened[c])

\* The map does not grow for the lifetime of the process: when a request is
\* served, no bucket has been idle for two intervals.
IdleCollected ==
    \A c, d \in Clients :
        buckets[c] # None /\ buckets[d] # None =>
            buckets[c].seen - buckets[d].seen < 2 * SweepInterval

\* A client never finds its bucket other than as it left it, filled up since,
\* unless it stayed away for longer than an interval: it may then be new here.
Level == [c \in Clients |-> Available(buckets, c)]
Asked == [c \in Clients |-> IF buckets[c] = None THEN 0 ELSE buckets[c].seen]
Kept == INSTANCE TokenBucket
            WITH level <- Level, asked <- Asked, Interval <- SweepInterval
ImplementsBucket == Kept!Spec
=============================================================================
