-------------------------- MODULE RateLimiter_proofs -------------------------
(***************************************************************************)
(* For every rate, burst, interval and set of clients: what the limiter    *)
(* lets through is bounded over every window, idle buckets are collected,  *)
(* and a bucket is forgotten only after an idle interval.                  *)
(*                                                                         *)
(* RateHeld is not inductive: it does not see what a bucket still holds.   *)
(* Held adds it to what has been spent, at the moment the bucket was last  *)
(* used; once a bucket is collected, what was spent leaves room for a full *)
(* one.  IdleCollected follows from Spread, the distance of every bucket   *)
(* from the last collection.                                               *)
(***************************************************************************)
EXTENDS RateLimiter, TLAPS

Fresh(c) ==
    /\ opened[c] <= now
    /\ buckets[c] # None => buckets[c].seen <= now

Paid(c) == SweepInterval * (Cost * spent[c])

\* Client c, holding tokens at moment t, is within the bound.
Within(c, tokens, t) ==
    Paid(c) + SweepInterval * tokens <= SweepInterval * Burst + Yield * (t - opened[c])

Held(c) ==
    \/ spent[c] = 0
    \/ buckets[c] = None /\ Paid(c) <= Yield * (now - opened[c])
    \/ /\ buckets[c] # None
       /\ opened[c] <= buckets[c].seen
       /\ Within(c, buckets[c].tokens, buckets[c].seen)

Spread(c) ==
    buckets[c] # None =>
        /\ swept - SweepInterval <= buckets[c].seen
        /\ buckets[c].seen < swept + SweepInterval

IInv ==
    /\ TypeOK
    /\ \A c \in Clients : Fresh(c)
    /\ \A c \in Clients : Held(c)
    /\ \A c \in Clients : Spread(c)

----------------------------------------------------------------------------
(* Arithmetic on whole units, and what the operators of the limiter return. *)

LEMMA TimesMonotonic ==
    ASSUME NEW a \in Nat, NEW b \in Nat, NEW k \in Nat, a <= b
    PROVE  /\ a * k \in Nat /\ b * k \in Nat
           /\ a * k <= b * k
<1>1. PICK d \in Nat : b = a + d
  <2>1. b - a \in Nat /\ b = a + (b - a)
    OBVIOUS
  <2> QED BY <2>1
<1>2. b * k = a * k + d * k
  BY <1>1
<1>3. d * k \in Nat /\ a * k \in Nat
  OBVIOUS
<1> QED BY <1>2, <1>3

LEMMA Distributes ==
    ASSUME NEW a \in Nat, NEW b \in Nat, NEW k \in Nat
    PROVE  /\ k * a \in Nat /\ k * b \in Nat
           /\ k * (a + b) = k * a + k * b
OBVIOUS

LEMMA YieldRange ==
    /\ Yield \in Nat
    /\ Burst <= Yield
    /\ Rate * SweepInterval <= Yield
<1>1. Rate * SweepInterval \in Nat
  BY LimiterAssumption, TimesMonotonic
<1> QED BY <1>1, LimiterAssumption DEF Yield

\* An idle interval makes room for a full bucket.
LEMMA RefillFits ==
    ASSUME NEW P \in Nat, NEW T \in Nat, NEW o \in Nat, NEW s \in Nat, NEW n \in Nat,
           o <= s, s + SweepInterval <= n,
           P + SweepInterval * T <= SweepInterval * Burst + Yield * (s - o)
    PROVE  P <= Yield * (n - o)
<1>1. SweepInterval \in Nat /\ Burst \in Nat /\ Yield \in Nat
  BY LimiterAssumption, YieldRange
<1>2. PICK x \in Nat : x = s - o
  BY <1>1
<1>3. PICK y \in Nat : y = n - s
  BY <1>1
<1>4. n - o = x + y /\ SweepInterval <= y
  BY <1>1, <1>2, <1>3
<1>5. Yield * (x + y) = Yield * x + Yield * y /\ Yield * x \in Nat /\ Yield * y \in Nat
  BY <1>1, Distributes
<1>6. SweepInterval * Burst <= y * Burst /\ y * Burst \in Nat /\ SweepInterval * Burst \in Nat
  BY <1>1, <1>4, TimesMonotonic
<1>7. Burst * y <= Yield * y
  BY <1>1, YieldRange, TimesMonotonic
<1>8. y * Burst = Burst * y
  BY <1>1
<1>9. SweepInterval * T \in Nat
  BY <1>1, Distributes
<1>10. P + SweepInterval * T <= SweepInterval * Burst + Yield * x
  BY <1>2
<1>11. P <= Yield * (x + y)
  BY <1>5, <1>6, <1>7, <1>8, <1>9, <1>10
<1> QED BY <1>4, <1>11

\* What the rate yields in the meantime fits.
LEMMA FillFits ==
    ASSUME NEW P \in Nat, NEW T \in Nat, NEW t \in Nat,
           NEW o \in Nat, NEW s \in Nat, NEW n \in Nat,
           o <= s, s <= n, t <= T + (n - s) * Rate,
           P + SweepInterval * T <= SweepInterval * Burst + Yield * (s - o)
    PROVE  P + SweepInterval * t <= SweepInterval * Burst + Yield * (n - o)
<1>1. SweepInterval \in Nat /\ Burst \in Nat /\ Yield \in Nat /\ Rate \in Nat
  BY LimiterAssumption, YieldRange
<1>2. PICK x \in Nat : x = s - o
  BY <1>1
<1>3. PICK y \in Nat : y = n - s
  BY <1>1
<1>4. n - o = x + y
  BY <1>1, <1>2, <1>3
<1>5. Yield * (x + y) = Yield * x + Yield * y /\ Yield * x \in Nat /\ Yield * y \in Nat
  BY <1>1, Distributes
<1>6. y * Rate \in Nat
  BY <1>1, TimesMonotonic
<1>7. t * SweepInterval <= (T + y * Rate) * SweepInterval
      /\ t * SweepInterval \in Nat
  BY <1>1, <1>3, <1>6, TimesMonotonic
<1>8. SweepInterval * (T + y * Rate) = SweepInterval * T + SweepInterval * (y * Rate)
      /\ SweepInterval * T \in Nat /\ SweepInterval * (y * Rate) \in Nat
  BY <1>1, <1>6, Distributes
<1>9. SweepInterval * t <= SweepInterval * T + SweepInterval * (y * Rate)
  <2>1. SweepInterval * t = t * SweepInterval
    BY <1>1
  <2>2. (T + y * Rate) * SweepInterval = SweepInterval * (T + y * Rate)
    BY <1>1, <1>6
  <2> QED BY <1>7, <1>8, <2>1, <2>2
<1>10. (Rate * SweepInterval) * y <= Yield * y
  <2>1. Rate * SweepInterval \in Nat
    BY <1>1, TimesMonotonic
  <2> QED BY <1>1, <2>1, YieldRange, TimesMonotonic
<1>11. SweepInterval * (y * Rate) = (Rate * SweepInterval) * y
  BY <1>1
<1>12. P + SweepInterval * T <= SweepInterval * Burst + Yield * x
  BY <1>2
<1>13. SweepInterval * t \in Nat /\ SweepInterval * Burst \in Nat
  BY <1>1, Distributes
<1>14. P + SweepInterval * t <= SweepInterval * Burst + Yield * (x + y)
  BY <1>5, <1>8, <1>9, <1>10, <1>11, <1>12, <1>13
<1> QED BY <1>4, <1>14

LEMMA CappedRange ==
    ASSUME NEW t \in Nat
    PROVE  Capped(t) \in 0..Burst /\ Capped(t) <= t
BY LimiterAssumption DEF Capped

\* A bucket that exists is a record, not the absence of one.
LEMMA BucketIsNotNone ==
    ASSUME NEW t \in Int, NEW s \in Int
    PROVE  [tokens |-> t, seen |-> s] # None
<1>1. [tokens |-> t, seen |-> s] \in [tokens: Int, seen: Int]
  OBVIOUS
<1> QED BY <1>1, LimiterAssumption

\* What a bucket holds is between nothing and a burst.
LEMMA LevelRange ==
    ASSUME TypeOK, NEW c \in Clients, Fresh(c)
    PROVE  Available(buckets, c) \in 0..Burst
<1>1. CASE buckets[c] = None
  BY <1>1, LimiterAssumption DEF Available
<1>2. CASE buckets[c] # None
  <2>1. buckets[c].tokens \in Nat /\ now - buckets[c].seen \in Nat
    BY <1>2 DEF TypeOK, BucketType, Fresh
  <2>2. (now - buckets[c].seen) * Rate \in Nat
    BY <2>1, LimiterAssumption, TimesMonotonic
  <2>3. buckets[c].tokens + (now - buckets[c].seen) * Rate \in Nat
    BY <2>1, <2>2
  <2> QED BY <1>2, <2>3, CappedRange DEF Available
<1> QED BY <1>1, <1>2

\* A bucket stays as it is, or had been idle for an interval and is gone.
LEMMA SweptOrKept ==
    ASSUME NEW c \in Clients
    PROVE  \/ Swept[c] = buckets[c]
           \/ /\ buckets[c] # None
              /\ now - buckets[c].seen > SweepInterval
              /\ Swept[c] = None
BY DEF Swept

\* What a client finds when it asks.
LEMMA FoundRange ==
    ASSUME TypeOK, NEW c \in Clients, Fresh(c)
    PROVE  Available(Swept, c) \in 0..Burst
<1>1. CASE Swept[c] = buckets[c]
  BY <1>1, LevelRange DEF Available
<1>2. CASE Swept[c] = None
  BY <1>2, LimiterAssumption DEF Available
<1> QED BY <1>1, <1>2, SweptOrKept

LEMMA PaidType ==
    ASSUME TypeOK, NEW c \in Clients
    PROVE  Paid(c) \in Nat /\ (spent[c] = 0 => Paid(c) = 0)
<1>1. spent[c] \in Nat /\ Cost \in Nat /\ SweepInterval \in Nat
  BY LimiterAssumption DEF TypeOK
<1>2. Cost * spent[c] \in Nat /\ (spent[c] = 0 => Cost * spent[c] = 0)
  BY <1>1, Distributes
<1>3. PICK x \in Nat : x = Cost * spent[c]
  BY <1>2
<1>4. SweepInterval * x \in Nat /\ (x = 0 => SweepInterval * x = 0)
  BY <1>1, Distributes
<1> QED BY <1>2, <1>3, <1>4 DEF Paid

\* However the bucket fares in a collection, the client is within the bound with
\* what it then finds; and within it with a full one, if the bucket is gone.
LEMMA FoundWithin ==
    ASSUME IInv, NEW c \in Clients
    PROVE  /\ Within(c, Available(Swept, c), now)
           /\ spent[c] = 0 \/ Swept[c] # None \/ Paid(c) <= Yield * (now - opened[c])
<1>1. /\ TypeOK /\ Fresh(c) /\ Held(c)
      /\ now \in Nat /\ opened[c] \in Nat /\ opened[c] <= now
      /\ Paid(c) \in Nat
      /\ SweepInterval \in Nat /\ Burst \in Nat /\ Yield \in Nat
  BY PaidType, LimiterAssumption, YieldRange DEF IInv, TypeOK, Fresh
<1>2. PICK t \in 0..Burst : t = Available(Swept, c)
  BY <1>1, FoundRange
<1>3. PICK w \in Nat : w = now - opened[c]
  BY <1>1
<1>4. Yield * w \in Nat /\ SweepInterval * Burst \in Nat /\ SweepInterval * t \in Nat
      /\ SweepInterval * t <= SweepInterval * Burst
  <2>1. t * SweepInterval <= Burst * SweepInterval
    BY <1>1, TimesMonotonic
  <2> QED BY <1>1, <2>1, Distributes
<1>5. CASE spent[c] = 0
  <2>1. Paid(c) = 0
    BY <1>1, <1>5, PaidType
  <2> QED BY <1>2, <1>3, <1>4, <1>5, <2>1 DEF Within
<1>6. CASE spent[c] # 0 /\ buckets[c] = None
  <2>1. Swept[c] = None /\ t = Burst /\ Paid(c) <= Yield * w
    BY <1>1, <1>2, <1>3, <1>6, SweptOrKept DEF Held, Available
  <2> QED BY <1>1, <1>2, <1>3, <1>4, <2>1 DEF Within
<1>7. CASE spent[c] # 0 /\ buckets[c] # None
  <2>1. PICK b \in BucketType : b = buckets[c]
    BY <1>1, <1>7 DEF TypeOK
  <2>2. /\ b.tokens \in Nat /\ b.seen \in Nat
        /\ opened[c] <= b.seen /\ b.seen <= now
        /\ Paid(c) + SweepInterval * b.tokens
             <= SweepInterval * Burst + Yield * (b.seen - opened[c])
    BY <1>1, <1>7, <2>1 DEF Held, Within, Fresh, BucketType
  <2>3. CASE Swept[c] = None
    <3>1. now - b.seen > SweepInterval
      BY <1>7, <2>1, <2>3, SweptOrKept
    <3>2. b.seen + SweepInterval <= now
      BY <1>1, <2>2, <3>1
    <3>3. Paid(c) <= Yield * (now - opened[c])
      BY <1>1, <2>2, <3>2, RefillFits
    <3>4. t = Burst
      BY <1>2, <2>3 DEF Available
    <3> QED BY <1>1, <1>2, <1>3, <1>4, <3>3, <3>4 DEF Within
  <2>4. CASE Swept[c] = buckets[c]
    <3>1. t = Capped(b.tokens + (now - b.seen) * Rate)
      BY <1>2, <1>7, <2>1, <2>4 DEF Available
    <3>2. now - b.seen \in Nat /\ Rate \in Nat
      BY <1>1, <2>2, LimiterAssumption
    <3>3. b.tokens + (now - b.seen) * Rate \in Nat
      BY <2>2, <3>2, TimesMonotonic
    <3>4. t <= b.tokens + (now - b.seen) * Rate
      BY <3>1, <3>3, CappedRange
    <3>5. Paid(c) + SweepInterval * t <= SweepInterval * Burst + Yield * (now - opened[c])
      <4>1. PICK P \in Nat, T \in Nat, o \in Nat, u \in Nat :
              P = Paid(c) /\ T = b.tokens /\ o = opened[c] /\ u = b.seen
        BY <1>1, <2>2
      <4>2. /\ t \in Nat /\ o <= u /\ u <= now /\ t <= T + (now - u) * Rate
            /\ P + SweepInterval * T <= SweepInterval * Burst + Yield * (u - o)
        BY <1>1, <2>2, <3>4, <4>1
      <4>3. P + SweepInterval * t <= SweepInterval * Burst + Yield * (now - o)
        BY <1>1, <4>2, FillFits
      <4> QED BY <4>1, <4>3
    <3> QED BY <1>2, <1>7, <2>4, <3>5 DEF Within
  <2> QED BY <2>3, <2>4, SweptOrKept
<1> QED BY <1>5, <1>6, <1>7

\* The map that a collection leaves.
LEMMA SweptType ==
    ASSUME TypeOK
    PROVE  Swept \in [Clients -> BucketType \cup {None}]
BY DEF TypeOK, Swept

----------------------------------------------------------------------------
(* The initial state and the steps. *)

LEMMA Initially == Init => IInv
<1> SUFFICES ASSUME Init PROVE IInv
  OBVIOUS
<1>1. TypeOK
  BY LimiterAssumption DEF Init, TypeOK
<1>2. ASSUME NEW c \in Clients PROVE Fresh(c) /\ Held(c) /\ Spread(c)
  <2>1. buckets[c] = None /\ opened[c] = 0 /\ spent[c] = 0 /\ now = 0
    BY DEF Init
  <2> QED BY <2>1 DEF Fresh, Held, Spread
<1> QED BY <1>1, <1>2 DEF IInv

\* What a bucket holds grows by the rate in a unit of time, up to the burst.
LEMMA LevelPasses ==
    ASSUME TypeOK, Tick, NEW c \in Clients, Fresh(c)
    PROVE  Available(buckets, c)' = Capped(Available(buckets, c) + Rate)
<1>1. now' = now + 1 /\ buckets' = buckets
  BY DEF Tick
<1>2. CASE buckets[c] = None
  BY <1>1, <1>2, LimiterAssumption DEF Available, Capped
<1>3. CASE buckets[c] # None
  <2> DEFINE gained == (now - buckets[c].seen) * Rate
  <2>1. buckets[c].tokens \in Nat /\ now - buckets[c].seen \in Nat /\ now \in Nat
        /\ buckets[c].seen \in Nat
    BY <1>3 DEF TypeOK, BucketType, Fresh
  <2>2. gained \in Nat
    BY <2>1, LimiterAssumption, TimesMonotonic
  <2>3. (now + 1 - buckets[c].seen) * Rate = gained + Rate
    BY <2>1, LimiterAssumption
  <2>4. Available(buckets, c) = Capped(buckets[c].tokens + gained)
    BY <1>3 DEF Available
  <2>5. Available(buckets, c)' = Capped(buckets[c].tokens + (gained + Rate))
    <3>1. Available(buckets, c)' =
            Capped(buckets'[c].tokens + (now' - buckets'[c].seen) * Rate)
      BY <1>1, <1>3, Zenon DEF Available, Capped
    <3>2. (now' - buckets'[c].seen) * Rate = gained + Rate
      <4>1. now' - buckets'[c].seen = now + 1 - buckets[c].seen
        BY <1>1, <2>1
      <4> QED BY <2>3, <4>1, Zenon
    <3> QED BY <1>1, <3>1, <3>2, Zenon
  <2> HIDE DEF gained
  <2> QED BY <2>1, <2>2, <2>4, <2>5, LimiterAssumption DEF Capped
<1> QED BY <1>2, <1>3

LEMMA TickKeeps ==
    ASSUME IInv, Tick
    PROVE  IInv'
<1> USE DEF Tick
<1>1. TypeOK'
  BY DEF IInv, TypeOK
<1>2. ASSUME NEW c \in Clients PROVE Fresh(c)' /\ Spread(c)'
  BY DEF IInv, TypeOK, BucketType, Fresh, Spread
<1>3. ASSUME NEW c \in Clients PROVE Held(c)'
  <2>1. /\ now \in Nat /\ now' = now + 1 /\ opened[c] \in Nat /\ opened[c] <= now
        /\ UNCHANGED <<buckets, opened, spent>> /\ Yield \in Nat /\ Paid(c) \in Nat
    BY YieldRange, PaidType DEF IInv, TypeOK, Fresh
  <2>2. Yield * (now - opened[c]) <= Yield * (now + 1 - opened[c])
    <3>1. PICK w \in Nat : w = now - opened[c]
      BY <2>1
    <3>2. Yield * (w + 1) = Yield * w + Yield * 1 /\ Yield * w \in Nat
      BY <2>1, Distributes
    <3>3. now + 1 - opened[c] = w + 1
      BY <2>1, <3>1
    <3> QED BY <2>1, <3>1, <3>2, <3>3
  <2>3. /\ Yield * (now - opened[c]) \in Int
        /\ Yield * (now + 1 - opened[c]) \in Int
    BY <2>1
  <2>4. Held(c)
    BY DEF IInv
  <2>5. CASE spent[c] = 0
    BY <2>1, <2>5 DEF Held
  <2>6. CASE buckets[c] = None /\ Paid(c) <= Yield * (now - opened[c])
    <3>1. Paid(c) <= Yield * (now' - opened[c])
      BY <2>1, <2>2, <2>3, <2>6
    <3> QED BY <2>1, <2>6, <3>1, Zenon DEF Held, Paid, Yield
  <2>7. CASE buckets[c] # None /\ opened[c] <= buckets[c].seen
             /\ Within(c, buckets[c].tokens, buckets[c].seen)
    BY <2>1, <2>7, Zenon DEF Held, Within, Paid, Yield
  <2> QED BY <2>4, <2>5, <2>6, <2>7 DEF Held
<1> QED BY <1>1, <1>2, <1>3 DEF IInv

LEMMA ObserveKeeps ==
    ASSUME IInv, NEW d \in Clients, Observe(d)
    PROVE  IInv'
<1> USE DEF Observe
<1>1. TypeOK'
  BY DEF IInv, TypeOK
<1>2. ASSUME NEW c \in Clients PROVE Fresh(c)' /\ Spread(c)'
  BY DEF IInv, TypeOK, BucketType, Fresh, Spread
<1>3. ASSUME NEW c \in Clients PROVE Held(c)'
  <2>1. CASE c # d
    BY <2>1 DEF Held, Within, Paid, Yield, IInv, TypeOK
  <2>2. CASE c = d
    BY <2>2 DEF Held, IInv, TypeOK
  <2> QED BY <2>1, <2>2
<1> QED BY <1>1, <1>2, <1>3 DEF IInv

\* What allow leaves in the buckets: the client that asked pays if it can from
\* what it found, everybody else keeps what the collection left.
LEMMA AllowLevels ==
    ASSUME IInv, NEW d \in Clients, Allow(d), NEW c \in Clients
    PROVE  /\ Available(Swept, d) \in 0..Burst
           /\ c # d => Available(buckets, c)' = Available(Swept, c)
           /\ c = d => Available(buckets, c)' =
                IF Available(Swept, d) >= Cost THEN Available(Swept, d) - Cost
                ELSE Available(Swept, d)
<1> DEFINE tokens == Available(Swept, d)
           left == IF tokens >= Cost THEN tokens - Cost ELSE tokens
<1>1. /\ TypeOK /\ Fresh(c) /\ Fresh(d)
  BY DEF IInv
<1>2. tokens \in 0..Burst
  BY <1>1, FoundRange
<1>3. now' = now /\ buckets' = [Swept EXCEPT ![d] = [tokens |-> left, seen |-> now]]
  BY DEF Allow
<1>4. left \in 0..Burst
  BY <1>2, LimiterAssumption
<1>5. CASE c # d
  <2>1. buckets'[c] = Swept[c]
    BY <1>3, <1>5 DEF Swept
  <2>2. Available(buckets, c)' = Available(Swept, c)
    BY <1>3, <2>1 DEF Available, Capped
  <2> QED BY <1>2, <1>5, <2>2
<1>6. CASE c = d
  <2>1. buckets'[c] = [tokens |-> left, seen |-> now]
    BY <1>3, <1>6 DEF Swept
  <2>2. buckets'[c] # None /\ now \in Nat
    BY <1>1, <1>4, <2>1, BucketIsNotNone DEF TypeOK
  <2>3. buckets'[c].tokens = left /\ (now' - buckets'[c].seen) * Rate = 0
    BY <1>3, <2>1, <2>2, LimiterAssumption
  <2>4. Available(buckets, c)' = Capped(left)
    BY <1>4, <2>2, <2>3 DEF Available, Capped
  <2>5. Capped(left) = left
    BY <1>4, LimiterAssumption DEF Capped
  <2> QED BY <1>2, <1>6, <2>4, <2>5
<1> QED BY <1>2, <1>5, <1>6

LEMMA AllowKeepsType ==
    ASSUME IInv, NEW d \in Clients, Allow(d)
    PROVE  TypeOK'
<1>1. Available(Swept, d) \in 0..Burst /\ now \in Nat
  BY FoundRange DEF IInv, TypeOK
<1>2. ASSUME NEW t \in 0..Burst PROVE [tokens |-> t, seen |-> now] \in BucketType
  BY <1>1 DEF BucketType
<1> DEFINE left == IF Available(Swept, d) >= Cost THEN Available(Swept, d) - Cost
                   ELSE Available(Swept, d)
<1>3. left \in 0..Burst
  BY <1>1, LimiterAssumption
<1>4. buckets' = [Swept EXCEPT ![d] = [tokens |-> left, seen |-> now]]
  BY DEF Allow
<1>5. Swept \in [Clients -> BucketType \cup {None}]
  BY SweptType DEF IInv
<1>6. [tokens |-> left, seen |-> now] \in BucketType
  BY <1>2, <1>3
<1>7. buckets' \in [Clients -> BucketType \cup {None}]
  BY <1>4, <1>5, <1>6
<1>8. granted' \in [Clients -> BOOLEAN] /\ spent' \in [Clients -> Nat]
  BY DEF Allow, IInv, TypeOK
<1>9. now' = now /\ opened' = opened /\ swept' \in 0..now
  BY DEF Allow, IInv, TypeOK
<1> QED BY <1>7, <1>8, <1>9 DEF IInv, TypeOK

LEMMA AllowKeeps ==
    ASSUME IInv, NEW d \in Clients, Allow(d)
    PROVE  IInv'
<1>1. TypeOK'
  BY AllowKeepsType
<1>2. /\ now \in Nat /\ swept \in 0..now /\ SweepInterval \in Nat \ {0}
      /\ now' = now /\ opened' = opened
      /\ swept' = IF SweepDue THEN now ELSE swept
  BY LimiterAssumption DEF IInv, TypeOK, Allow
<1>3. ASSUME NEW c \in Clients PROVE Fresh(c)' /\ Spread(c)'
  <2>1. CASE c = d
    <3>1. buckets'[c].seen = now
      BY <2>1 DEF Allow, Swept
    <3> QED BY <1>2, <3>1 DEF Fresh, Spread, SweepDue, IInv
  <2>2. CASE c # d
    <3>1. buckets'[c] = Swept[c]
      BY <2>2 DEF Allow, Swept
    <3>2. CASE Swept[c] = None
      BY <1>2, <3>1, <3>2 DEF Fresh, Spread, IInv
    <3>3. CASE Swept[c] # None
      <4>1. /\ Swept[c] = buckets[c] /\ buckets[c] # None
            /\ SweepDue => ~(now - buckets[c].seen > SweepInterval)
        BY <3>3 DEF Swept
      <4>2. buckets[c].seen \in Nat
        BY <4>1 DEF IInv, TypeOK, BucketType
      <4>3. Fresh(c) /\ Spread(c)
        BY DEF IInv
      <4> QED BY <1>2, <3>1, <4>1, <4>2, <4>3 DEF Fresh, Spread, SweepDue
    <3> QED BY <3>2, <3>3
  <2> QED BY <2>1, <2>2
<1>4. ASSUME NEW c \in Clients PROVE Held(c)'
  <2>1. /\ Within(c, Available(Swept, c), now)
        /\ spent[c] = 0 \/ Swept[c] # None \/ Paid(c) <= Yield * (now - opened[c])
    BY FoundWithin
  <2>2. CASE c # d
    <3>1. buckets'[c] = Swept[c] /\ spent'[c] = spent[c]
      BY <2>2 DEF Allow, Swept, IInv, TypeOK
    <3>2. CASE Swept[c] = None
      BY <1>2, <2>1, <3>1, <3>2 DEF Held, Paid, Yield
    <3>3. CASE Swept[c] # None
      <4>1. Swept[c] = buckets[c] /\ Held(c)
        BY <3>3, SweptOrKept DEF IInv
      <4> QED BY <1>2, <3>1, <3>3, <4>1 DEF Held, Within, Paid, Yield
    <3> QED BY <3>2, <3>3
  <2>3. CASE c = d
    <3> DEFINE tokens == Available(Swept, d)
    <3>1. tokens \in 0..Burst /\ spent[c] \in Nat /\ opened[c] <= now
      BY FoundRange DEF IInv, TypeOK, Fresh
    <3>2. PICK left : left = IF tokens >= Cost THEN tokens - Cost ELSE tokens
      OBVIOUS
    <3>3. /\ buckets'[c] = [tokens |-> left, seen |-> now]
          /\ spent'[c] = IF tokens >= Cost THEN spent[c] + 1 ELSE spent[c]
      BY <2>3, <3>2 DEF Allow, Swept, IInv, TypeOK
    <3>4. SweepInterval * (Cost * spent'[c]) + SweepInterval * left =
            Paid(c) + SweepInterval * tokens
      <4> HIDE DEF tokens
      <4>1. CASE tokens >= Cost
        BY <3>1, <3>2, <3>3, <4>1, LimiterAssumption DEF Paid
      <4>2. CASE ~(tokens >= Cost)
        BY <3>1, <3>2, <3>3, <4>2, LimiterAssumption DEF Paid
      <4> QED BY <4>1, <4>2
    <3>5. left \in Int /\ buckets'[c] # None
      BY <1>2, <3>1, <3>2, <3>3, LimiterAssumption, BucketIsNotNone
    <3>6. SweepInterval * (Cost * spent'[c]) + SweepInterval * left
            <= SweepInterval * Burst + Yield * (now - opened[c])
      BY <2>1, <2>3, <3>4 DEF Within
    <3>7. buckets'[c].tokens = left /\ buckets'[c].seen = now
      BY <3>3
    <3>8. Within(c, buckets[c].tokens, buckets[c].seen)'
      BY <1>2, <3>6, <3>7, Zenon DEF Within, Paid, Yield
    <3> QED BY <1>2, <3>1, <3>5, <3>7, <3>8 DEF Held
  <2> QED BY <2>2, <2>3
<1> QED BY <1>1, <1>3, <1>4 DEF IInv

LEMMA StutterKeeps ==
    ASSUME IInv, UNCHANGED vars
    PROVE  IInv'
BY DEF IInv, vars, TypeOK, Fresh, Held, Within, Paid, Yield, Spread

\* IInv is an invariant of the limiter.
LEMMA Invariance == Spec => []IInv
<1>1. ASSUME IInv, [Next]_vars PROVE IInv'
  BY <1>1, TickKeeps, ObserveKeeps, AllowKeeps, StutterKeeps DEF Next
<1> QED BY Initially, <1>1, PTL DEF Spec

----------------------------------------------------------------------------
(* The theorems. *)

\* The variables of the limiter keep their types: a bucket never holds less
\* than nothing or more than a burst.
THEOREM TypeCorrect == Spec => []TypeOK
<1>1. IInv => TypeOK
  BY DEF IInv
<1> QED BY Invariance, <1>1, PTL

\* In any window a client is let through at most a burst and, per interval, what
\* the rate yields or a burst, whichever is more: for every rate, burst and
\* interval, since WithRateLimit accepts any.
THEOREM RateIsHeld == Spec => []RateHeld
<1>1. ASSUME IInv PROVE RateHeld
  <2> SUFFICES ASSUME NEW c \in Clients
               PROVE  Paid(c) <= SweepInterval * Burst + Yield * (now - opened[c])
    BY DEF RateHeld, Paid
  <2>1. /\ Within(c, Available(Swept, c), now)
        /\ Available(Swept, c) \in Nat /\ Paid(c) \in Nat
        /\ now - opened[c] \in Nat /\ Yield \in Nat
    BY <1>1, FoundWithin, FoundRange, PaidType, YieldRange DEF IInv, TypeOK, Fresh
  <2>2. PICK x \in Nat : x = SweepInterval * Available(Swept, c)
    BY <2>1, LimiterAssumption, Distributes
  <2>3. PICK y \in Nat : y = SweepInterval * Burst
    BY LimiterAssumption, Distributes
  <2>4. PICK z \in Nat : z = Yield * (now - opened[c])
    BY <2>1, Distributes
  <2>5. Paid(c) + x <= y + z
    BY <2>1, <2>2, <2>3, <2>4 DEF Within
  <2> QED BY <2>1, <2>2, <2>3, <2>4, <2>5
<1> QED BY Invariance, <1>1, PTL

\* Where a bucket fills within a collection interval, as with the defaults of 20
\* a second, a burst of 40 and ten minutes, the bound is that of a bucket kept
\* for ever: in any window a burst and what the rate yields.
THEOREM RateIsKept ==
    ASSUME Burst <= Rate * SweepInterval
    PROVE  Spec => [](\A c \in Clients :
                        Cost * spent[c] <= Burst + Rate * (now - opened[c]))
<1>1. ASSUME IInv, RateHeld, NEW c \in Clients
      PROVE  Cost * spent[c] <= Burst + Rate * (now - opened[c])
  <2>1. /\ spent[c] \in Nat /\ now - opened[c] \in Nat /\ SweepInterval \in Nat \ {0}
        /\ Rate \in Nat /\ Cost \in Nat /\ Burst \in Nat
    BY <1>1, LimiterAssumption DEF IInv, TypeOK, Fresh
  <2>2. PICK w \in Nat : w = now - opened[c]
    BY <2>1
  <2>3. Yield = Rate * SweepInterval
    BY <2>1 DEF Yield
  <2>4. SweepInterval * (Cost * spent[c]) <= SweepInterval * Burst + (Rate * SweepInterval) * w
    BY <1>1, <2>2, <2>3 DEF RateHeld
  <2>5. PICK p \in Nat : p = Cost * spent[c]
    BY <2>1, Distributes
  <2>6. PICK q \in Nat : q = Burst + Rate * w
    BY <2>1, <2>2, Distributes
  <2>7. SweepInterval * Burst + (Rate * SweepInterval) * w = SweepInterval * q
    BY <2>1, <2>2, <2>6
  <2>8. SweepInterval * p <= SweepInterval * q
    BY <2>4, <2>5, <2>7
  <2>9. ~(q < p)
    <3> SUFFICES ASSUME q < p PROVE FALSE
      OBVIOUS
    <3>1. (q + 1) * SweepInterval <= p * SweepInterval
      BY <2>1, <2>5, <2>6, TimesMonotonic
    <3>2. SweepInterval * (q + 1) = SweepInterval * q + SweepInterval * 1
          /\ SweepInterval * q \in Nat
      BY <2>1, <2>6, Distributes
    <3> QED BY <2>1, <2>5, <2>6, <2>8, <3>1, <3>2
  <2> QED BY <2>2, <2>5, <2>6, <2>9
<1>2. ASSUME IInv, RateHeld
      PROVE  \A c \in Clients : Cost * spent[c] <= Burst + Rate * (now - opened[c])
  BY <1>1, <1>2
<1> QED BY Invariance, RateIsHeld, <1>2, PTL

\* No bucket outlives another one by two intervals: the map forgets the idle.
THEOREM IdleAreCollected == Spec => []IdleCollected
<1>1. ASSUME IInv PROVE IdleCollected
  <2> SUFFICES ASSUME NEW c \in Clients, NEW d \in Clients,
                      buckets[c] # None, buckets[d] # None
               PROVE  buckets[c].seen - buckets[d].seen < 2 * SweepInterval
    BY DEF IdleCollected
  <2>1. buckets[c].seen \in Nat /\ buckets[d].seen \in Nat /\ swept \in Int
    BY <1>1 DEF IInv, TypeOK, BucketType
  <2>2. Spread(c) /\ Spread(d)
    BY <1>1 DEF IInv
  <2> QED BY <2>1, <2>2, LimiterAssumption DEF Spread
<1> QED BY Invariance, <1>1, PTL

\* Every behaviour of the limiter is one of a bucket per client that is forgotten
\* only while its client stays away for longer than the interval.
THEOREM Implements == Spec => ImplementsBucket
<1>1. Init => Kept!Init
  BY DEF Init, Kept!Init, Level, Asked, Available
<1>2. ASSUME IInv, [Next]_vars PROVE [Kept!Next]_(Kept!vars)
  <2>1. CASE Tick
    <3>1. Level' = [c \in Clients |-> Kept!Capped(Level[c] + Rate)]
      BY <1>2, <2>1, LevelPasses DEF Level, IInv, Capped, Kept!Capped
    <3> QED BY <2>1, <3>1 DEF Tick, Asked, Kept!Next, Kept!Pass
  <2>2. ASSUME NEW d \in Clients, Allow(d) PROVE Kept!Request(d)
    <3>1. PICK forgotten : forgotten = {c \in Clients : Swept[c] # buckets[c]}
      OBVIOUS
    <3>2. forgotten \in SUBSET Kept!Away
      BY <3>1, SweptOrKept DEF Kept!Away, Asked
    <3>3. \A c \in Clients : c \in forgotten => Swept[c] = None
      BY <3>1, SweptOrKept
    <3>4. \A c \in Clients : Available(Swept, c) =
                              IF c \in forgotten THEN Burst ELSE Level[c]
      BY <3>1, <3>3 DEF Available, Level
    <3>5. PICK holds : holds = IF d \in forgotten THEN Burst ELSE Level[d]
      OBVIOUS
    <3>6. holds = Available(Swept, d)
      BY <3>4, <3>5
    <3>7. granted' = [granted EXCEPT ![d] = holds >= Cost]
      BY <2>2, <3>6 DEF Allow
    <3>8. Level' = [c \in Clients |->
                     IF c = d THEN IF holds >= Cost THEN holds - Cost ELSE holds
                     ELSE IF c \in forgotten THEN Burst ELSE Level[c]]
      <4>1. Level' = [c \in Clients |-> Available(buckets, c)']
        BY DEF Level
      <4>2. \A c \in Clients : Available(buckets, c)' =
                     IF c = d THEN IF holds >= Cost THEN holds - Cost ELSE holds
                     ELSE IF c \in forgotten THEN Burst ELSE Level[c]
        BY <1>2, <2>2, <3>4, <3>6, AllowLevels
      <4> QED BY <4>1, <4>2
    <3>9. Asked' = [c \in Clients |->
                     IF c = d THEN now ELSE IF c \in forgotten THEN 0 ELSE Asked[c]]
      <4>1. /\ buckets'[d] # None /\ buckets'[d].seen = now
            /\ \A c \in Clients : c # d => buckets'[c] = Swept[c]
        <5>1. Available(Swept, d) \in 0..Burst /\ now \in Nat
          BY <1>2, FoundRange DEF IInv, TypeOK
        <5>2. PICK left :
                /\ left = IF Available(Swept, d) >= Cost THEN Available(Swept, d) - Cost
                          ELSE Available(Swept, d)
                /\ buckets' = [Swept EXCEPT ![d] = [tokens |-> left, seen |-> now]]
          BY <2>2 DEF Allow
        <5>3. left \in Int
          BY <5>1, <5>2, LimiterAssumption
        <5> QED BY <5>1, <5>2, <5>3, BucketIsNotNone DEF Swept
      <4>2. \A c \in Clients : c \notin forgotten => Swept[c] = buckets[c]
        BY <3>1
      <4> QED BY <3>3, <4>1, <4>2 DEF Asked
    <3>10. now' = now
      BY <2>2 DEF Allow
    <3> QED BY <3>2, <3>5, <3>7, <3>8, <3>9, <3>10 DEF Kept!Request
  <2>3. ASSUME UNCHANGED <<now, buckets, granted>> PROVE UNCHANGED Kept!vars
    BY <2>3 DEF Kept!vars, Level, Asked, Available, Capped
  <2>4. CASE \E d \in Clients : Observe(d)
    BY <2>3, <2>4 DEF Observe
  <2>5. CASE UNCHANGED vars
    BY <2>3, <2>5 DEF vars
  <2> QED BY <1>2, <2>1, <2>2, <2>4, <2>5 DEF Next, Kept!Next
<1> QED BY <1>1, <1>2, Invariance, PTL DEF Spec, ImplementsBucket, Kept!Spec
=============================================================================
