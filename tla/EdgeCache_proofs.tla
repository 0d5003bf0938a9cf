--------------------------- MODULE EdgeCache_proofs --------------------------
(***************************************************************************)
(* For every lifetime, deadline and CORS policy: what a reader behind an   *)
(* edge may rely on.                                                       *)
(*                                                                         *)
(* The three properties speak of the last answer only.  Remembered bounds  *)
(* what the service and the edge still hold: the age and the time left of  *)
(* the memo add up to one lifetime, those of a stored answer to less than  *)
(* a lifetime and a max-age, and what is stored under an origin permits no *)
(* other.                                                                  *)
(***************************************************************************)
EXTENDS EdgeCache, TLAPS

Outcomes == {Good} \cup Failures

Typed ==
    /\ memo \in [state: {"cold", "loading", "held"}, err: Outcomes, age: Nat, left: Nat]
    /\ asking \subseteq Clients
    /\ store \in [Readers -> [age: Nat, left: Nat, status: Nat, permits: SUBSET Origins]]
    /\ seen \in [to: Clients, from: {"nobody", "edge", "service"}, status: Nat, age: Nat,
                 permits: SUBSET Origins]

Memorised == memo.state = "held" => memo.left > 0 /\ memo.age + memo.left = Lifetime(memo.err)

Remembered ==
    \A k \in Readers : store[k].left > 0 =>
        /\ store[k].status = 200
        /\ store[k].age + store[k].left + 1 <= TTL + MaxAge
        /\ ~Everyone => store[k].permits \subseteq {k} \cap Allowed

Promises == EdgeWithinTwoLifetimes /\ ErrorsShortLived /\ NoForeignGrant

IInv == Typed /\ Memorised /\ Remembered /\ Promises

----------------------------------------------------------------------------
(* What the operators of the service return. *)

LEMMA WholeSeconds ==
    /\ MaxAge \in Nat
    /\ MaxAge <= TTL
<1> DEFINE q == TTL \div Second
<1>1. q \in Nat /\ Second * q <= TTL
  BY EdgeAssumption
<1>2. q * Second = Second * q /\ Second * q \in Nat
  <2> HIDE DEF q
  <2> QED BY <1>1, EdgeAssumption
<1> QED
  BY <1>1, <1>2 DEF MaxAge

LEMMA LifetimeRange ==
    ASSUME NEW err
    PROVE  /\ Lifetime(err) \in Nat /\ 0 < Lifetime(err) /\ Lifetime(err) <= TTL
           /\ err # Good => Lifetime(err) <= FailureTTL
BY EdgeAssumption DEF Lifetime

\* Whatever an error wraps, its status is one of the table's.
LEMMA ClassifiedStatus ==
    ASSUME NEW err
    PROVE  Classify(err).status \in Nat
<1> DEFINE rows == {i \in DOMAIN Ranking : Ranking[i].of \cap err.wraps # {}}
           least == CHOOSE i \in rows : \A j \in rows : i <= j
<1>1. DOMAIN Ranking = 1..6 /\ \A i \in 1..6 : Ranking[i].status \in Nat
  BY DEF Ranking
<1>2. CASE rows = {}
  BY <1>2 DEF Classify
<1>3. CASE rows # {}
  <2>1. rows \subseteq 1..6
    BY <1>1
  <2> HIDE DEF rows
  <2>2. \E i \in rows : \A j \in rows : i <= j
    <3>1. CASE 1 \in rows
      BY <2>1, <3>1
    <3>2. CASE rows \cap {1} = {} /\ 2 \in rows
      BY <2>1, <3>2
    <3>3. CASE rows \cap {1, 2} = {} /\ 3 \in rows
      BY <2>1, <3>3
    <3>4. CASE rows \cap {1, 2, 3} = {} /\ 4 \in rows
      BY <2>1, <3>4
    <3>5. CASE rows \cap {1, 2, 3, 4} = {} /\ 5 \in rows
      BY <2>1, <3>5
    <3>6. CASE rows \cap {1, 2, 3, 4, 5} = {}
      <4>1. PICK i \in rows : TRUE
        BY <1>3
      <4>2. \A j \in rows : j = 6
        BY <2>1, <3>6
      <4> QED
        BY <4>1, <4>2
    <3>7. /\ rows \cap {1, 2, 3, 4, 5} = {} \/ rows \cap {1, 2, 3, 4} # {} \/ 5 \in rows
          /\ rows \cap {1, 2, 3, 4} = {} \/ rows \cap {1, 2, 3} # {} \/ 4 \in rows
          /\ rows \cap {1, 2, 3} = {} \/ rows \cap {1, 2} # {} \/ 3 \in rows
          /\ rows \cap {1, 2} = {} \/ rows \cap {1} # {} \/ 2 \in rows
          /\ rows \cap {1} = {} \/ 1 \in rows
      OBVIOUS
    <3> QED
      BY <3>1, <3>2, <3>3, <3>4, <3>5, <3>6, <3>7, Zenon
  <2>3. least \in rows
    BY <2>2
  <2>4. least \in 1..6
    BY <2>1, <2>3
  <2>5. Classify(err).status = Ranking[least].status
    BY <1>3 DEF Classify, rows
  <2> HIDE DEF least
  <2> QED
    BY <1>1, <2>4, <2>5
<1> QED BY <1>2, <1>3

\* A probe is told 200, or 503 and above.
LEMMA StatusRange ==
    ASSUME NEW c \in Clients, NEW err
    PROVE  /\ Status(c, err) \in Nat
           /\ err = Good => Status(c, err) = 200
           /\ c = Probe /\ err # Good => Status(c, err) >= 503
BY ClassifiedStatus DEF Status, ReadyStatus

LEMMA PermitsRange ==
    ASSUME NEW o \in Readers
    PROVE  /\ Permits(o) \in SUBSET Origins
           /\ ~Everyone => Permits(o) \subseteq {o} \cap Allowed
           /\ Key(o) \in Readers
           /\ ~Everyone => Permits(o) \subseteq {Key(o)} \cap Allowed
BY EdgeAssumption DEF Permits, Key, Varies, Readers

\* The service answers: a price younger than a lifetime, or an error that is
\* younger than the shorter one.
LEMMA AnswerIsFine ==
    ASSUME Typed, NEW c \in Clients, NEW err, NEW age \in Nat, age < Lifetime(err),
           seen' = Got(c, "service", Status(c, err), age,
                       IF c = Probe THEN {} ELSE Permits(c))
    PROVE  /\ seen' \in [to: Clients, from: {"nobody", "edge", "service"}, status: Nat,
                         age: Nat, permits: SUBSET Origins]
           /\ Promises'
<1>1. c # Probe => c \in Readers
  BY DEF Clients
<1>2. /\ seen'.to = c /\ seen'.from = "service" /\ seen'.status = Status(c, err)
      /\ seen'.age = age /\ seen'.permits = IF c = Probe THEN {} ELSE Permits(c)
  BY DEF Got
<1>3. seen' \in [to: Clients, from: {"nobody", "edge", "service"}, status: Nat,
                 age: Nat, permits: SUBSET Origins]
  <2>1. Status(c, err) \in Nat /\ (IF c = Probe THEN {} ELSE Permits(c)) \in SUBSET Origins
    BY <1>1, StatusRange, PermitsRange
  <2> QED BY <2>1 DEF Got
<1>4. EdgeWithinTwoLifetimes'
  BY <1>2, LifetimeRange, EdgeAssumption DEF EdgeWithinTwoLifetimes
<1>5. ErrorsShortLived'
  BY <1>2, LifetimeRange, StatusRange, EdgeAssumption DEF ErrorsShortLived
<1>6. NoForeignGrant'
  BY <1>1, <1>2, PermitsRange DEF NoForeignGrant
<1> QED
  BY <1>3, <1>4, <1>5, <1>6 DEF Promises

----------------------------------------------------------------------------
LEMMA InitHolds == Init => IInv
<1> SUFFICES ASSUME Init PROVE IInv
  OBVIOUS
<1>1. /\ memo = Cold /\ asking = {} /\ store = [k \in Readers |-> Empty]
      /\ seen = Got(NoOrigin, "nobody", 0, 0, {})
  BY DEF Init
<1>2. Typed
  BY <1>1 DEF Typed, Cold, Empty, Got, Clients, Readers, Outcomes
<1>3. Memorised /\ Remembered
  BY <1>1 DEF Memorised, Remembered, Cold, Empty
<1>4. Promises
  BY <1>1, EdgeAssumption
  DEF Promises, Got, EdgeWithinTwoLifetimes, ErrorsShortLived, NoForeignGrant
<1> QED BY <1>2, <1>3, <1>4 DEF IInv

\* The edge answers with what it remembers.
LEMMA FromEdgeKeeps ==
    ASSUME IInv, NEW o \in Readers, FromEdge(o)
    PROVE  IInv'
<1>1. PICK k \in Matching(o) :
        seen' = Got(o, "edge", store[k].status, store[k].age, store[k].permits)
  BY DEF FromEdge
<1>2. UNCHANGED <<memo, asking, store>>
  BY DEF FromEdge
<1>3. k \in Readers /\ store[k].left > 0 /\ (k = o \/ k = NoOrigin)
  BY <1>1 DEF Matching, Readers
<1>4. store[k] \in [age: Nat, left: Nat, status: Nat, permits: SUBSET Origins]
  BY <1>3 DEF IInv, Typed
<1>5. /\ store[k].status = 200 /\ store[k].age + store[k].left + 1 <= TTL + MaxAge
      /\ ~Everyone => store[k].permits \subseteq {k} \cap Allowed
  BY <1>3 DEF IInv, Remembered
<1>6. /\ seen'.to = o /\ seen'.status = 200 /\ seen'.age = store[k].age
      /\ seen'.permits = store[k].permits
  BY <1>1, <1>5 DEF Got
<1>7. Typed'
  BY <1>1, <1>2, <1>4 DEF IInv, Typed, Got, Clients
<1>8. EdgeWithinTwoLifetimes'
  BY <1>3, <1>4, <1>5, <1>6, WholeSeconds, EdgeAssumption DEF EdgeWithinTwoLifetimes
<1>9. ErrorsShortLived' /\ NoForeignGrant'
  BY <1>3, <1>5, <1>6, EdgeAssumption DEF ErrorsShortLived, NoForeignGrant
<1> QED
  BY <1>2, <1>7, <1>8, <1>9 DEF IInv, Memorised, Remembered, Promises

LEMMA ReplyKeeps ==
    ASSUME IInv, NEW c \in Clients, Reply(c)
    PROVE  IInv'
<1>1. /\ memo.state = "held" /\ asking' = asking \ {c} /\ memo' = memo
      /\ seen' = Got(c, "service", Status(c, memo.err), memo.age,
                     IF c = Probe THEN {} ELSE Permits(c))
      /\ store' = IF c # Probe /\ Keep(memo.err) > 0
                  THEN [store EXCEPT ![Key(c)] = Stored(c)] ELSE store
  BY DEF Reply
<1>2. /\ memo.age \in Nat /\ memo.left \in Nat /\ memo.left > 0
      /\ memo.age + memo.left = Lifetime(memo.err)
  BY <1>1 DEF IInv, Typed, Memorised
<1>3. memo.age < Lifetime(memo.err) /\ memo.age < TTL
  BY <1>2, LifetimeRange, EdgeAssumption
<1>4. /\ seen' \in [to: Clients, from: {"nobody", "edge", "service"}, status: Nat,
                    age: Nat, permits: SUBSET Origins]
      /\ Promises'
  BY <1>1, <1>2, <1>3, AnswerIsFine DEF IInv
<1>5. /\ store' \in [Readers -> [age: Nat, left: Nat, status: Nat, permits: SUBSET Origins]]
      /\ Remembered'
  <2>1. CASE c = Probe \/ ~(Keep(memo.err) > 0)
    BY <1>1, <2>1 DEF IInv, Typed, Remembered
  <2>2. CASE c # Probe /\ Keep(memo.err) > 0
    <3>1. c \in Readers /\ memo.err = Good
      BY <2>2 DEF Clients, Keep
    <3>2. Stored(c) = [age |-> memo.age, left |-> MaxAge, status |-> 200,
                       permits |-> Permits(c)]
      BY <3>1, StatusRange DEF Stored, Keep
    <3>3. store' = [store EXCEPT ![Key(c)] = Stored(c)] /\ Key(c) \in Readers
      BY <1>1, <2>2, <3>1, PermitsRange
    <3>4. Stored(c) \in [age: Nat, left: Nat, status: Nat, permits: SUBSET Origins]
      BY <1>2, <3>1, <3>2, WholeSeconds, PermitsRange
    <3>5. Remembered'
      <4> SUFFICES ASSUME NEW k \in Readers, store'[k].left > 0
                   PROVE  /\ store'[k].status = 200
                          /\ store'[k].age + store'[k].left + 1 <= TTL + MaxAge
                          /\ ~Everyone => store'[k].permits \subseteq {k} \cap Allowed
        BY DEF Remembered
      <4>1. CASE k = Key(c)
        <5>1. store'[k] = Stored(c)
          BY <3>3, <4>1 DEF IInv, Typed
        <5> QED
          BY <1>2, <1>3, <3>1, <3>2, <4>1, <5>1, WholeSeconds, PermitsRange, EdgeAssumption
      <4>2. CASE k # Key(c)
        BY <3>3, <4>2 DEF IInv, Typed, Remembered
      <4> QED BY <4>1, <4>2
    <3> QED
      BY <3>3, <3>4, <3>5 DEF IInv, Typed
  <2> QED BY <2>1, <2>2
<1> QED
  BY <1>1, <1>4, <1>5 DEF IInv, Typed, Memorised

LEMMA GiveUpKeeps ==
    ASSUME IInv, NEW c \in Clients, GiveUp(c)
    PROVE  IInv'
<1>1. /\ asking' = asking \ {c} /\ UNCHANGED <<memo, store>>
      /\ seen' = Got(c, "service", Status(c, Bare({"DeadlineExceeded"})), 0,
                     IF c = Probe THEN {} ELSE Permits(c))
  BY DEF GiveUp
<1>2. 0 < Lifetime(Bare({"DeadlineExceeded"}))
  BY LifetimeRange
<1>3. /\ seen' \in [to: Clients, from: {"nobody", "edge", "service"}, status: Nat,
                    age: Nat, permits: SUBSET Origins]
      /\ Promises'
  BY <1>1, <1>2, AnswerIsFine DEF IInv
<1> QED
  BY <1>1, <1>3 DEF IInv, Typed, Memorised, Remembered

\* Requests come in and fetches begin and end.
LEMMA ServiceKeeps ==
    ASSUME IInv, (\E c \in Clients : Forward(c)) \/ Fetch \/ (\E err \in Outcomes : Publish(err))
    PROVE  IInv'
<1>1. UNCHANGED <<store, seen>> /\ asking' \subseteq Clients
  BY DEF Forward, Fetch, Publish, IInv, Typed
<1>2. /\ memo' \in [state: {"cold", "loading", "held"}, err: Outcomes, age: Nat, left: Nat]
      /\ Memorised'
  <2>1. CASE memo' = memo
    BY <2>1 DEF IInv, Typed, Memorised
  <2>2. CASE memo' = Loading
    BY <2>2, EdgeAssumption DEF Loading, Outcomes, Memorised
  <2>3. ASSUME NEW err \in Outcomes, memo' = Held(err)
        PROVE  /\ memo' \in [state: {"cold", "loading", "held"}, err: Outcomes, age: Nat,
                             left: Nat]
               /\ Memorised'
    BY <2>3, LifetimeRange DEF Held, Memorised
  <2> QED
    BY <2>1, <2>2, <2>3 DEF Forward, Fetch, Publish
<1> QED
  BY <1>1, <1>2 DEF IInv, Typed, Remembered, Promises, EdgeWithinTwoLifetimes,
                    ErrorsShortLived, NoForeignGrant

\* Time passes: ages grow as what is left shrinks.
LEMMA TickKeeps ==
    ASSUME IInv, Tick
    PROVE  IInv'
<1>1. /\ memo' = OlderMemo /\ store' = [k \in Readers |-> OlderAnswer(store[k])]
      /\ UNCHANGED <<asking, seen>>
      /\ memo.state = "loading" => memo.left > 0
  BY DEF Tick
<1>2. /\ memo' \in [state: {"cold", "loading", "held"}, err: Outcomes, age: Nat, left: Nat]
      /\ Memorised'
  <2>1. memo \in [state: {"cold", "loading", "held"}, err: Outcomes, age: Nat, left: Nat]
    BY DEF IInv, Typed
  <2>2. CASE memo' = Cold
    BY <2>2 DEF Cold, Outcomes, Memorised
  <2>3. CASE memo.state = "loading" /\ memo' = [memo EXCEPT !.left = @ - 1]
    BY <1>1, <2>1, <2>3 DEF Memorised
  <2>4. CASE /\ memo.state = "held" /\ memo.left # 1
             /\ memo' = [memo EXCEPT !.left = @ - 1, !.age = @ + 1]
    <3>1. memo.left > 1 /\ memo.age + memo.left = Lifetime(memo.err)
      BY <2>1, <2>4 DEF IInv, Memorised
    <3>2. /\ memo'.left = memo.left - 1 /\ memo'.age = memo.age + 1
          /\ memo'.err = memo.err /\ memo'.state = "held"
      BY <2>1, <2>4
    <3>3. memo' \in [state: {"cold", "loading", "held"}, err: Outcomes, age: Nat, left: Nat]
      <4>1. memo.left - 1 \in Nat /\ memo.age + 1 \in Nat
        BY <2>1, <3>1
      <4> QED
        BY <2>1, <2>4, <4>1
    <3>4. Lifetime(memo'.err) = Lifetime(memo.err)
      BY <3>2
    <3> QED
      BY <2>1, <3>1, <3>2, <3>3, <3>4 DEF Memorised
  <2> QED
    BY <1>1, <2>1, <2>2, <2>3, <2>4 DEF OlderMemo
<1>3. ASSUME NEW k \in Readers
      PROVE  /\ store'[k] \in [age: Nat, left: Nat, status: Nat, permits: SUBSET Origins]
             /\ store'[k].left > 0 =>
                  /\ store'[k].status = 200
                  /\ store'[k].age + store'[k].left + 1 <= TTL + MaxAge
                  /\ ~Everyone => store'[k].permits \subseteq {k} \cap Allowed
  <2>1. /\ store[k] \in [age: Nat, left: Nat, status: Nat, permits: SUBSET Origins]
        /\ store'[k] = OlderAnswer(store[k])
    BY <1>1 DEF IInv, Typed
  <2>2. CASE store[k].left <= 1
    BY <2>1, <2>2 DEF OlderAnswer, Empty
  <2>3. CASE store[k].left > 1
    <3>1. store'[k] = [store[k] EXCEPT !.left = @ - 1, !.age = @ + 1]
      BY <2>1, <2>3 DEF OlderAnswer
    <3>2. /\ store'[k].left = store[k].left - 1 /\ store'[k].age = store[k].age + 1
          /\ store'[k].status = store[k].status /\ store'[k].permits = store[k].permits
      BY <2>1, <3>1
    <3>3. /\ store[k].status = 200
          /\ store[k].age + store[k].left + 1 <= TTL + MaxAge
          /\ ~Everyone => store[k].permits \subseteq {k} \cap Allowed
      BY <2>1, <2>3 DEF IInv, Remembered
    <3>4. store'[k] \in [age: Nat, left: Nat, status: Nat, permits: SUBSET Origins]
      <4>1. store[k].left - 1 \in Nat /\ store[k].age + 1 \in Nat
        BY <2>1, <2>3
      <4> QED
        BY <2>1, <3>1, <4>1
    <3> QED
      BY <2>1, <3>2, <3>3, <3>4, WholeSeconds, EdgeAssumption
  <2> QED BY <2>1, <2>2, <2>3
<1>4. store' \in [Readers -> [age: Nat, left: Nat, status: Nat, permits: SUBSET Origins]]
      /\ Remembered'
  BY <1>1, <1>3 DEF Remembered
<1> QED
  BY <1>1, <1>2, <1>4 DEF IInv, Typed, Promises, EdgeWithinTwoLifetimes, ErrorsShortLived,
                          NoForeignGrant

LEMMA StepKeeps == IInv /\ [Next]_vars => IInv'
<1> SUFFICES ASSUME IInv, [Next]_vars PROVE IInv'
  OBVIOUS
<1>1. ASSUME NEW o \in Readers, FromEdge(o) PROVE IInv'
  BY <1>1, FromEdgeKeeps
<1>2. ASSUME NEW c \in Clients, Reply(c) PROVE IInv'
  BY <1>2, ReplyKeeps
<1>3. ASSUME NEW c \in Clients, GiveUp(c) PROVE IInv'
  BY <1>3, GiveUpKeeps
<1>4. CASE UNCHANGED vars
  BY <1>4 DEF vars, IInv, Typed, Memorised, Remembered, Promises, EdgeWithinTwoLifetimes,
              ErrorsShortLived, NoForeignGrant
<1> QED
  BY <1>1, <1>2, <1>3, <1>4, ServiceKeeps, TickKeeps DEF Next, Outcomes

LEMMA Inductive == Spec => []IInv
BY InitHolds, StepKeeps, PTL DEF Spec

----------------------------------------------------------------------------
\* server.go:143, cacheControl: the edge repeats the client's cache one layer
\* out, and the two together stay within two lifetimes.
THEOREM Staleness == Spec => []EdgeWithinTwoLifetimes
<1>1. IInv => EdgeWithinTwoLifetimes
  BY DEF IInv, Promises
<1> QED BY <1>1, Inductive, PTL

\* writeError and handleReady: no edge repeats an error, no error outlives the
\* shorter lifetime, and a probe is never told one is less than a 503.
THEOREM Outages == Spec => []ErrorsShortLived
<1>1. IInv => ErrorsShortLived
  BY DEF IInv, Promises
<1> QED BY <1>1, Inductive, PTL

\* cors: the permission of one origin never reaches another through an edge.
THEOREM Grants == Spec => []NoForeignGrant
<1>1. IInv => NoForeignGrant
  BY DEF IInv, Promises
<1> QED BY <1>1, Inductive, PTL
=============================================================================
