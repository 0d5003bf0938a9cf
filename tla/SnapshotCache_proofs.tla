------------------------ MODULE SnapshotCache_proofs ------------------------
(* Safety of the cache for any number of callers, markets and entries, any   *)
(* durations, and with or without invalidations.                             *)
EXTENDS SnapshotCache, TLAPS

Live(e) == entry[e].market # NoMarket

\* The registered entry of a market belongs to it and to its current epoch.
RegisteredOK ==
    \A m \in Markets : entries[m] # NoEntry =>
        /\ entry[entries[m]].market = m
        /\ entry[entries[m]].epoch = epoch[m]

\* The life of an entry: fetching, published, settled.
LifeOK ==
    \A e \in Entries :
        /\ Live(e) => /\ entry[e].began <= now
                      /\ entry[e].epoch <= epoch[entry[e].market]
        /\ worker[e] # "none" => Live(e) /\ ~entry[e].ready
        /\ worker[e] = "fetching" => entry[e].outcome = "none"
        /\ worker[e] = "closing" => entry[e].outcome # "none"
        /\ worker[e] = "none" /\ Live(e) => entry[e].ready
        /\ entry[e].ready => entry[e].outcome # "none" /\ Live(e)
        /\ entry[e].outcome # "none" =>
             /\ entry[e].began <= entry[e].published
             /\ entry[e].published <= now
             /\ entry[e].expires = entry[e].published + Lifetime(entry[e].outcome)

\* An entry of the current epoch that is not registered was replaced, and it
\* was replaced only because it had settled.
SupersededOK ==
    \A e \in Entries :
        /\ Live(e)
        /\ entry[e].epoch = epoch[entry[e].market]
        /\ entries[entry[e].market] # e
        => entry[e].ready

\* One caller at most is between the two reads of a channel, and while it holds
\* the mutex its market keeps the entry it read.
LockOK ==
    /\ \A c \in Callers : call[c].pc = "checked" =>
         entries[call[c].market] = call[c].on
    /\ \A c, d \in Callers :
         call[c].pc = "checked" /\ call[d].pc = "checked" => c = d

\* No fetch honours a caller's cancellation, so none ends with one.
DetachedOK ==
    \A e \in Entries :
        entry[e].honours = NoCaller /\ entry[e].outcome # "cancelled"

\* What a caller waits on, or was answered from, is an entry of its market, of
\* an epoch not before its call, that nobody else got the address of.
CallOK ==
    \A c \in Callers :
        LET k == call[c] e == entry[call[c].on] IN
        /\ k.pc # "idle" => /\ k.market \in Markets
                            /\ k.since <= now
                            /\ k.asked <= epoch[k.market]
        /\ k.pc \in {"idle", "lookup"} => k.on = NoEntry
        /\ k.pc \in {"checked", "following", "leading"} => k.on # NoEntry
        /\ k.pc # "returned" => k.result = "none"
        /\ k.on # NoEntry => /\ e.market = k.market
                             /\ k.asked <= e.epoch
        /\ k.pc = "leading" => k.since <= e.began
        /\ k.pc = "returned" /\ k.on # NoEntry =>
             /\ e.ready
             /\ k.result = e.outcome
             /\ k.since < e.published + Lifetime(e.outcome)
        /\ k.result = "cancelled" => ctxDone[c]

IInv ==
    /\ TypeOK
    /\ RegisteredOK
    /\ LifeOK
    /\ SupersededOK
    /\ DetachedOK
    /\ FetchesApart
    /\ LockOK
    /\ CallOK

----------------------------------------------------------------------------
(* Types. *)

LEMMA LifetimeType == ASSUME NEW outcome PROVE Lifetime(outcome) \in Nat
BY DurationsAssumption DEF Lifetime

LEMMA NewEntryType ==
    ASSUME TypeOK, NEW c \in Callers, call[c].market \in Markets
    PROVE  NewEntry(c) \in EntryType
BY DEF TypeOK, EntryType, CallType, NewEntry, WithoutCancel

LEMMA TypeInit == Init => TypeOK
BY DEF Init, TypeOK, Blank, Idle, EntryType, CallType, Pcs

LEMMA TypeNext == IInv /\ [Next]_vars => TypeOK'
<1> SUFFICES ASSUME IInv, [Next]_vars PROVE TypeOK'
    OBVIOUS
<1> USE DEF IInv
<1>1. CASE UNCHANGED vars
    BY <1>1 DEF TypeOK, vars
<1>2. ASSUME NEW c \in Callers, NEW m \in Markets, Call(c, m) PROVE TypeOK'
    BY <1>2, DurationsAssumption DEF TypeOK, CallType, Pcs, Call
<1>3. ASSUME NEW c \in Callers, Hit(c) PROVE TypeOK'
    BY <1>3 DEF TypeOK, CallType, EntryType, Pcs, Hit, Moves, Valid, Settled, Registered, CallOK
<1>4. ASSUME NEW c \in Callers, Follow(c) PROVE TypeOK'
    BY <1>4 DEF TypeOK, CallType, Pcs, Follow, Moves, CallOK
<1>14. ASSUME NEW c \in Callers, SeeOpen(c) PROVE TypeOK'
    BY <1>14 DEF TypeOK, CallType, Pcs, SeeOpen, Moves, InFlight, Registered, CallOK
<1>5. ASSUME NEW c \in Callers, Lead(c) PROVE TypeOK'
  <2>1. call[c].market \in Markets
    BY <1>5 DEF CallOK, Lead, MustLead, Moves
  <2>2. NewEntry(c) \in EntryType
    BY <2>1, NewEntryType
  <2> QED
    BY <1>5, <2>1, <2>2 DEF TypeOK, CallType, Pcs, Lead, Moves
<1>6. ASSUME NEW c \in Callers, Wake(c) PROVE TypeOK'
    BY <1>6 DEF TypeOK, CallType, Pcs, Wake, Moves
<1>7. ASSUME NEW c \in Callers, LeaderReturn(c) PROVE TypeOK'
    BY <1>7 DEF TypeOK, CallType, EntryType, Pcs, LeaderReturn, Moves, CallOK, Settled
<1>8. ASSUME NEW c \in Callers, GiveUp(c) PROVE TypeOK'
    BY <1>8 DEF TypeOK, CallType, Pcs, Outcomes, GiveUp, MayGiveUp, Moves
<1>9. ASSUME NEW c \in Callers, EndContext(c) PROVE TypeOK'
    BY <1>9 DEF TypeOK, EndContext
<1>10. ASSUME NEW e \in Entries, Publish(e) PROVE TypeOK'
    BY <1>10, LifetimeType DEF TypeOK, EntryType, Outcomes, Publish, FetchOutcomes, Filled
<1>11. ASSUME NEW e \in Entries, Close(e) PROVE TypeOK'
    BY <1>11 DEF TypeOK, EntryType, Close, Opened
<1>12. ASSUME NEW named \in SUBSET Markets, Invalidate(named) PROVE TypeOK'
    BY <1>12 DEF TypeOK, Invalidate
<1>13. CASE Tick
    BY <1>13 DEF TypeOK, Tick
<1> QED
    BY <1>1, <1>2, <1>3, <1>4, <1>5, <1>6, <1>7, <1>8, <1>9, <1>10,
       <1>11, <1>12, <1>13, <1>14 DEF Next, CallerStep, WorkerStep

----------------------------------------------------------------------------
(* The inductive invariant. *)

LEMMA InvInit == Init => IInv
<1> SUFFICES ASSUME Init PROVE IInv
    OBVIOUS
<1> USE NullsAssumption DEF Init, Blank, Idle
<1>1. TypeOK
    BY TypeInit
<1>2. RegisteredOK /\ LifeOK /\ SupersededOK /\ DetachedOK
    BY DEF RegisteredOK, LifeOK, SupersededOK, DetachedOK, Live
<1>3. FetchesApart
    BY DEF FetchesApart, SameReading
<1>4. CallOK /\ LockOK
    BY DEF CallOK, LockOK
<1> QED
    BY <1>1, <1>2, <1>3, <1>4 DEF IInv

\* What the map and the entries keep through a step that leaves them alone.
StoreOK == RegisteredOK /\ LifeOK /\ SupersededOK /\ DetachedOK /\ FetchesApart

LEMMA StoreUnchanged ==
    ASSUME IInv, TypeOK', now' >= now,
           UNCHANGED <<entries, entry, worker, epoch>>
    PROVE  StoreOK'
<1> USE DEF IInv
<1>1. RegisteredOK' /\ DetachedOK'
    BY DEF RegisteredOK, DetachedOK
<1>2. LifeOK'
    BY DEF LifeOK, Live, TypeOK, EntryType, Lifetime
<1>3. SupersededOK'
    BY DEF SupersededOK, Live, TypeOK, EntryType
<1>4. FetchesApart'
    BY DEF FetchesApart, SameReading, Before
<1> QED
    BY <1>1, <1>2, <1>3, <1>4 DEF StoreOK

\* A caller's own step disturbs only what is known of that caller.
LEMMA StepCall ==
    ASSUME IInv, TypeOK', NEW c \in Callers, NEW m \in Markets, Call(c, m)
    PROVE  CallOK'
BY DurationsAssumption, NullsAssumption
   DEF IInv, CallOK, Call, TypeOK, CallType

LEMMA StepHit ==
    ASSUME IInv, TypeOK', NEW c \in Callers, Hit(c)
    PROVE  CallOK'
<1> DEFINE m == call[c].market
           e == entries[m]
<1> USE NullsAssumption DEF IInv
<1>1. /\ call[c].pc = "lookup"
      /\ Valid(m)
      /\ Moves(c, "returned", e, entry[e].outcome)
      /\ UNCHANGED <<now, entries, entry, worker, ctxDone, epoch>>
    BY DEF Hit
<1>2. m \in Markets /\ call[c].since <= now /\ call[c].asked <= epoch[m]
    BY <1>1 DEF CallOK
<1>3. /\ e \in Entries
      /\ entry[e].ready
      /\ now < entry[e].expires
      /\ entry[e].market = m
      /\ entry[e].epoch = epoch[m]
    BY <1>1, <1>2 DEF Valid, Settled, Registered, RegisteredOK, TypeOK
<1>4. /\ entry[e].outcome # "cancelled"
      /\ entry[e].expires = entry[e].published + Lifetime(entry[e].outcome)
    BY <1>3 DEF LifeOK, DetachedOK
<1>5. /\ call'[c] = [pc |-> "returned", market |-> m, on |-> e,
                     result |-> entry[e].outcome,
                     since |-> call[c].since, asked |-> call[c].asked]
      /\ \A d \in Callers : d # c => call'[d] = call[d]
    BY <1>1 DEF Moves, TypeOK
<1>6. /\ call[c].since \in Nat /\ now \in Nat
      /\ entry[e].expires \in Nat
    BY <1>3 DEF TypeOK, CallType, EntryType
<1>7. call[c].since < entry[e].published + Lifetime(entry[e].outcome)
    BY <1>2, <1>3, <1>4, <1>6
<1> HIDE DEF m, e
<1> QED
    BY <1>1, <1>2, <1>3, <1>4, <1>5, <1>7 DEF CallOK, Lifetime

LEMMA StepSeeOpen ==
    ASSUME IInv, TypeOK', NEW c \in Callers, SeeOpen(c)
    PROVE  CallOK'
BY NullsAssumption
   DEF IInv, CallOK, RegisteredOK, SeeOpen, Moves, InFlight, Registered, TypeOK,
       CallType, EntryType

LEMMA StepFollow ==
    ASSUME IInv, TypeOK', NEW c \in Callers, Follow(c)
    PROVE  CallOK'
BY NullsAssumption DEF IInv, CallOK, Follow, Moves, TypeOK, CallType

LEMMA StepWake ==
    ASSUME IInv, TypeOK', NEW c \in Callers, Wake(c)
    PROVE  CallOK'
BY NullsAssumption DEF IInv, CallOK, Wake, Moves, TypeOK, CallType

LEMMA StepLeaderReturn ==
    ASSUME IInv, TypeOK', NEW c \in Callers, LeaderReturn(c)
    PROVE  CallOK'
<1> DEFINE e == call[c].on
<1> USE NullsAssumption DEF IInv
<1>1. /\ call[c].pc = "leading"
      /\ entry[e].ready
      /\ Moves(c, "returned", e, entry[e].outcome)
      /\ UNCHANGED <<now, entries, entry, worker, ctxDone, epoch>>
    BY DEF LeaderReturn, Settled
<1>2. e \in Entries /\ call[c].since <= entry[e].began
    BY <1>1 DEF CallOK, TypeOK, CallType
<1>3. /\ entry[e].outcome # "cancelled"
      /\ entry[e].began <= entry[e].published
    BY <1>1, <1>2 DEF LifeOK, DetachedOK
<1>4. /\ call'[c] = [pc |-> "returned", market |-> call[c].market, on |-> e,
                     result |-> entry[e].outcome,
                     since |-> call[c].since, asked |-> call[c].asked]
      /\ \A d \in Callers : d # c => call'[d] = call[d]
    BY <1>1 DEF Moves, TypeOK
<1>5. /\ call[c].since \in Nat
      /\ entry[e].began \in Nat /\ entry[e].published \in Nat
    BY <1>2 DEF TypeOK, CallType, EntryType
<1>6. Lifetime(entry[e].outcome) \in Nat \ {0}
    BY <1>2, DurationsAssumption DEF Lifetime
<1>7. call[c].since < entry[e].published + Lifetime(entry[e].outcome)
    BY <1>2, <1>3, <1>5, <1>6
<1>8. entry[e].market = call[c].market /\ call[c].asked <= entry[e].epoch
    BY <1>1, <1>2 DEF CallOK
<1> HIDE DEF e
<1> QED
    BY <1>1, <1>2, <1>3, <1>4, <1>7, <1>8 DEF CallOK, Lifetime

LEMMA StepGiveUp ==
    ASSUME IInv, TypeOK', NEW c \in Callers, GiveUp(c)
    PROVE  CallOK'
BY NullsAssumption DEF IInv, CallOK, GiveUp, MayGiveUp, Moves, TypeOK, CallType

LEMMA StepEndContext ==
    ASSUME IInv, TypeOK', NEW c \in Callers, EndContext(c)
    PROVE  CallOK'
BY DEF IInv, CallOK, EndContext, TypeOK, CallType

LEMMA StepTick ==
    ASSUME IInv, TypeOK', Tick
    PROVE  CallOK'
BY DEF IInv, CallOK, Tick, TypeOK, CallType

\* The mutex: whoever is not the caller that holds it leaves the map alone.
LEMMA NobodyHolds == ASSUME NEW c \in Callers, ~Locked PROVE call[c].pc # "checked"
BY DEF Locked

LEMMA StepLock == IInv /\ [Next]_vars => LockOK'
<1> SUFFICES ASSUME IInv, [Next]_vars PROVE LockOK'
    OBVIOUS
<1> USE DEF IInv, LockOK
<1>1. ASSUME NEW c \in Callers, NEW pc, pc # "checked", call'[c].pc = pc,
             \A d \in Callers : d # c => call'[d] = call[d],
             UNCHANGED entries
      PROVE  LockOK'
    BY <1>1
<1>2. ASSUME NEW c \in Callers, NEW m \in Markets, Call(c, m) PROVE LockOK'
  <2>1. /\ call'[c].pc = "lookup"
        /\ \A d \in Callers : d # c => call'[d] = call[d]
        /\ UNCHANGED entries
      BY <1>2 DEF Call, TypeOK
  <2> QED
      BY <1>1, <2>1
<1>3. ASSUME NEW c \in Callers, Hit(c) \/ Follow(c) \/ Wake(c) \/ LeaderReturn(c) \/ GiveUp(c)
      PROVE  LockOK'
  <2>1. PICK pc \in {"lookup", "following", "returned"} :
          \E e, result : Moves(c, pc, e, result) /\ UNCHANGED entries
      BY <1>3 DEF Hit, Follow, Wake, LeaderReturn, GiveUp
  <2>2. /\ call'[c].pc = pc
        /\ \A d \in Callers : d # c => call'[d] = call[d]
        /\ UNCHANGED entries
      BY <2>1 DEF Moves, TypeOK
  <2> QED
      BY <1>1, <2>1, <2>2
<1>4. ASSUME NEW c \in Callers, SeeOpen(c) PROVE LockOK'
  <2>1. /\ call'[c].market = call[c].market /\ call'[c].on = entries[call[c].market]
        /\ \A d \in Callers : d # c => call'[d] = call[d]
        /\ UNCHANGED entries
      BY <1>4 DEF SeeOpen, Moves, TypeOK
  <2>2. \A d \in Callers : call[d].pc # "checked"
      BY <1>4, NobodyHolds DEF SeeOpen
  <2> QED
      BY <2>1, <2>2
<1>5. ASSUME NEW c \in Callers, Lead(c) PROVE LockOK'
  <2>1. /\ call'[c].pc = "leading"
        /\ \A d \in Callers : d # c => call'[d] = call[d]
      BY <1>5 DEF Lead, Moves, TypeOK
  <2>2. \A d \in Callers : d # c => call[d].pc # "checked"
      BY <1>5, NobodyHolds DEF Lead, MustLead
  <2> QED
      BY <2>1, <2>2
<1>6. ASSUME UNCHANGED call, ~Locked \/ UNCHANGED entries PROVE LockOK'
    BY <1>6, NobodyHolds
<1>7. CASE UNCHANGED vars
    BY <1>6, <1>7 DEF vars
<1>8. ASSUME NEW c \in Callers, EndContext(c) PROVE LockOK'
    BY <1>6, <1>8 DEF EndContext
<1>9. ASSUME NEW e \in Entries, WorkerStep(e) PROVE LockOK'
    BY <1>6, <1>9 DEF WorkerStep, Publish, Close
<1>10. ASSUME NEW named \in SUBSET Markets, Invalidate(named) PROVE LockOK'
    BY <1>6, <1>10 DEF Invalidate
<1>11. CASE Tick
    BY <1>6, <1>11 DEF Tick
<1> QED
    BY <1>2, <1>3, <1>4, <1>5, <1>7, <1>8, <1>9, <1>10, <1>11 DEF Next, CallerStep

\* A new leader overwrites an address nobody refers to; every other entry of
\* the epoch has settled by now, be it expired or not.
LEMMA StepLead ==
    ASSUME IInv, TypeOK', NEW c \in Callers, Lead(c)
    PROVE  StoreOK' /\ CallOK'
<1> DEFINE m == call[c].market
<1> USE NullsAssumption DEF IInv
<1>1. PICK e \in Entries :
        /\ Free(e)
        /\ entry' = [entry EXCEPT ![e] = NewEntry(c)]
        /\ entries' = [entries EXCEPT ![m] = e]
        /\ worker' = [worker EXCEPT ![e] = "fetching"]
        /\ Moves(c, "leading", e, "none")
    BY DEF Lead, NextFree
<1>2. /\ call[c].pc \in {"lookup", "checked"}
      /\ MustLead(c)
      /\ UNCHANGED <<now, ctxDone, epoch>>
    BY DEF Lead, MustLead
<1>3. m \in Markets /\ call[c].since <= now /\ call[c].asked <= epoch[m]
    BY <1>2 DEF CallOK
<1>4. /\ entry'[e] = NewEntry(c)
      /\ \A d \in Entries : d # e => entry'[d] = entry[d]
      /\ entries'[m] = e
      /\ \A n \in Markets : n # m => entries'[n] = entries[n]
    BY <1>1, <1>3 DEF TypeOK
<1>5. ASSUME NEW d \in Entries, d # e, entry[d].market = m, entry[d].epoch = epoch[m]
      PROVE  entry[d].ready
  <2>1. CASE entries[m] = d
      BY <1>2, <1>3, <2>1 DEF MustLead, Valid, Settled, InFlight, Registered, LockOK,
                              TypeOK
  <2>2. CASE entries[m] # d
      BY <1>3, <1>5, <2>2 DEF SupersededOK, Live
  <2> QED
      BY <2>1, <2>2
<1>6. RegisteredOK'
    BY <1>1, <1>2, <1>3, <1>4 DEF RegisteredOK, NewEntry, Free, TypeOK
<1>7. LifeOK'
    BY <1>1, <1>2, <1>3, <1>4 DEF LifeOK, Live, NewEntry, TypeOK
<1>8. SupersededOK'
  <2> SUFFICES ASSUME NEW d \in Entries, Live(d)',
                      entry'[d].epoch = epoch[entry'[d].market],
                      entries'[entry'[d].market] # d
               PROVE  entry'[d].ready
      BY <1>2 DEF SupersededOK
  <2>1. d # e
      BY <1>4 DEF NewEntry
  <2>2. entry'[d] = entry[d] /\ Live(d)
      BY <1>4, <2>1 DEF Live
  <2>3. CASE entry[d].market = m
      BY <1>5, <2>1, <2>2, <2>3
  <2>4. CASE entry[d].market # m
    <3>1. entry[d].market \in Markets
        BY <2>2 DEF Live, TypeOK, EntryType
    <3> QED
        BY <1>4, <2>2, <2>4, <3>1 DEF SupersededOK
  <2> QED
      BY <2>3, <2>4
<1>9. DetachedOK'
  <2>1. entry'[e].honours = NoCaller /\ entry'[e].outcome = "none"
      BY <1>4 DEF NewEntry, WithoutCancel
  <2>2. \A d \in Entries : d # e => entry'[d] = entry[d]
      BY <1>4
  <2> QED
      BY <2>1, <2>2 DEF DetachedOK
<1>12. ASSUME NEW d \in Entries, d # e, entry[d].market = m, entry[d].epoch = epoch[m]
       PROVE  entry[d].ready /\ entry[d].published <= now
    BY <1>5, <1>12 DEF LifeOK
<1>10. FetchesApart'
  <2>1. /\ entry'[e].market = m /\ entry'[e].epoch = epoch[m]
        /\ entry'[e].began = now
      BY <1>3, <1>4 DEF NewEntry
  <2>2. ASSUME NEW d \in Entries, SameReading(d, e)' \/ SameReading(e, d)'
        PROVE  Before(d, e)'
    <3>1. d # e /\ entry'[d].market = m /\ entry'[d].epoch = epoch[m]
        BY <2>1, <2>2 DEF SameReading
    <3>2. entry'[d] = entry[d]
        BY <1>4, <3>1
    <3>3. entry[d].ready /\ entry[d].published <= now
        BY <1>12, <3>1, <3>2
    <3> QED
        BY <2>1, <3>2, <3>3 DEF Before
  <2>3. ASSUME NEW b \in Entries, NEW d \in Entries, b # e, d # e, SameReading(b, d)'
        PROVE  Before(b, d)' \/ Before(d, b)'
    <3>1. entry'[b] = entry[b] /\ entry'[d] = entry[d]
        BY <1>4, <2>3
    <3>2. SameReading(b, d)
        BY <2>3, <3>1 DEF SameReading
    <3>3. Before(b, d) \/ Before(d, b)
        BY <3>2 DEF FetchesApart
    <3> QED
        BY <3>1, <3>3 DEF Before
  <2> QED
      BY <2>2, <2>3 DEF FetchesApart
<1>11. CallOK'
    BY <1>1, <1>2, <1>3, <1>4 DEF CallOK, Moves, NewEntry, Free, TypeOK, CallType
<1> QED
    BY <1>6, <1>7, <1>8, <1>9, <1>10, <1>11 DEF StoreOK

\* Writing the fields of an entry that is not ready changes nothing anyone has
\* relied on.
LEMMA StepPublish ==
    ASSUME IInv, TypeOK', NEW e \in Entries, Publish(e)
    PROVE  StoreOK' /\ CallOK'
<1> USE NullsAssumption DEF IInv
<1>1. PICK outcome \in FetchOutcomes(e) :
        entry' = [entry EXCEPT ![e] = Filled(e, outcome)]
    BY DEF Publish
<1>2. /\ worker[e] = "fetching"
      /\ worker' = [worker EXCEPT ![e] = "closing"]
      /\ UNCHANGED <<now, entries, call, ctxDone, epoch>>
    BY DEF Publish
<1>3. outcome \in {"snapshot", "failure"}
    BY DEF FetchOutcomes, DetachedOK
<1>4. /\ entry'[e] = Filled(e, outcome)
      /\ \A d \in Entries : d # e => entry'[d] = entry[d]
    BY <1>1 DEF TypeOK
<1>5. Live(e) /\ ~entry[e].ready /\ entry[e].began <= now
    BY <1>2 DEF LifeOK
<1>6. RegisteredOK'
    BY <1>2, <1>4 DEF RegisteredOK, Filled, TypeOK
<1>7. LifeOK'
    BY <1>2, <1>3, <1>4, <1>5 DEF LifeOK, Live, Filled, Lifetime, TypeOK
<1>8. SupersededOK'
  <2> SUFFICES ASSUME NEW d \in Entries, Live(d)',
                      entry'[d].epoch = epoch[entry'[d].market],
                      entries[entry'[d].market] # d
               PROVE  entry'[d].ready
      BY <1>2 DEF SupersededOK
  <2>1. d # e
      BY <1>4, <1>5 DEF SupersededOK, Filled
  <2> QED
      BY <1>4, <2>1 DEF SupersededOK, Live
<1>9. DetachedOK'
    BY <1>3, <1>4 DEF DetachedOK, Filled
<1>10. FetchesApart'
    BY <1>4, <1>5 DEF FetchesApart, SameReading, Before, Filled
<1>11. CallOK'
    BY <1>2, <1>4, <1>5 DEF CallOK, Filled, Lifetime, TypeOK, CallType
<1> QED
    BY <1>6, <1>7, <1>8, <1>9, <1>10, <1>11 DEF StoreOK

LEMMA StepClose ==
    ASSUME IInv, TypeOK', NEW e \in Entries, Close(e)
    PROVE  StoreOK' /\ CallOK'
<1> USE NullsAssumption DEF IInv
<1>1. /\ worker[e] = "closing"
      /\ worker' = [worker EXCEPT ![e] = "none"]
      /\ UNCHANGED <<now, entries, call, ctxDone, epoch>>
    BY DEF Close
<1>2. /\ entry'[e] = Opened(e)
      /\ \A d \in Entries : d # e => entry'[d] = entry[d]
    BY DEF Close, TypeOK
<1>3. Live(e) /\ ~entry[e].ready /\ entry[e].outcome # "none"
    BY <1>1 DEF LifeOK
<1>4. RegisteredOK'
    BY <1>1, <1>2 DEF RegisteredOK, Opened, TypeOK
<1>5. LifeOK'
    BY <1>1, <1>2, <1>3 DEF LifeOK, Live, Opened, Lifetime, TypeOK
<1>6. SupersededOK'
    BY <1>1, <1>2, <1>3 DEF SupersededOK, Live, Opened
<1>7. DetachedOK'
    BY <1>2 DEF DetachedOK, Opened
<1>8. FetchesApart'
    BY <1>2, <1>3 DEF FetchesApart, SameReading, Before, Opened
<1>9. CallOK'
    BY <1>1, <1>2, <1>3 DEF CallOK, Opened, Lifetime, TypeOK, CallType
<1> QED
    BY <1>4, <1>5, <1>6, <1>7, <1>8, <1>9 DEF StoreOK

\* After an invalidation no entry of the named markets is of the current epoch.
LEMMA StepInvalidate ==
    ASSUME IInv, TypeOK', NEW named \in SUBSET Markets, Invalidate(named)
    PROVE  StoreOK' /\ CallOK'
<1> DEFINE dropped == IF named = {} THEN Markets ELSE named
<1> USE NullsAssumption DEF IInv
<1>1. /\ entries' = [m \in Markets |-> IF m \in dropped THEN NoEntry ELSE entries[m]]
      /\ epoch' = [m \in Markets |-> IF m \in dropped THEN epoch[m] + 1 ELSE epoch[m]]
      /\ UNCHANGED <<now, entry, worker, call, ctxDone>>
    BY DEF Invalidate
<1>2. \A m \in Markets : epoch[m] <= epoch'[m] /\ (m \in dropped => epoch[m] < epoch'[m])
    BY <1>1 DEF TypeOK
<1>3. \A e \in Entries : Live(e) => entry[e].market \in Markets
    BY DEF Live, TypeOK, EntryType
<1>4. RegisteredOK'
    BY <1>1 DEF RegisteredOK, TypeOK
<1>5. LifeOK'
    BY <1>1, <1>2, <1>3 DEF LifeOK, Live, Lifetime, TypeOK, EntryType
<1>6. SupersededOK'
    BY <1>1, <1>2, <1>3 DEF SupersededOK, LifeOK, Live, TypeOK, EntryType
<1>7. DetachedOK' /\ FetchesApart'
    BY <1>1 DEF DetachedOK, FetchesApart, SameReading, Before
<1>8. CallOK'
    BY <1>1, <1>2 DEF CallOK, Lifetime, TypeOK, CallType
<1> QED
    BY <1>4, <1>5, <1>6, <1>7, <1>8 DEF StoreOK

LEMMA InvNext == IInv /\ [Next]_vars => IInv'
<1> SUFFICES ASSUME IInv, [Next]_vars PROVE IInv'
    OBVIOUS
<1>1. TypeOK'
    BY TypeNext
<1>2. now \in Nat
    BY DEF IInv, TypeOK
<1> SUFFICES StoreOK' /\ CallOK'
    BY <1>1, StepLock DEF IInv, StoreOK
<1>3. CASE UNCHANGED vars
  <2>1. StoreOK'
      BY <1>1, <1>2, <1>3, StoreUnchanged DEF vars
  <2>2. CallOK'
      BY <1>3 DEF IInv, CallOK, vars, Lifetime
  <2> QED
      BY <2>1, <2>2
<1>4. ASSUME NEW c \in Callers, NEW m \in Markets, Call(c, m) PROVE StoreOK' /\ CallOK'
  <2>1. now' >= now /\ UNCHANGED <<entries, entry, worker, epoch>>
      BY <1>2, <1>4 DEF Call
  <2> QED
      BY <1>1, <1>4, <2>1, StoreUnchanged, StepCall
<1>5. ASSUME NEW c \in Callers, Hit(c) PROVE StoreOK' /\ CallOK'
    BY <1>1, <1>2, <1>5, StoreUnchanged, StepHit DEF Hit
<1>16. ASSUME NEW c \in Callers, SeeOpen(c) PROVE StoreOK' /\ CallOK'
    BY <1>1, <1>2, <1>16, StoreUnchanged, StepSeeOpen DEF SeeOpen
<1>6. ASSUME NEW c \in Callers, Follow(c) PROVE StoreOK' /\ CallOK'
    BY <1>1, <1>2, <1>6, StoreUnchanged, StepFollow DEF Follow
<1>7. ASSUME NEW c \in Callers, Lead(c) PROVE StoreOK' /\ CallOK'
    BY <1>1, <1>7, StepLead
<1>8. ASSUME NEW c \in Callers, Wake(c) PROVE StoreOK' /\ CallOK'
    BY <1>1, <1>2, <1>8, StoreUnchanged, StepWake DEF Wake
<1>9. ASSUME NEW c \in Callers, LeaderReturn(c) PROVE StoreOK' /\ CallOK'
    BY <1>1, <1>2, <1>9, StoreUnchanged, StepLeaderReturn DEF LeaderReturn
<1>10. ASSUME NEW c \in Callers, GiveUp(c) PROVE StoreOK' /\ CallOK'
    BY <1>1, <1>2, <1>10, StoreUnchanged, StepGiveUp DEF GiveUp
<1>11. ASSUME NEW c \in Callers, EndContext(c) PROVE StoreOK' /\ CallOK'
  <2>1. now' >= now /\ UNCHANGED <<entries, entry, worker, epoch>>
      BY <1>2, <1>11 DEF EndContext
  <2> QED
      BY <1>1, <1>11, <2>1, StoreUnchanged, StepEndContext
<1>12. ASSUME NEW e \in Entries, Publish(e) PROVE StoreOK' /\ CallOK'
    BY <1>1, <1>12, StepPublish
<1>13. ASSUME NEW e \in Entries, Close(e) PROVE StoreOK' /\ CallOK'
    BY <1>1, <1>13, StepClose
<1>14. ASSUME NEW named \in SUBSET Markets, Invalidate(named) PROVE StoreOK' /\ CallOK'
    BY <1>1, <1>14, StepInvalidate
<1>15. CASE Tick
    BY <1>1, <1>2, <1>15, StoreUnchanged, StepTick DEF Tick
<1> QED
    BY <1>3, <1>4, <1>5, <1>6, <1>7, <1>8, <1>9, <1>10, <1>11, <1>12,
       <1>13, <1>14, <1>15, <1>16 DEF Next, CallerStep, WorkerStep

LEMMA Invariance == Spec => []IInv
<1>1. Init => IInv
    BY InvInit
<1>2. IInv /\ [Next]_vars => IInv'
    BY InvNext
<1> QED
    BY <1>1, <1>2, PTL DEF Spec

----------------------------------------------------------------------------
(* What follows. *)

\* The types of the cache's variables: cache.go:15-30.
THEOREM TypeCorrect == Spec => []TypeOK
<1>1. IInv => TypeOK
    BY DEF IInv
<1> QED
    BY <1>1, Invariance, PTL

\* cache.go:9-14, however many callers miss at once: two fetches of a market
\* with no invalidation between them do not overlap.
THEOREM Collapsing == Spec => []FetchesApart
<1>1. IInv => FetchesApart
    BY DEF IInv
<1> QED
    BY <1>1, Invariance, PTL

\* cache.go:56-58 and :93-96: whatever path an answer takes, it was still good
\* when the call was made.
THEOREM NeverStale == Spec => []AnswerNotStale
<1>1. IInv => AnswerNotStale
    BY DEF IInv, CallOK, AnswerNotStale, Answered
<1> QED
    BY <1>1, Invariance, PTL

\* client.go:143-145: an answer is never older than an invalidation that came
\* before the call.
THEOREM Invalidation == Spec => []AnswerAfterInvalidation
<1>1. IInv => AnswerAfterInvalidation
    BY DEF IInv, CallOK, AnswerAfterInvalidation, Answered
<1> QED
    BY <1>1, Invariance, PTL

\* cache.go:74-77: a caller that walks away takes nobody with it.
THEOREM Detachment == Spec => []NoForeignCancellation
<1>1. IInv => NoForeignCancellation
    BY DEF IInv, CallOK, NoForeignCancellation
<1> QED
    BY <1>1, Invariance, PTL

\* cache.go:93-96: what is read outside the lock is published and final.
THEOREM Publication == Spec => []AnswerIsPublished
<1>1. IInv => AnswerIsPublished
    BY DEF IInv, CallOK, LifeOK, AnswerIsPublished, Answered, TypeOK, CallType
<1> QED
    BY <1>1, Invariance, PTL

\* cache.go:76-91, :61-67 and :93-98: the goroutine that fetches closes the
\* channel whatever became of its leader, its market or its fetch.
THEOREM NobodyForgotten == Spec => []NoWaitForgotten
<1>1. IInv => NoWaitForgotten
  <2> SUFFICES ASSUME IInv, NEW c \in Callers, call[c].pc \in {"following", "leading"}
               PROVE  Settled(call[c].on) \/ worker[call[c].on] # "none"
      BY DEF NoWaitForgotten
  <2>1. call[c].market \in Markets /\ call[c].on # NoEntry
        /\ entry[call[c].on].market = call[c].market
      BY DEF IInv, CallOK
  <2>2. call[c].on \in Entries
      BY <2>1 DEF IInv, TypeOK, CallType
  <2> QED
      BY <2>1, <2>2, NullsAssumption DEF IInv, LifeOK, Live, Settled
<1> QED
    BY <1>1, Invariance, PTL

----------------------------------------------------------------------------
(* The cache implements what CachedFetch promises.                           *)

LEMMA OneRequest ==
    ASSUME NEW c \in Callers, NEW r,
           RequestOf(c)' = r,
           \A d \in Callers : d # c => RequestOf(d)' = RequestOf(d)
    PROVE  AbstractRequest' = [AbstractRequest EXCEPT ![c] = r]
BY DEF AbstractRequest

LEMMA OneMemo ==
    ASSUME NEW m \in Markets, NEW r,
           MemoOf(m)' = r,
           \A n \in Markets : n # m => MemoOf(n)' = MemoOf(n)
    PROVE  AbstractMemo' = [AbstractMemo EXCEPT ![m] = r]
BY DEF AbstractMemo

\* A step that leaves the map, the entries and who is overtaken alone, or the
\* callers and the channel of whoever is between his two reads.
LEMMA SameMemo ==
    ASSUME UNCHANGED <<entries, entry>>, \A e : Replaced(e)' = Replaced(e)
    PROVE  UNCHANGED AbstractMemo
<1>1. \A m \in Markets : MemoOf(m)' = MemoOf(m)
    BY DEF MemoOf, Registered, Settled
<1> QED
    BY <1>1 DEF AbstractMemo

LEMMA SameRequests ==
    ASSUME UNCHANGED <<call, ctxDone>>,
           \A c \in Callers : Overtaken(c)' = Overtaken(c)
    PROVE  UNCHANGED AbstractRequest
<1>1. \A c \in Callers : RequestOf(c)' = RequestOf(c)
    BY DEF RequestOf
<1> QED
    BY <1>1 DEF AbstractRequest

LEMMA SameCalls ==
    ASSUME UNCHANGED <<call, entry>>
    PROVE  /\ \A c \in Callers : Overtaken(c)' = Overtaken(c)
           /\ \A e : Replaced(e)' = Replaced(e)
BY DEF Overtaken, Replaced, Settled

\* Nobody is between the two reads while the mutex is free.
LEMMA Unlocked ==
    ASSUME ~Locked
    PROVE  /\ \A c \in Callers : ~Overtaken(c)
           /\ \A e : ~Replaced(e)
BY DEF Locked, Overtaken, Replaced

LEMMA States ==
    /\ StateAt("idle") = "idle" /\ StateAt("lookup") = "asking"
    /\ StateAt("checked") = "asking"
    /\ StateAt("following") = "asking" /\ StateAt("leading") = "fetching"
    /\ StateAt("returned") = "told"
BY DEF StateAt

LEMMA Request ==
    ASSUME NEW c \in Callers, ~Overtaken(c)
    PROVE  RequestOf(c) = [state |-> StateAt(call[c].pc), market |-> call[c].market,
                           ended |-> ctxDone[c], told |-> call[c].result]
BY DEF RequestOf

\* What a step of one caller makes of its request, and of nobody else's.
LEMMA Moved ==
    ASSUME TypeOK, UNCHANGED ctxDone, NEW c \in Callers, NEW pc, NEW e, NEW result,
           Moves(c, pc, e, result), pc # "checked" \/ ~Settled(e)',
           UNCHANGED entry \/ \A d \in Callers : d # c => call[d].pc # "checked"
    PROVE  /\ RequestOf(c)' = [state |-> StateAt(pc), market |-> call[c].market,
                               ended |-> ctxDone[c], told |-> result]
           /\ \A d \in Callers : d # c => RequestOf(d)' = RequestOf(d)
           /\ ~Overtaken(c)'
           /\ \A d \in Callers : d # c => Overtaken(d)' = Overtaken(d) /\ call'[d] = call[d]
<1>1. call'[c] = [pc |-> pc, market |-> call[c].market, on |-> e, result |-> result,
                  since |-> call[c].since, asked |-> call[c].asked]
    BY DEF Moves, TypeOK
<1>2. \A d \in Callers : d # c => call'[d] = call[d]
    BY DEF Moves, TypeOK
<1>3. ~Overtaken(c)'
    BY <1>1 DEF Overtaken, Settled
<1>4. \A d \in Callers : d # c => Overtaken(d)' = Overtaken(d)
    BY <1>2 DEF Overtaken, Settled
<1>5. RequestOf(c)' = [state |-> StateAt(pc), market |-> call[c].market,
                      ended |-> ctxDone[c], told |-> result]
    BY <1>1, <1>3 DEF RequestOf
<1>6. \A d \in Callers : d # c => RequestOf(d)' = RequestOf(d)
    BY <1>2, <1>4 DEF RequestOf
<1> QED
    BY <1>2, <1>3, <1>4, <1>5, <1>6

\* A caller that is overtaken neither before nor after its step leaves every
\* reading as it was.
LEMMA SameReplaced ==
    ASSUME NEW c \in Callers, ~Overtaken(c), ~Overtaken(c)',
           \A d \in Callers : d # c => Overtaken(d)' = Overtaken(d) /\ call'[d] = call[d]
    PROVE  \A e : Replaced(e)' = Replaced(e)
BY DEF Replaced

LEMMA PromiseInit == Init => Promise!Init
<1> SUFFICES ASSUME Init PROVE Promise!Init
    OBVIOUS
<1>1. AbstractMemo = [m \in Markets |-> Promise!Cold]
    BY DEF Init, AbstractMemo, MemoOf, Registered, Promise!Cold
<1>2. AbstractRequest = [c \in Callers |-> Promise!Unasked]
  <2>1. \A c \in Callers : RequestOf(c) = Promise!Unasked
      BY States DEF Init, RequestOf, Overtaken, Idle, Promise!Unasked
  <2> QED
      BY <2>1 DEF AbstractRequest
<1> QED
    BY <1>1, <1>2 DEF Init, Promise!Init

LEMMA CallAsks ==
    ASSUME IInv, NEW c \in Callers, NEW m \in Markets, Call(c, m)
    PROVE  Promise!Ask(c, m)
<1>1. /\ call'[c] = [pc |-> "lookup", market |-> m, on |-> NoEntry, result |-> "none",
                     since |-> now, asked |-> epoch[m]]
      /\ \A d \in Callers : d # c => call'[d] = call[d]
      /\ ctxDone'[c] = FALSE
      /\ \A d \in Callers : d # c => ctxDone'[d] = ctxDone[d]
    BY DEF Call, IInv, TypeOK
<1>7. ~Overtaken(c) /\ ~Overtaken(c)'
    BY <1>1 DEF Call, Overtaken
<1>8. \A d \in Callers : d # c => Overtaken(d)' = Overtaken(d)
    BY <1>1 DEF Call, Overtaken, Settled
<1>2. RequestOf(c)' = [state |-> "asking", market |-> m, ended |-> FALSE, told |-> "none"]
  <2>1. /\ StateAt(call'[c].pc) = "asking"
        /\ call'[c].market = m /\ call'[c].result = "none"
      BY <1>1, States
  <2> QED
      BY <1>1, <1>7, <2>1, Zenon DEF RequestOf
<1>3. \A d \in Callers : d # c => RequestOf(d)' = RequestOf(d)
    BY <1>1, <1>8 DEF RequestOf
<1>4. Promise!Becomes(c, "asking", m, FALSE, "none")
    BY <1>2, <1>3, OneRequest DEF Promise!Becomes
<1>5. AbstractRequest[c].state \notin {"asking", "fetching"}
    BY <1>7, States DEF Call, AbstractRequest, RequestOf
<1>6. UNCHANGED <<now, AbstractMemo>>
  <2>1. \A e : Replaced(e)' = Replaced(e)
      BY <1>1, <1>7, <1>8, SameReplaced
  <2> QED
      BY <2>1, SameMemo DEF Call
<1> QED
    BY <1>4, <1>5, <1>6 DEF Promise!Ask, Promise!Open

LEMMA HitTells ==
    ASSUME IInv, NEW c \in Callers, Hit(c)
    PROVE  Promise!TellHeld(c)
<1>1. PICK m : m = call[c].market
    OBVIOUS
<1>2. PICK e : e = entries[m]
    OBVIOUS
<1>3. /\ call[c].pc = "lookup"
      /\ Valid(m)
      /\ ~Locked
      /\ Moves(c, "returned", e, entry[e].outcome)
      /\ UNCHANGED <<now, entries, entry, ctxDone>>
    BY <1>1, <1>2 DEF Hit
<1>4. m \in Markets
    BY <1>1, <1>3 DEF IInv, CallOK
<1>5. e \in Entries /\ e # NoEntry /\ entry[e].ready /\ now < entry[e].expires
    BY <1>2, <1>3, <1>4 DEF Valid, Settled, Registered, IInv, TypeOK
<1>6. entry[e].outcome # "none"
    BY <1>5 DEF IInv, LifeOK
<1>7. AbstractMemo[m] = [state |-> "held", outcome |-> entry[e].outcome,
                         until |-> entry[e].expires]
    BY <1>2, <1>3, <1>4, <1>5, <1>6, Unlocked DEF AbstractMemo, MemoOf, Registered, Settled
<1>8. AbstractRequest[c] = [state |-> "asking", market |-> m, ended |-> ctxDone[c],
                            told |-> call[c].result]
    BY <1>1, <1>3, States, Unlocked DEF AbstractRequest, RequestOf
<1>9. /\ RequestOf(c)' = [state |-> "told", market |-> m, ended |-> ctxDone[c],
                          told |-> entry[e].outcome]
      /\ \A d \in Callers : d # c => RequestOf(d)' = RequestOf(d)
      /\ ~Overtaken(c)'
      /\ \A d \in Callers : d # c => Overtaken(d)' = Overtaken(d) /\ call'[d] = call[d]
    BY <1>1, <1>3, Moved, States DEF IInv
<1>10. Promise!Told(c, entry[e].outcome)
    BY <1>8, <1>9, OneRequest DEF Promise!Told, Promise!Becomes
<1>11. UNCHANGED <<now, AbstractMemo>>
    BY <1>3, <1>9, SameMemo, SameReplaced, Unlocked
<1> QED
    BY <1>5, <1>7, <1>8, <1>10, <1>11 DEF Promise!TellHeld

\* Reading an open channel, waiting for it, and going back to read the map again
\* are nothing to the one who asked.
LEMMA WaitingStutters ==
    ASSUME IInv, NEW c \in Callers, SeeOpen(c) \/ Follow(c) \/ Wake(c)
    PROVE  UNCHANGED <<now, AbstractMemo, AbstractRequest>>
<1>1. PICK pc, e :
        /\ pc \in {"lookup", "checked", "following"}
        /\ Moves(c, pc, e, "none")
        /\ pc # "checked" \/ ~Settled(e)
        /\ call[c].pc \in {"lookup", "checked", "following"}
        /\ ~Overtaken(c)
        /\ UNCHANGED <<now, entries, entry, ctxDone>>
    BY DEF SeeOpen, Follow, Wake, InFlight, Overtaken
<1>2. call[c].result = "none"
    BY <1>1 DEF IInv, CallOK
<1>3. RequestOf(c) = [state |-> "asking", market |-> call[c].market, ended |-> ctxDone[c],
                      told |-> "none"]
    BY <1>1, <1>2, States, Request
<1>4. /\ RequestOf(c)' = [state |-> "asking", market |-> call[c].market,
                          ended |-> ctxDone[c], told |-> "none"]
      /\ \A d \in Callers : d # c => RequestOf(d)' = RequestOf(d)
      /\ ~Overtaken(c)'
      /\ \A d \in Callers : d # c => Overtaken(d)' = Overtaken(d) /\ call'[d] = call[d]
  <2>1. pc # "checked" \/ ~Settled(e)'
      BY <1>1 DEF Settled
  <2> QED
      BY <1>1, <2>1, Moved, States DEF IInv
<1>5. \A d \in Callers : RequestOf(d)' = RequestOf(d)
    BY <1>3, <1>4
<1>6. UNCHANGED AbstractRequest
    BY <1>5 DEF AbstractRequest
<1> QED
    BY <1>1, <1>4, <1>6, SameMemo, SameReplaced

\* What Lead does to the market of the caller: a new entry, being fetched for.
LEMMA LeadLoads ==
    ASSUME IInv, NEW c \in Callers, Lead(c), NEW m, m = call[c].market
    PROVE  /\ m \in Markets
           /\ UNCHANGED <<now, ctxDone>>
           /\ RequestOf(c)' = [state |-> "fetching", market |-> m, ended |-> ctxDone[c],
                               told |-> "none"]
           /\ \A d \in Callers : d # c => RequestOf(d)' = RequestOf(d)
           /\ MemoOf(m)' = Promise!Loading
           /\ \A n \in Markets : n # m => MemoOf(n)' = MemoOf(n)
<1>1. m = call[c].market
    OBVIOUS
<1>2. PICK e \in Entries :
        /\ Free(e)
        /\ entry' = [entry EXCEPT ![e] = NewEntry(c)]
        /\ entries' = [entries EXCEPT ![m] = e]
        /\ Moves(c, "leading", e, "none")
    BY <1>1 DEF Lead, NextFree
<1>3. MustLead(c) /\ UNCHANGED <<now, ctxDone>>
    BY DEF Lead
<1>4. m \in Markets
    BY <1>1, <1>3 DEF IInv, CallOK, MustLead
<1>5. \A d \in Callers : d # c => call[d].pc # "checked"
    BY <1>3, NobodyHolds DEF MustLead, IInv, LockOK
<1>6. /\ RequestOf(c)' = [state |-> "fetching", market |-> m, ended |-> ctxDone[c],
                          told |-> "none"]
      /\ \A d \in Callers : d # c => RequestOf(d)' = RequestOf(d)
      /\ ~Overtaken(c)'
      /\ \A d \in Callers : d # c => Overtaken(d)' = Overtaken(d) /\ call'[d] = call[d]
    BY <1>1, <1>2, <1>3, <1>5, Moved, States DEF IInv
<1>7. MemoOf(m)' = Promise!Loading
  <2>1. entries'[m] = e /\ entry'[e].outcome = "none"
      BY <1>2, <1>4 DEF IInv, TypeOK, NewEntry
  <2> QED
      BY <1>2, <2>1, NullsAssumption DEF MemoOf, Registered, Promise!Loading
<1>8. \A n \in Markets : n # m /\ entries[n] # NoEntry =>
        ~Replaced(entries[n]) /\ ~Replaced(entries[n])'
  <2> SUFFICES ASSUME NEW n \in Markets, n # m, entries[n] # NoEntry
               PROVE  ~Replaced(entries[n]) /\ ~Replaced(entries[n])'
      OBVIOUS
  <2>1. \A d \in Callers : ~Overtaken(d)'
      BY <1>5, <1>6 DEF Overtaken
  <2>2. \A d \in Callers : Overtaken(d) => call[d].on # entries[n]
    <3> SUFFICES ASSUME NEW d \in Callers, call[d].pc = "checked"
                 PROVE  call[d].on # entries[n]
        BY DEF Overtaken
    <3>1. d = c
        BY <1>5
    <3>2. entries[m] = call[d].on /\ call[d].on # NoEntry
        BY <1>1, <3>1 DEF IInv, LockOK, CallOK
    <3> QED
        BY <1>4, <3>2 DEF IInv, RegisteredOK
  <2> QED
      BY <2>1, <2>2 DEF Replaced
<1>9. \A n \in Markets : n # m => MemoOf(n)' = MemoOf(n)
  <2>1. \A n \in Markets : n # m => entries'[n] = entries[n] /\ entries[n] # e
      BY <1>2, <1>4 DEF IInv, TypeOK, Free
  <2>2. \A d \in Entries : d # e => entry'[d] = entry[d]
      BY <1>2 DEF IInv, TypeOK
  <2>3. \A n \in Markets : entries[n] # NoEntry => entries[n] \in Entries
      BY DEF IInv, TypeOK
  <2> SUFFICES ASSUME NEW n \in Markets, n # m PROVE MemoOf(n)' = MemoOf(n)
      OBVIOUS
  <2>4. CASE entries[n] = NoEntry
      BY <2>1, <2>4 DEF MemoOf, Registered
  <2>5. CASE entries[n] # NoEntry
    <3>1. PICK d : d = entries[n]
        OBVIOUS
    <3>2. /\ entries'[n] = d /\ d # NoEntry /\ entry'[d] = entry[d]
          /\ ~Replaced(d) /\ ~Replaced(d)'
        BY <1>8, <2>1, <2>2, <2>3, <2>5, <3>1
    <3> QED
        BY <3>1, <3>2 DEF MemoOf, Registered, Settled
  <2> QED
      BY <2>4, <2>5
<1> QED
    BY <1>1, <1>3, <1>4, <1>6, <1>7, <1>9

\* A caller that was overtaken had begun already; any other leader begins.
LEMMA LeadBegins ==
    ASSUME IInv, NEW c \in Callers, Lead(c)
    PROVE  Promise!Begin(c) \/ UNCHANGED <<now, AbstractMemo, AbstractRequest>>
<1>1. PICK m : m = call[c].market
    OBVIOUS
<1>2. /\ m \in Markets
      /\ UNCHANGED <<now, ctxDone>>
      /\ RequestOf(c)' = [state |-> "fetching", market |-> m, ended |-> ctxDone[c],
                          told |-> "none"]
      /\ \A d \in Callers : d # c => RequestOf(d)' = RequestOf(d)
      /\ MemoOf(m)' = Promise!Loading
      /\ \A n \in Markets : n # m => MemoOf(n)' = MemoOf(n)
    BY <1>1, LeadLoads
<1>3. MustLead(c) /\ call[c].result = "none"
    BY DEF Lead, MustLead, IInv, CallOK
<1>4. AbstractMemo' = [AbstractMemo EXCEPT ![m] = Promise!Loading]
    BY <1>2, OneMemo
<1>5. Promise!Becomes(c, "fetching", m, ctxDone[c], "none")
    BY <1>2, OneRequest DEF Promise!Becomes
<1>6. CASE call[c].pc = "lookup"
  <2>1. ~Locked /\ ~Valid(m) /\ ~InFlight(m)
      BY <1>1, <1>3, <1>6 DEF MustLead
  <2>2. AbstractRequest[c] = [state |-> "asking", market |-> m, ended |-> ctxDone[c],
                              told |-> "none"]
      BY <1>1, <1>3, <1>6, <2>1, States, Unlocked, Request DEF AbstractRequest
  <2>3. /\ AbstractMemo[m].state # "loading"
        /\ AbstractMemo[m].state = "held" => AbstractMemo[m].until <= now
    <3>1. CASE entries[m] = NoEntry
        BY <1>2, <3>1 DEF AbstractMemo, MemoOf, Registered
    <3>2. CASE entries[m] # NoEntry
      <4>1. entries[m] \in Entries
          BY <1>2, <3>2 DEF IInv, TypeOK
      <4>2. entry[entries[m]].ready /\ ~(now < entry[entries[m]].expires)
          BY <2>1, <3>2 DEF Valid, InFlight, Settled, Registered
      <4>3. entry[entries[m]].outcome # "none" /\ ~Replaced(entries[m])
          BY <2>1, <4>1, <4>2, Unlocked DEF IInv, LifeOK
      <4>4. now \in Nat /\ entry[entries[m]].expires \in Nat
          BY <4>1 DEF IInv, TypeOK, EntryType
      <4> QED
          BY <1>2, <3>2, <4>2, <4>3, <4>4 DEF AbstractMemo, MemoOf, Registered, Settled
    <3> QED
        BY <3>1, <3>2
  <2> QED
      BY <1>2, <1>4, <1>5, <2>2, <2>3 DEF Promise!Begin
<1>7. CASE call[c].pc = "checked"
  <2>1. Overtaken(c)
      BY <1>3, <1>7 DEF MustLead, Overtaken
  <2>2. RequestOf(c)' = RequestOf(c)
      BY <1>1, <1>2, <1>3, <2>1 DEF RequestOf
  <2>3. UNCHANGED AbstractRequest
      BY <1>2, <2>2 DEF AbstractRequest
  <2>4. entries[m] = call[c].on /\ call[c].on # NoEntry
      BY <1>1, <1>7 DEF IInv, LockOK, CallOK
  <2>5. Replaced(entries[m])
      BY <2>1, <2>4 DEF Replaced
  <2>6. MemoOf(m) = Promise!Loading
      BY <2>4, <2>5 DEF MemoOf, Registered, Promise!Loading
  <2>7. UNCHANGED AbstractMemo
      BY <1>2, <2>6 DEF AbstractMemo
  <2> QED
      BY <1>2, <2>3, <2>7
<1> QED
    BY <1>3, <1>6, <1>7 DEF MustLead

LEMMA LeaderReturnTells ==
    ASSUME IInv, NEW c \in Callers, LeaderReturn(c)
    PROVE  Promise!TellOwn(c)
<1>1. PICK e : e = call[c].on
    OBVIOUS
<1>2. /\ call[c].pc = "leading" /\ entry[e].ready
      /\ Moves(c, "returned", e, entry[e].outcome)
      /\ UNCHANGED <<now, entries, entry, ctxDone>>
    BY <1>1 DEF LeaderReturn, Settled
<1>3. e \in Entries
    BY <1>1, <1>2 DEF IInv, CallOK, TypeOK, CallType
<1>4. entry[e].outcome \in {"snapshot", "failure"}
    BY <1>2, <1>3 DEF IInv, LifeOK, DetachedOK, TypeOK, EntryType, Outcomes
<1>9. ~Overtaken(c)
    BY <1>2 DEF Overtaken
<1>5. AbstractRequest[c] = [state |-> "fetching", market |-> call[c].market,
                            ended |-> ctxDone[c], told |-> call[c].result]
    BY <1>2, <1>9, States, Request DEF AbstractRequest
<1>6. /\ RequestOf(c)' = [state |-> "told", market |-> call[c].market,
                          ended |-> ctxDone[c], told |-> entry[e].outcome]
      /\ \A d \in Callers : d # c => RequestOf(d)' = RequestOf(d)
      /\ ~Overtaken(c)'
      /\ \A d \in Callers : d # c => Overtaken(d)' = Overtaken(d) /\ call'[d] = call[d]
    BY <1>2, Moved, States DEF IInv
<1>7. Promise!Told(c, entry[e].outcome)
    BY <1>5, <1>6, OneRequest DEF Promise!Told, Promise!Becomes
<1>8. UNCHANGED <<now, AbstractMemo>>
    BY <1>2, <1>6, <1>9, SameMemo, SameReplaced
<1> QED
    BY <1>4, <1>5, <1>7, <1>8 DEF Promise!TellOwn

LEMMA GiveUpTells ==
    ASSUME IInv, NEW c \in Callers, GiveUp(c)
    PROVE  Promise!TellEnded(c)
<1>1. /\ call[c].pc \in {"following", "leading"} /\ ctxDone[c]
      /\ Moves(c, "returned", NoEntry, "cancelled")
      /\ UNCHANGED <<now, entries, entry, ctxDone>>
    BY DEF GiveUp, MayGiveUp
<1>9. ~Overtaken(c)
    BY <1>1 DEF Overtaken
<1>2. PICK was \in {"asking", "fetching"} :
        AbstractRequest[c] = [state |-> was, market |-> call[c].market,
                              ended |-> ctxDone[c], told |-> call[c].result]
    BY <1>1, <1>9, States, Request DEF AbstractRequest
<1>3. /\ RequestOf(c)' = [state |-> "told", market |-> call[c].market,
                          ended |-> ctxDone[c], told |-> "cancelled"]
      /\ \A d \in Callers : d # c => RequestOf(d)' = RequestOf(d)
      /\ ~Overtaken(c)'
      /\ \A d \in Callers : d # c => Overtaken(d)' = Overtaken(d) /\ call'[d] = call[d]
    BY <1>1, Moved, States DEF IInv
<1>4. Promise!Told(c, "cancelled")
    BY <1>2, <1>3, OneRequest DEF Promise!Told, Promise!Becomes
<1>5. UNCHANGED <<now, AbstractMemo>>
    BY <1>1, <1>3, <1>9, SameMemo, SameReplaced
<1> QED
    BY <1>1, <1>2, <1>4, <1>5 DEF Promise!TellEnded, Promise!Open

LEMMA EndContextEnds ==
    ASSUME IInv, NEW c \in Callers, EndContext(c)
    PROVE  Promise!End(c)
<1>1. /\ call[c].pc \in {"lookup", "checked", "following", "leading"}
      /\ UNCHANGED <<now, entries, entry, call>>
      /\ ctxDone'[c] = TRUE
      /\ \A d \in Callers : d # c => ctxDone'[d] = ctxDone[d]
    BY DEF EndContext, IInv, TypeOK, CallType, Pcs
<1>2. PICK was \in {"asking", "fetching"} :
        was = IF Overtaken(c) THEN "fetching" ELSE StateAt(call[c].pc)
    BY <1>1, States
<1>3. AbstractRequest[c] = [state |-> was, market |-> call[c].market,
                            ended |-> ctxDone[c], told |-> call[c].result]
    BY <1>2 DEF AbstractRequest, RequestOf
<1>10. \A d \in Callers : Overtaken(d)' = Overtaken(d)
    BY <1>1, SameCalls
<1>4. RequestOf(c)' = [state |-> was, market |-> call[c].market, ended |-> TRUE,
                       told |-> call[c].result]
    BY <1>1, <1>2, <1>10, Zenon DEF RequestOf
<1>5. \A d \in Callers : d # c => RequestOf(d)' = RequestOf(d)
    BY <1>1, <1>10 DEF RequestOf
<1>6. Promise!Becomes(c, was, call[c].market, TRUE, call[c].result)
    BY <1>4, <1>5, OneRequest DEF Promise!Becomes
<1>7. UNCHANGED <<now, AbstractMemo>>
    BY <1>1, SameMemo, SameCalls
<1>8. /\ AbstractRequest[c].state = was /\ AbstractRequest[c].market = call[c].market
      /\ AbstractRequest[c].told = call[c].result
    BY <1>3
<1>9. Promise!Open(c)
    BY <1>8 DEF Promise!Open
<1> QED
    BY <1>6, <1>7, <1>8, <1>9, Zenon DEF Promise!End

\* Publishing is the end of the market's fetch only while the entry is still
\* registered; after an invalidation nobody but its leader learns of it.
LEMMA PublishFinishes ==
    ASSUME IInv, NEW e \in Entries, Publish(e)
    PROVE  \/ \E m \in Markets : Promise!Finish(m)
           \/ UNCHANGED <<now, AbstractMemo, AbstractRequest>>
<1>1. PICK outcome \in {"snapshot", "failure"} :
        entry' = [entry EXCEPT ![e] = Filled(e, outcome)]
    BY NullsAssumption DEF Publish, FetchOutcomes, IInv, DetachedOK
<1>2. worker[e] = "fetching" /\ ~Locked /\ UNCHANGED <<now, entries, call, ctxDone>>
    BY DEF Publish
<1>11. /\ \A c \in Callers : ~Overtaken(c) /\ ~Overtaken(c)'
       /\ \A d : ~Replaced(d) /\ ~Replaced(d)'
    BY <1>2 DEF Locked, Overtaken, Replaced
<1>3. PICK m : m = entry[e].market
    OBVIOUS
<1>4. m \in Markets /\ entry[e].outcome = "none" /\ ~entry[e].ready
    BY <1>2, <1>3 DEF IInv, LifeOK, Live, TypeOK, EntryType
<1>5. /\ entry'[e].outcome = outcome /\ entry'[e].expires = now + Lifetime(outcome)
      /\ entry'[e].ready = entry[e].ready
      /\ \A d \in Entries : d # e => entry'[d] = entry[d]
    BY <1>1 DEF IInv, TypeOK, Filled
<1>6. \A n \in Markets : n # m /\ entries[n] # NoEntry => entries[n] \in Entries \ {e}
    BY <1>3 DEF IInv, RegisteredOK, TypeOK
<1>7. \A n \in Markets : n # m => MemoOf(n)' = MemoOf(n)
    BY <1>2, <1>5, <1>6, <1>11 DEF MemoOf, Registered, Settled
<1>8. UNCHANGED AbstractRequest
  <2>1. \A c \in Callers : Overtaken(c)' = Overtaken(c)
      BY <1>2, <1>11 DEF Overtaken
  <2> QED
      BY <1>2, <2>1, SameRequests
<1>9. CASE entries[m] = e
  <2>1. AbstractMemo[m].state = "loading"
      BY <1>4, <1>9, NullsAssumption DEF AbstractMemo, MemoOf, Registered
  <2>2. Lifetime(outcome) = Promise!Lifetime(outcome)
      BY DEF Lifetime, Promise!Lifetime
  <2>3. MemoOf(m)' = Promise!Written(outcome)
      BY <1>2, <1>4, <1>5, <1>9, <1>11, <2>2, NullsAssumption
      DEF MemoOf, Registered, Settled, Promise!Written
  <2>4. AbstractMemo' = [AbstractMemo EXCEPT ![m] = Promise!Written(outcome)]
      BY <1>4, <1>7, <2>3, OneMemo
  <2>5. Promise!Finish(m)
      BY <1>2, <1>8, <2>1, <2>4 DEF Promise!Finish
  <2> QED
      BY <1>4, <2>5
<1>10. CASE entries[m] # e
  <2>1. entries[m] # NoEntry => entries[m] \in Entries \ {e}
      BY <1>4, <1>10 DEF IInv, TypeOK
  <2>2. MemoOf(m)' = MemoOf(m)
      BY <1>2, <1>5, <1>11, <2>1 DEF MemoOf, Registered, Settled
  <2>3. UNCHANGED AbstractMemo
      BY <1>7, <2>2 DEF AbstractMemo
  <2> QED
      BY <1>2, <1>8, <2>3
<1> QED
    BY <1>9, <1>10

\* Closing the channel announces the reading, unless it has been dropped, or
\* unless it overtakes a caller, which thereby begins a fetch of its own.
LEMMA CloseAnnounces ==
    ASSUME IInv, NEW e \in Entries, Close(e)
    PROVE  \/ \E m \in Markets : Promise!Announce(m)
           \/ \E c \in Callers : Promise!Begin(c)
           \/ UNCHANGED <<now, AbstractMemo, AbstractRequest>>
<1>1. /\ worker[e] = "closing"
      /\ entry'[e] = Opened(e)
      /\ \A d \in Entries : d # e => entry'[d] = entry[d]
      /\ UNCHANGED <<now, entries, call, ctxDone>>
    BY DEF Close, IInv, TypeOK
<1>2. PICK m : m = entry[e].market
    OBVIOUS
<1>3. m \in Markets /\ ~entry[e].ready /\ entry[e].outcome # "none"
    BY <1>1, <1>2 DEF IInv, LifeOK, Live, TypeOK, EntryType
<1>4. /\ entry'[e].ready
      /\ entry'[e].outcome = entry[e].outcome /\ entry'[e].expires = entry[e].expires
    BY <1>1 DEF Opened
<1>5. \A c \in Callers : call[c].pc = "checked" => call[c].on \in Entries
    BY DEF IInv, CallOK, TypeOK, CallType
<1>6. \A c \in Callers : ~(call[c].pc = "checked" /\ call[c].on = e) =>
        Overtaken(c)' = Overtaken(c)
    BY <1>1, <1>5 DEF Overtaken, Settled
<1>7. \A d \in Entries : d # e => Replaced(d)' = Replaced(d)
    BY <1>1, <1>6 DEF Replaced
<1>8. \A n \in Markets : n # m /\ entries[n] # NoEntry => entries[n] \in Entries \ {e}
    BY <1>2 DEF IInv, RegisteredOK, TypeOK
<1>9. \A n \in Markets : n # m => MemoOf(n)' = MemoOf(n)
  <2> SUFFICES ASSUME NEW n \in Markets, n # m PROVE MemoOf(n)' = MemoOf(n)
      OBVIOUS
  <2>1. CASE entries[n] = NoEntry
      BY <1>1, <2>1 DEF MemoOf, Registered
  <2>2. CASE entries[n] # NoEntry
    <3>1. PICK d \in Entries : d = entries[n] /\ d # e
        BY <1>8, <2>2
    <3>2. entries'[n] = d /\ entry'[d] = entry[d] /\ Replaced(d)' = Replaced(d)
        BY <1>1, <1>7, <3>1
    <3> QED
        BY <3>1, <3>2 DEF MemoOf, Registered, Settled
  <2> QED
      BY <2>1, <2>2
<1>10. CASE entries[m] # e
  <2>1. \A c \in Callers : ~(call[c].pc = "checked" /\ call[c].on = e)
    <3> SUFFICES ASSUME NEW c \in Callers, call[c].pc = "checked", call[c].on = e
                 PROVE  FALSE
        OBVIOUS
    <3>1. entries[call[c].market] = e /\ call[c].market = m
        BY <1>2, NullsAssumption DEF IInv, LockOK, CallOK
    <3> QED
        BY <1>10, <3>1
  <2>2. UNCHANGED AbstractRequest
      BY <1>1, <1>6, <2>1, SameRequests
  <2>3. MemoOf(m)' = MemoOf(m)
    <3>1. CASE entries[m] = NoEntry
        BY <1>1, <3>1 DEF MemoOf, Registered
    <3>2. CASE entries[m] # NoEntry
      <4>1. PICK d \in Entries : d = entries[m] /\ d # e
          BY <1>3, <1>10, <3>2 DEF IInv, TypeOK
      <4>2. entries'[m] = d /\ entry'[d] = entry[d] /\ Replaced(d)' = Replaced(d)
          BY <1>1, <1>7, <4>1
      <4> QED
          BY <4>1, <4>2 DEF MemoOf, Registered, Settled
    <3> QED
        BY <3>1, <3>2
  <2>4. UNCHANGED AbstractMemo
      BY <1>9, <2>3 DEF AbstractMemo
  <2> QED
      BY <1>1, <2>2, <2>4
<1>11. CASE entries[m] = e
  <2>1. ~Replaced(e)
      BY <1>3 DEF Replaced, Overtaken, Settled
  <2>2. MemoOf(m) = [state |-> "written", outcome |-> entry[e].outcome,
                     until |-> entry[e].expires]
      BY <1>3, <1>11, <2>1, NullsAssumption DEF MemoOf, Registered, Settled
  <2>3. CASE \E c \in Callers : call[c].pc = "checked" /\ call[c].on = e
    <3>1. PICK c \in Callers : call[c].pc = "checked" /\ call[c].on = e
        BY <2>3
    <3>2. call[c].market = m /\ call[c].result = "none"
        BY <1>2, <3>1, NullsAssumption DEF IInv, CallOK
    <3>3. ~Overtaken(c) /\ Overtaken(c)'
        BY <1>1, <1>3, <1>4, <3>1 DEF Overtaken, Settled
    <3>4. \A d \in Callers : d # c => Overtaken(d)' = Overtaken(d)
        BY <1>6, <3>1 DEF IInv, LockOK
    <3>5. AbstractRequest[c] = [state |-> "asking", market |-> m, ended |-> ctxDone[c],
                                told |-> "none"]
        BY <3>1, <3>2, <3>3, States, Request DEF AbstractRequest
    <3>6. RequestOf(c)' = [state |-> "fetching", market |-> m, ended |-> ctxDone[c],
                           told |-> "none"]
        BY <1>1, <3>2, <3>3, Zenon DEF RequestOf
    <3>7. \A d \in Callers : d # c => RequestOf(d)' = RequestOf(d)
        BY <1>1, <3>4 DEF RequestOf
    <3>8. Promise!Becomes(c, "fetching", m, ctxDone[c], "none")
        BY <3>6, <3>7, OneRequest DEF Promise!Becomes
    <3>9. Replaced(e)'
        BY <1>1, <3>1, <3>3 DEF Replaced
    <3>10. MemoOf(m)' = Promise!Loading
        BY <1>1, <1>11, <3>9, NullsAssumption DEF MemoOf, Registered, Promise!Loading
    <3>11. AbstractMemo' = [AbstractMemo EXCEPT ![m] = Promise!Loading]
        BY <1>3, <1>9, <3>10, OneMemo
    <3>12. AbstractMemo[m].state = "written"
        BY <1>3, <2>2 DEF AbstractMemo
    <3>13. /\ AbstractRequest[c].state = "asking" /\ AbstractRequest[c].market = m
           /\ AbstractRequest[c].ended = ctxDone[c] /\ AbstractRequest[c].told = "none"
        BY <3>5
    <3>14. Promise!Begin(c)
        BY <1>1, <3>8, <3>11, <3>12, <3>13 DEF Promise!Begin
    <3> QED
        BY <3>14
  <2>4. CASE ~\E c \in Callers : call[c].pc = "checked" /\ call[c].on = e
    <3>1. UNCHANGED AbstractRequest
        BY <1>1, <1>6, <2>4, SameRequests
    <3>2. ~Replaced(e)'
        BY <1>1, <2>4 DEF Replaced, Overtaken
    <3>3. MemoOf(m)' = [state |-> "held", outcome |-> entry[e].outcome,
                        until |-> entry[e].expires]
        BY <1>1, <1>3, <1>4, <1>11, <3>2, NullsAssumption DEF MemoOf, Registered, Settled
    <3>4. AbstractMemo' = [AbstractMemo EXCEPT ![m] =
              [state |-> "held", outcome |-> entry[e].outcome, until |-> entry[e].expires]]
        BY <1>3, <1>9, <3>3, OneMemo
    <3>5. /\ AbstractMemo[m].state = "written" /\ AbstractMemo[m].outcome = entry[e].outcome
          /\ AbstractMemo[m].until = entry[e].expires
        BY <1>3, <2>2 DEF AbstractMemo
    <3> QED
        BY <1>1, <1>3, <3>1, <3>4, <3>5 DEF Promise!Announce
  <2> QED
      BY <2>3, <2>4
<1> QED
    BY <1>10, <1>11

LEMMA InvalidateDrops ==
    ASSUME IInv, NEW named \in SUBSET Markets, Invalidate(named)
    PROVE  \E dropped \in SUBSET Markets : Promise!Drop(dropped)
<1>1. PICK dropped \in SUBSET Markets :
        /\ entries' = [m \in Markets |-> IF m \in dropped THEN NoEntry ELSE entries[m]]
        /\ ~Locked
        /\ UNCHANGED <<now, entry, call, ctxDone>>
    BY DEF Invalidate
<1>2. \A m \in Markets : MemoOf(m)' = IF m \in dropped THEN Promise!Cold ELSE MemoOf(m)
    BY <1>1, SameCalls DEF MemoOf, Registered, Settled, Promise!Cold
<1>3. AbstractMemo' =
        [m \in Markets |-> IF m \in dropped THEN Promise!Cold ELSE AbstractMemo[m]]
    BY <1>2 DEF AbstractMemo
<1>4. UNCHANGED AbstractRequest
    BY <1>1, SameRequests, SameCalls
<1> QED
    BY <1>1, <1>3, <1>4 DEF Promise!Drop

LEMMA PromiseNext == IInv /\ [Next]_vars => [Promise!Next]_Promise!vars
<1> SUFFICES ASSUME IInv, [Next]_vars
             PROVE  Promise!Next \/ UNCHANGED <<now, AbstractMemo, AbstractRequest>>
    BY DEF Promise!vars
<1>1. CASE UNCHANGED vars
    BY <1>1, SameMemo, SameRequests, SameCalls DEF vars
<1>2. ASSUME NEW c \in Callers, NEW m \in Markets, Call(c, m) PROVE Promise!Next
    BY <1>2, CallAsks DEF Promise!Next
<1>3. ASSUME NEW c \in Callers, Hit(c) PROVE Promise!Next
    BY <1>3, HitTells DEF Promise!Next
<1>4. ASSUME NEW c \in Callers, Lead(c)
      PROVE  Promise!Next \/ UNCHANGED <<now, AbstractMemo, AbstractRequest>>
    BY <1>4, LeadBegins DEF Promise!Next
<1>5. ASSUME NEW c \in Callers, LeaderReturn(c) PROVE Promise!Next
    BY <1>5, LeaderReturnTells DEF Promise!Next
<1>6. ASSUME NEW c \in Callers, GiveUp(c) PROVE Promise!Next
    BY <1>6, GiveUpTells DEF Promise!Next
<1>7. ASSUME NEW c \in Callers, EndContext(c) PROVE Promise!Next
    BY <1>7, EndContextEnds DEF Promise!Next
<1>8. ASSUME NEW named \in SUBSET Markets, Invalidate(named) PROVE Promise!Next
    BY <1>8, InvalidateDrops DEF Promise!Next
<1>9. CASE Tick
    BY <1>9, SameMemo, SameRequests, SameCalls DEF Tick, Promise!Next, Promise!Pass
<1>10. ASSUME NEW c \in Callers, SeeOpen(c) \/ Follow(c) \/ Wake(c)
       PROVE  UNCHANGED <<now, AbstractMemo, AbstractRequest>>
    BY <1>10, WaitingStutters
<1>11. ASSUME NEW e \in Entries, Publish(e)
       PROVE  Promise!Next \/ UNCHANGED <<now, AbstractMemo, AbstractRequest>>
    BY <1>11, PublishFinishes DEF Promise!Next
<1>12. ASSUME NEW e \in Entries, Close(e)
       PROVE  Promise!Next \/ UNCHANGED <<now, AbstractMemo, AbstractRequest>>
    BY <1>12, CloseAnnounces DEF Promise!Next
<1> QED
    BY <1>1, <1>2, <1>3, <1>4, <1>5, <1>6, <1>7, <1>8, <1>9, <1>10, <1>11, <1>12
    DEF Next, CallerStep, WorkerStep

\* cache.go:38-45: whatever goroutines, entries and channels do, callers see one
\* memo per market, filled by one fetch at a time that somebody asked for; a
\* reading still good is fetched anew only before anyone was told it from memory.
THEOREM Implements == Spec => ImplementsPromise
<1>1. Init => Promise!Init
    BY PromiseInit
<1>2. IInv /\ [Next]_vars => [Promise!Next]_Promise!vars
    BY PromiseNext
<1> QED
    BY <1>1, <1>2, Invariance, PTL DEF Spec, ImplementsPromise, Promise!Spec
=============================================================================
