--------------------------- MODULE SnapshotCache ---------------------------
(***************************************************************************)
(* cache.go: the memo of one snapshot per market that also collapses the   *)
(* concurrent fetches of a market into one outgoing request.               *)
(*                                                                         *)
(* A critical section of cache.mu is one action where nothing outside it   *)
(* can come between.  do reads the channel of an entry twice under the     *)
(* lock, in the first and in the second case of its switch, and            *)
(* close(ready) comes after the unlock of the fetching goroutine, so the   *)
(* channel may close between the two reads: a caller that read it open     *)
(* once is "checked", and holds the mutex.  What happens outside the lock  *)
(* is a step of its own: the fetch in its detached goroutine, the close,   *)
(* the waits on ready and on the caller's context.                         *)
(*                                                                         *)
(* An element of Entries stands for the address of an entry.  Go frees an  *)
(* entry nobody refers to, so an address may be used again; its last       *)
(* contents stay readable here until then.                                 *)
(*                                                                         *)
(* The cache here is on.  With a TTL of zero do is a plain call of fetch    *)
(* under the caller's own context: FanOut with cacheOn FALSE, BoardFetch    *)
(* with Detached FALSE.                                                    *)
(*                                                                         *)
(* epoch, calls, began, published, since and asked are history: no guard   *)
(* of the code reads them (the bounds MaxEpoch and MaxCalls and Timeout's  *)
(* urgency in Tick do).  They let the properties relate an answer to the   *)
(* moment the call was made.                                               *)
(***************************************************************************)
EXTENDS Integers

CONSTANTS
    Callers,     \* goroutines that call Client.Fetch
    Impatient,   \* those whose context may end; the others' never does
    Markets,     \* boards of tgju.org
    Entries,     \* addresses of cache entries
    TTL,         \* cache.ttl of a cache that is on
    FailureTTL,  \* the failureTTL constant
    Timeout,     \* bound of one fetch (Client.load's context.WithTimeout)
    MaxTime,     \* bound: the clock stops here
    MaxEpoch,    \* bound: invalidations per market
    MaxCalls,    \* bound: calls made, by all callers together
    NoEntry, NoCaller, NoMarket

ASSUME DurationsAssumption ==
    /\ TTL \in Nat \ {0}
    /\ FailureTTL \in Nat \ {0}
    /\ Timeout \in Nat \ {0}
    /\ MaxTime \in Nat
    /\ MaxEpoch \in Nat
    /\ MaxCalls \in Nat

ASSUME NullsAssumption ==
    /\ Entries \subseteq Nat
    /\ NoEntry \notin Entries
    /\ NoCaller \notin Callers
    /\ NoMarket \notin Markets
    /\ Impatient \subseteq Callers

VARIABLES
    now,       \* the clock behind cache.now
    entries,   \* cache.entries
    entry,     \* the entries themselves, by address
    worker,    \* the goroutine that fetches for an entry
    call,      \* where each caller is in cache.do
    ctxDone,   \* whether the context of the caller's current call has ended
    epoch,     \* history: how often a market has been invalidated
    calls      \* history: how many calls have been made

vars == <<now, entries, entry, worker, call, ctxDone, epoch, calls>>

----------------------------------------------------------------------------
(* The state of an entry and of a call. *)

Outcomes == {"snapshot", "failure", "cancelled"}

EntryType ==
    [market: Markets \cup {NoMarket}, epoch: Nat, began: Nat,
     honours: Callers \cup {NoCaller}, outcome: Outcomes \cup {"none"},
     published: Nat, expires: Nat, ready: BOOLEAN]

Pcs == {"idle", "lookup", "checked", "following", "leading", "returned"}

CallType ==
    [pc: Pcs, market: Markets \cup {NoMarket}, on: Entries \cup {NoEntry},
     result: Outcomes \cup {"none"}, since: Nat, asked: Nat]

\* An address that has held no entry yet, and a goroutine outside cache.do.
Blank ==
    [market |-> NoMarket, epoch |-> 0, began |-> 0, honours |-> NoCaller,
     outcome |-> "none", published |-> 0, expires |-> 0, ready |-> FALSE]
Idle ==
    [pc |-> "idle", market |-> NoMarket, on |-> NoEntry, result |-> "none",
     since |-> 0, asked |-> 0]

\* The goroutine whose cancellation the fetch of caller c's goroutine honours:
\* context.WithoutCancel(ctx) leaves none.
KeepCancel(c) == c  \* mutant: the leader's own context
WithoutCancel(c) == NoCaller

\* &entry{ready: make(chan struct{})}, created by caller c for its market.
NewEntry(c) ==
    [market |-> call[c].market, epoch |-> epoch[call[c].market],
     began |-> now, honours |-> WithoutCancel(c), outcome |-> "none",
     published |-> 0, expires |-> 0, ready |-> FALSE]

\* How long an outcome is remembered: the full TTL for a snapshot, at most
\* FailureTTL for an error.
OwnLifetime(outcome) ==  \* mutant: an error may outlive a snapshot
    IF outcome # "snapshot" THEN FailureTTL ELSE TTL
Lifetime(outcome) ==
    IF outcome # "snapshot" /\ FailureTTL < TTL THEN FailureTTL ELSE TTL

\* The entry at e once its fetch has returned outcome, and once ready is closed.
Filled(e, outcome) ==
    [market |-> entry[e].market, epoch |-> entry[e].epoch,
     began |-> entry[e].began, honours |-> entry[e].honours,
     outcome |-> outcome, published |-> now,
     expires |-> now + Lifetime(outcome), ready |-> entry[e].ready]
OpenedOnSuccess(e) ==  \* mutant: ready stays open after an error
    [entry[e] EXCEPT !.ready = entry[e].outcome = "snapshot"]
Opened(e) ==
    [market |-> entry[e].market, epoch |-> entry[e].epoch,
     began |-> entry[e].began, honours |-> entry[e].honours,
     outcome |-> entry[e].outcome, published |-> entry[e].published,
     expires |-> entry[e].expires, ready |-> TRUE]

\* Caller c goes on to pc, waiting on or answered from the entry at e.
Moves(c, pc, e, result) ==
    call' = [call EXCEPT ![c] =
               [pc |-> pc, market |-> call[c].market, on |-> e, result |-> result,
                since |-> call[c].since, asked |-> call[c].asked]]

\* entry.settled: the fetch has finished.
SettledAlways(e) == TRUE  \* mutant: nobody waits for ready
Settled(e) == entry[e].ready

\* The entry under a market's key, and the two cases of the switch in do.
Registered(m) == entries[m] # NoEntry
NothingInFlight(m) == FALSE  \* mutant: every miss leads
InFlight(m) == Registered(m) /\ ~Settled(entries[m])
Unexpiring(m) == Registered(m) /\ Settled(entries[m])  \* mutant: expires is not read
Valid(m) ==
    Registered(m) /\ Settled(entries[m]) /\ now < entry[entries[m]].expires

\* cache.mu is held across steps: by a caller between the two cases.
Locked == \E c \in Callers : call[c].pc = "checked"

\* Nothing refers to the address any more: the allocator may hand it out, the
\* lowest one first (which of them it is makes no difference to the code).
Free(e) ==
    /\ worker[e] = "none"
    /\ \A m \in Markets : entries[m] # e
    /\ \A c \in Callers : call[c].on # e
NextFree(e) == Free(e) /\ \A d \in Entries : Free(d) => e <= d

----------------------------------------------------------------------------
Init ==
    /\ now = 0
    /\ entries = [m \in Markets |-> NoEntry]
    /\ entry = [e \in Entries |-> Blank]
    /\ worker = [e \in Entries |-> "none"]
    /\ call = [c \in Callers |-> Idle]
    /\ ctxDone = [c \in Callers |-> FALSE]
    /\ epoch = [m \in Markets |-> 0]
    /\ calls = 0

\* Client.Fetch enters cache.do with a context of its own.
Call(c, m) ==
    /\ call[c].pc \in {"idle", "returned"}
    /\ calls < MaxCalls
    /\ calls' = calls + 1
    /\ call' = [call EXCEPT ![c] =
                  [pc |-> "lookup", market |-> m, on |-> NoEntry, result |-> "none",
                   since |-> now, asked |-> epoch[m]]]
    /\ ctxDone' = [ctxDone EXCEPT ![c] = FALSE]
    /\ UNCHANGED <<now, entries, entry, worker, epoch>>

\* A settled entry that has not expired answers at once.
Hit(c) ==
    /\ call[c].pc = "lookup"
    /\ ~Locked
    /\ Valid(call[c].market)
    /\ LET e == entries[call[c].market] IN
         Moves(c, "returned", e, entry[e].outcome)
    /\ UNCHANGED <<calls, now, entries, entry, worker, ctxDone, epoch>>

\* The first case fails because the channel is still open; the second one is
\* going to read it again, with the mutex held.
SeeOpen(c) ==
    /\ call[c].pc = "lookup"
    /\ ~Locked
    /\ InFlight(call[c].market)
    /\ Moves(c, "checked", entries[call[c].market], "none")
    /\ UNCHANGED <<calls, now, entries, entry, worker, ctxDone, epoch>>

\* Open for the second case too, someone else is already fetching this market:
\* unlock and wait for that entry.
Follow(c) ==
    /\ call[c].pc = "checked"
    /\ ~Settled(call[c].on)
    /\ Moves(c, "following", call[c].on, "none")
    /\ UNCHANGED <<calls, now, entries, entry, worker, ctxDone, epoch>>

\* No case of the switch is taken: the market is cold or its entry stale, or
\* the channel closed between the two reads, however good the entry is.
MustLead(c) ==
    \/ /\ call[c].pc = "lookup"
       /\ ~Locked
       /\ ~Valid(call[c].market)
       /\ ~InFlight(call[c].market)
    \/ /\ call[c].pc = "checked"
       /\ Settled(call[c].on)

\* Register a new entry and start the goroutine that fetches.
Lead(c) ==
    /\ MustLead(c)
    /\ \E e \in Entries :
         /\ NextFree(e)
         /\ entry' = [entry EXCEPT ![e] = NewEntry(c)]
         /\ entries' = [entries EXCEPT ![call[c].market] = e]
         /\ worker' = [worker EXCEPT ![e] = "fetching"]
         /\ Moves(c, "leading", e, "none")
    /\ UNCHANGED <<calls, now, ctxDone, epoch>>

\* The ways fetch may end.  It is cut short only by a context it honours.
FetchOutcomes(e) ==
    {"snapshot", "failure"} \cup
    (IF \E c \in Callers : c = entry[e].honours /\ ctxDone[c]
     THEN {"cancelled"} ELSE {})

\* The goroutine's fetch returned; it writes the entry's fields under the lock.
Publish(e) ==
    /\ worker[e] = "fetching"
    /\ ~Locked
    /\ \E outcome \in FetchOutcomes(e) :
         entry' = [entry EXCEPT ![e] = Filled(e, outcome)]
    /\ worker' = [worker EXCEPT ![e] = "closing"]
    /\ UNCHANGED <<calls, now, entries, call, ctxDone, epoch>>

\* close(leader.ready), after the unlock: whoever holds the mutex.
Close(e) ==
    /\ worker[e] = "closing"
    /\ entry' = [entry EXCEPT ![e] = Opened(e)]
    /\ worker' = [worker EXCEPT ![e] = "none"]
    /\ UNCHANGED <<calls, now, entries, call, ctxDone, epoch>>

\* A follower's entry became ready: it goes back to read the map again.
Wake(c) ==
    /\ call[c].pc = "following"
    /\ Settled(call[c].on)
    /\ Moves(c, "lookup", NoEntry, "none")
    /\ UNCHANGED <<calls, now, entries, entry, worker, ctxDone, epoch>>

\* The leader's entry became ready: it returns the entry's fields unlocked.
LeaderReturn(c) ==
    /\ call[c].pc = "leading"
    /\ Settled(call[c].on)
    /\ Moves(c, "returned", call[c].on, entry[call[c].on].outcome)
    /\ UNCHANGED <<calls, now, entries, entry, worker, ctxDone, epoch>>

\* The caller's context ended first: it leaves with ctx.Err().
LeaderMayGiveUp(c) == call[c].pc = "leading" /\ ctxDone[c]  \* mutant: followers do not look
MayGiveUp(c) == call[c].pc \in {"following", "leading"} /\ ctxDone[c]
GiveUp(c) ==
    /\ MayGiveUp(c)
    /\ Moves(c, "returned", NoEntry, "cancelled")
    /\ UNCHANGED <<calls, now, entries, entry, worker, ctxDone, epoch>>

\* The caller's context is cancelled or its deadline passes.
EndContext(c) ==
    /\ c \in Impatient
    /\ call[c].pc \notin {"idle", "returned"}
    /\ ~ctxDone[c]
    /\ ctxDone' = [ctxDone EXCEPT ![c] = TRUE]
    /\ UNCHANGED <<calls, now, entries, entry, worker, call, epoch>>

\* cache.invalidate: the named markets leave the map, all of them when none is
\* named; a fetch in flight goes on.
InvalidateSettled(named) ==  \* mutant: a fetch in flight stays registered
    LET dropped == {m \in IF named = {} THEN Markets ELSE named : ~InFlight(m)} IN
    /\ ~Locked
    /\ \A m \in Markets : epoch[m] < MaxEpoch
    /\ entries' = [m \in Markets |-> IF m \in dropped THEN NoEntry ELSE entries[m]]
    /\ epoch' = [m \in Markets |-> epoch[m] + 1]
    /\ UNCHANGED <<calls, now, entry, worker, call, ctxDone>>
Invalidate(named) ==
    LET dropped == IF named = {} THEN Markets ELSE named IN
    /\ ~Locked
    /\ \A m \in dropped : epoch[m] < MaxEpoch
    /\ entries' = [m \in Markets |-> IF m \in dropped THEN NoEntry ELSE entries[m]]
    /\ epoch' = [m \in Markets |-> IF m \in dropped THEN epoch[m] + 1 ELSE epoch[m]]
    /\ UNCHANGED <<calls, now, entry, worker, call, ctxDone>>

\* Time passes, but not beyond the deadline of a fetch still running.
Tick ==
    /\ now < MaxTime
    /\ \A e \in Entries :
         worker[e] = "fetching" => now < entry[e].began + Timeout
    /\ now' = now + 1
    /\ UNCHANGED <<calls, entries, entry, worker, call, ctxDone, epoch>>

CallerStep(c) ==
    \/ Hit(c)
    \/ SeeOpen(c)
    \/ Follow(c)
    \/ Lead(c)
    \/ Wake(c)
    \/ LeaderReturn(c)
    \/ GiveUp(c)

WorkerStep(e) == Publish(e) \/ Close(e)

Next ==
    \/ \E c \in Callers, m \in Markets : Call(c, m)
    \/ \E c \in Callers : CallerStep(c) \/ EndContext(c)
    \/ \E e \in Entries : WorkerStep(e)
    \/ \E named \in SUBSET Markets : Invalidate(named)
    \/ Tick

Spec == Init /\ [][Next]_vars

\* The Go scheduler runs a runnable goroutine sooner or later, the mutex does
\* not starve a waiter however often others take it, and a select between two
\* ready cases picks one at random, so it does not neglect ctx.Done for ever.
CallersFair ==
    /\ \A c \in Callers : SF_vars(CallerStep(c))
    /\ \A c \in Impatient : SF_vars(GiveUp(c))

\* An upstream that may never answer: only the callers are sure to move on.
HungUpstreamSpec == Spec /\ CallersFair
----------------------------------------------------------------------------
(* What makes the cache correct. *)

TypeOK ==
    /\ now \in Nat
    /\ entries \in [Markets -> Entries \cup {NoEntry}]
    /\ entry \in [Entries -> EntryType]
    /\ worker \in [Entries -> {"none", "fetching", "closing"}]
    /\ call \in [Callers -> CallType]
    /\ ctxDone \in [Callers -> BOOLEAN]
    /\ epoch \in [Markets -> Nat]
    /\ calls \in Nat

\* Distinct fetches of one market with no Invalidate between them.
SameReading(d, e) ==
    /\ d # e
    /\ entry[d].market = entry[e].market
    /\ entry[d].market # NoMarket
    /\ entry[d].epoch = entry[e].epoch

\* Entry d was settled when the fetch for e began.
Before(d, e) == entry[d].ready /\ entry[d].published <= entry[e].began

\* The concurrent fetches of a market are collapsed into one: unless an
\* Invalidate separates them, two fetches of a market never overlap, however
\* callers, closes, cancellations and invalidations of other epochs interleave.
\* The later one may begin while what the earlier one left is still good: a caller
\* overtaken by the close fetches anew.
FetchesApart ==
    \A d, e \in Entries : SameReading(d, e) => Before(d, e) \/ Before(e, d)

Answered(c) == call[c].pc = "returned" /\ call[c].on # NoEntry

\* A call is never answered with something whose lifetime, counted from the
\* fetch that produced it, was already over when the call was made.
AnswerNotStale ==
    \A c \in Callers : Answered(c) =>
        LET e == entry[call[c].on] IN
        call[c].since < e.published + Lifetime(e.outcome)

\* Client.Invalidate: a call made after it is answered by a fetch that began
\* after it, even when an older fetch was in flight and finishes later.
AnswerAfterInvalidation ==
    \A c \in Callers : Answered(c) =>
        call[c].asked <= entry[call[c].on].epoch

\* The goroutine that arrived first cannot, by walking away, abort the request
\* everyone else is waiting on: only the caller whose own context ended is told
\* that a context ended.
NoForeignCancellation ==
    \A c \in Callers : call[c].result = "cancelled" => ctxDone[c]

\* The fields are read outside the lock; every reader gets the final, published
\* result of a fetch of the board it asked for.
AnswerIsPublished ==
    \A c \in Callers : Answered(c) =>
        LET e == entry[call[c].on] IN
        /\ e.ready
        /\ e.market = call[c].market
        /\ call[c].result = e.outcome
        /\ e.outcome # "none"

\* Nobody waits for a channel that is never going to close: an entry some call
\* waits for is ready, or its goroutine is still on its way to close it, even
\* when the leader has left, the market was invalidated or the fetch failed.
NoWaitForgotten ==
    \A c \in Callers : call[c].pc \in {"following", "leading"} =>
        Settled(call[c].on) \/ worker[call[c].on] # "none"

\* A caller whose context ended does not block on someone else's slow fetch,
\* not even on one that never ends: no fairness of the workers is assumed.
CancelledReturns ==
    \A c \in Impatient : call[c].pc = "lookup" /\ ctxDone[c]
                           ~> call[c].pc = "returned"

----------------------------------------------------------------------------
(* The promise, with entries and goroutines hidden.  The map is cold where no *)
(* entry is registered; a reading is written with the fields of its entry and *)
(* held once ready is closed.  A caller overtaken by the close between its    *)
(* two reads has begun its own fetch, though its entry is still to be made.   *)

Overtaken(c) == call[c].pc = "checked" /\ Settled(call[c].on)
Replaced(e) == \E c \in Callers : call[c].on = e /\ Overtaken(c)

MemoOf(m) ==
    LET e == entries[m] IN
    IF ~Registered(m) THEN [state |-> "cold", outcome |-> "none", until |-> 0]
    ELSE IF entry[e].outcome = "none" \/ Replaced(e)
      THEN [state |-> "loading", outcome |-> "none", until |-> 0]
      ELSE [state |-> IF Settled(e) THEN "held" ELSE "written",
            outcome |-> entry[e].outcome, until |-> entry[e].expires]
AbstractMemo == [m \in Markets |-> MemoOf(m)]

StateAt(pc) ==
    CASE pc = "idle" -> "idle"
      [] pc \in {"lookup", "checked", "following"} -> "asking"
      [] pc = "leading" -> "fetching"
      [] pc = "returned" -> "told"
RequestOf(c) ==
    [state |-> IF Overtaken(c) THEN "fetching" ELSE StateAt(call[c].pc), market |-> call[c].market, ended |-> ctxDone[c],
     told |-> call[c].result]
AbstractRequest == [c \in Callers |-> RequestOf(c)]

Promise == INSTANCE CachedFetch WITH memo <- AbstractMemo, request <- AbstractRequest

\* Every behaviour of the cache is one of the promised ones.
ImplementsPromise == Promise!Spec
=============================================================================
