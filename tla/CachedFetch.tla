----------------------------- MODULE CachedFetch ----------------------------
(***************************************************************************)
(* What Client.Fetch promises its callers, with no entry, channel, lock or *)
(* goroutine in sight: per market one reading is remembered, made by a     *)
(* single fetch at a time.  SnapshotCache is shown to implement this.      *)
(***************************************************************************)
EXTENDS Integers

CONSTANTS Callers, Markets, TTL, FailureTTL, NoMarket

VARIABLES
    now,
    memo,     \* per market: cold, being fetched, or a reading kept until a time,
              \* at first written and then held for everyone to be told
    request   \* what each caller asked and was told

vars == <<now, memo, request>>

Lifetime(outcome) ==
    IF outcome = "failure" /\ FailureTTL < TTL THEN FailureTTL ELSE TTL

Cold == [state |-> "cold", outcome |-> "none", until |-> 0]
Loading == [state |-> "loading", outcome |-> "none", until |-> 0]
Written(outcome) ==
    [state |-> "written", outcome |-> outcome, until |-> now + Lifetime(outcome)]

Unasked == [state |-> "idle", market |-> NoMarket, ended |-> FALSE, told |-> "none"]

Init ==
    /\ now = 0
    /\ memo = [m \in Markets |-> Cold]
    /\ request = [c \in Callers |-> Unasked]

\* The request of caller c goes on.
Becomes(c, state, market, ended, told) ==
    request' = [request EXCEPT ![c] =
        [state |-> state, market |-> market, ended |-> ended, told |-> told]]

\* A request that has set off a fetch is "fetching", any other one "asking".
Open(c) == request[c].state \in {"asking", "fetching"}

Ask(c, m) ==
    /\ ~Open(c)
    /\ Becomes(c, "asking", m, FALSE, "none")
    /\ UNCHANGED <<now, memo>>

\* A fetch begins only when nothing is being fetched and nothing good is held,
\* or over a reading no one has been told from memory yet, and only because
\* somebody asked; nobody begins two for one request.
Begin(c) ==
    LET m == request[c].market IN
    /\ request[c].state = "asking"
    /\ memo[m].state # "loading"
    /\ memo[m].state = "held" => memo[m].until <= now
    /\ memo' = [memo EXCEPT ![m] = Loading]
    /\ Becomes(c, "fetching", m, request[c].ended, request[c].told)
    /\ UNCHANGED now

Finish(m) ==
    /\ memo[m].state = "loading"
    /\ \E outcome \in {"snapshot", "failure"} :
         memo' = [memo EXCEPT ![m] = Written(outcome)]
    /\ UNCHANGED <<now, request>>

\* The reading is there for everyone.
Announce(m) ==
    /\ memo[m].state = "written"
    /\ memo' = [memo EXCEPT ![m] = [state |-> "held", outcome |-> memo[m].outcome,
                                   until |-> memo[m].until]]
    /\ UNCHANGED <<now, request>>

Told(c, what) ==
    Becomes(c, "told", request[c].market, request[c].ended, what)

\* From memory, while the reading is good.
TellHeld(c) ==
    /\ request[c].state = "asking"
    /\ memo[request[c].market].state = "held"
    /\ now < memo[request[c].market].until
    /\ Told(c, memo[request[c].market].outcome)
    /\ UNCHANGED <<now, memo>>

\* By the fetch this very request set off, whatever became of the memo since.
TellOwn(c) ==
    /\ request[c].state = "fetching"
    /\ \E outcome \in {"snapshot", "failure"} : Told(c, outcome)
    /\ UNCHANGED <<now, memo>>

\* A caller is told of a cancellation only when it is its own.
TellEnded(c) ==
    /\ Open(c)
    /\ request[c].ended
    /\ Told(c, "cancelled")
    /\ UNCHANGED <<now, memo>>

End(c) ==
    /\ Open(c)
    /\ Becomes(c, request[c].state, request[c].market, TRUE, request[c].told)
    /\ UNCHANGED <<now, memo>>

Drop(dropped) ==
    /\ memo' = [m \in Markets |-> IF m \in dropped THEN Cold ELSE memo[m]]
    /\ UNCHANGED <<now, request>>

Pass ==
    /\ now' = now + 1
    /\ UNCHANGED <<memo, request>>

Next ==
    \/ \E c \in Callers, m \in Markets : Ask(c, m)
    \/ \E m \in Markets : Finish(m) \/ Announce(m)
    \/ \E c \in Callers : Begin(c) \/ TellHeld(c) \/ TellOwn(c) \/ TellEnded(c) \/ End(c)
    \/ \E dropped \in SUBSET Markets : Drop(dropped)
    \/ Pass

Spec == Init /\ [][Next]_vars
=============================================================================
