------------------------------ MODULE EdgeCache ------------------------------
(***************************************************************************)
(* One board behind a shared HTTP cache: the Cache-Control header of       *)
(* server.go, the CORS headers of middleware.go and the readiness probe of *)
(* handlers.go, on top of the client's own memo.  An edge - a CDN, a proxy *)
(* - keeps what the headers let it keep and answers in the service's place.*)
(*                                                                         *)
(* The memo is the one SnapshotCache is shown to implement, with the age   *)
(* of its reading in place of an absolute time.  The edge is external: it  *)
(* stores an answer that carries max-age for that long, under its URL and  *)
(* the fields its Vary names, and asks the service for anything else.      *)
(* Steps take no time; fetches do.  A cache that is off (TTL 0) answers    *)
(* with no-store and leaves an edge nothing to keep.                       *)
(***************************************************************************)
EXTENDS ErrorTaxonomy

CONSTANTS
    TTL,         \* Client.CacheTTL
    FailureTTL,  \* failureTTL of cache.go
    Second,      \* time.Second in units of time
    Timeout,     \* deadline of one fetch
    Origins,     \* web sites whose pages read the API
    Allowed,     \* those of them in config.corsOrigins
    Everyone,    \* whether corsOrigins is "*"
    NoOrigin,    \* a reader that is not a browser page
    Probe        \* the orchestrator asking /readyz

Readers == Origins \cup {NoOrigin}
Clients == Readers \cup {Probe}

ASSUME EdgeAssumption ==
    /\ TTL \in Nat \ {0}
    /\ FailureTTL \in Nat \ {0}
    /\ Second \in Nat \ {0}
    /\ Timeout \in Nat \ {0}
    /\ Allowed \subseteq Origins
    /\ Everyone \in BOOLEAN
    /\ NoOrigin \notin Origins /\ Probe \notin Readers

VARIABLES
    memo,     \* the client's memo of the board: [state, err, age, left]
    asking,   \* clients whose request waits in the service
    store,    \* the edge's answers, by the origin they are for
    seen      \* history: the last answer anybody got

vars == <<memo, asking, store, seen>>

----------------------------------------------------------------------------
(* The service. *)

Good == Bare({})
Failures ==
    {Rich("fetch", 503, 1, {"ErrUnexpectedStatus"}),
     Rich("fetch", 0, 1, {"ErrRequest", "DeadlineExceeded"}),
     Rich("parse", 0, 0, {"ErrEmpty"})}

Cold == [state |-> "cold", err |-> Good, age |-> 0, left |-> 0]
Loading == [state |-> "loading", err |-> Good, age |-> 0, left |-> Timeout]
Lifetime(err) == IF err # Good /\ FailureTTL < TTL THEN FailureTTL ELSE TTL
Held(err) == [state |-> "held", err |-> err, age |-> 0, left |-> Lifetime(err)]

\* cacheControl: whole seconds of the TTL.
RoundedUp == ((TTL + Second - 1) \div Second) * Second  \* mutant
MaxAge == (TTL \div Second) * Second

\* cors: what an answer to a page of origin o permits, and whether Vary says so.
Permits(o) ==
    IF o = NoOrigin THEN {}
    ELSE IF Everyone THEN Origins
    ELSE {o} \cap Allowed
NeverVaries(o) == FALSE  \* mutant: Vary is not sent
Varies(o) == ~Everyone /\ o \in Allowed

\* A handler's answer: an error is written without Cache-Control.
HeadersFirst(err) == MaxAge  \* mutant: the header is set before the error is known
Keep(err) == IF err = Good THEN MaxAge ELSE 0

\* handleReady turns every failure into 503 or above.
ReadyStatus(err) ==
    IF err = Good THEN 200
    ELSE IF Classify(err).status > 503 THEN Classify(err).status ELSE 503
Status(c, err) ==
    IF c = Probe THEN ReadyStatus(err)
    ELSE IF err = Good THEN 200 ELSE Classify(err).status

Got(c, from, status, age, permits) ==
    [to |-> c, from |-> from, status |-> status, age |-> age, permits |-> permits]

----------------------------------------------------------------------------
(* The edge. *)

\* Answers without Vary are kept for everybody, under NoOrigin.
Empty == [age |-> 0, left |-> 0, status |-> 0, permits |-> {}]
Key(o) == IF Varies(o) THEN o ELSE NoOrigin
Stored(c) ==
    [age |-> memo.age, left |-> Keep(memo.err), status |-> Status(c, memo.err),
     permits |-> Permits(c)]
Matching(o) == {k \in {o, NoOrigin} : store[k].left > 0}

Init ==
    /\ memo = Cold
    /\ asking = {}
    /\ store = [k \in Readers |-> Empty]
    /\ seen = Got(NoOrigin, "nobody", 0, 0, {})

\* The edge has an answer that is fresh and matches.
FromEdge(o) ==
    /\ o \in Readers
    /\ \E k \in Matching(o) :
         seen' = Got(o, "edge", store[k].status, store[k].age, store[k].permits)
    /\ UNCHANGED <<memo, asking, store>>

\* It has none, or must not keep one: the request goes on to the service.
Forward(c) ==
    /\ c \notin asking
    /\ c \in Readers => Matching(c) = {}
    /\ asking' = asking \cup {c}
    /\ UNCHANGED <<memo, store, seen>>

\* One of the requests begins the fetch the others wait for.
Fetch ==
    /\ asking # {}
    /\ memo.state = "cold"
    /\ memo' = Loading
    /\ UNCHANGED <<asking, store, seen>>

Publish(err) ==
    /\ memo.state = "loading"
    /\ memo' = Held(err)
    /\ UNCHANGED <<asking, store, seen>>

\* The handler answers from the memo; the edge keeps what it may.
Reply(c) ==
    /\ c \in asking
    /\ memo.state = "held"
    /\ asking' = asking \ {c}
    /\ seen' = Got(c, "service", Status(c, memo.err), memo.age,
                   IF c = Probe THEN {} ELSE Permits(c))
    /\ store' = IF c # Probe /\ Keep(memo.err) > 0
                THEN [store EXCEPT ![Key(c)] = Stored(c)] ELSE store
    /\ UNCHANGED memo

\* The request's own deadline ends before the fetch it waits for, or with it.
GiveUp(c) ==
    /\ c \in asking
    /\ memo.state = "loading"
    /\ asking' = asking \ {c}
    /\ LET err == Bare({"DeadlineExceeded"})
       IN seen' = Got(c, "service", Status(c, err), 0,
                      IF c = Probe THEN {} ELSE Permits(c))
    /\ UNCHANGED <<memo, store>>

\* One unit of time later; what expired is as if it had never been.
OlderMemo ==
    CASE memo.state = "cold" -> Cold
      [] memo.state = "loading" -> [memo EXCEPT !.left = @ - 1]
      [] memo.state = "held" /\ memo.left = 1 -> Cold
      [] memo.state = "held" /\ memo.left # 1 ->
           [memo EXCEPT !.left = @ - 1, !.age = @ + 1]
OlderAnswer(a) ==
    IF a.left <= 1 THEN Empty ELSE [a EXCEPT !.left = @ - 1, !.age = @ + 1]
Tick ==
    /\ asking # {} => memo.state = "loading"
    /\ memo.state = "loading" => memo.left > 0
    /\ memo' = OlderMemo
    /\ store' = [k \in Readers |-> OlderAnswer(store[k])]
    /\ UNCHANGED <<asking, seen>>

Next ==
    \/ \E o \in Readers : FromEdge(o)
    \/ \E c \in Clients : Forward(c) \/ Reply(c) \/ GiveUp(c)
    \/ Fetch
    \/ \E err \in {Good} \cup Failures : Publish(err)
    \/ Tick

Spec == Init /\ [][Next]_vars

----------------------------------------------------------------------------
(* What a reader behind an edge may rely on. *)

\* server.go:143, the edge repeats the cache the client keeps: the two together
\* never show a price that is two lifetimes old.  Both bounds are strict, hence
\* the two units.
EdgeWithinTwoLifetimes == seen.status = 200 => seen.age + 2 <= 2 * TTL

\* An outage is not prolonged by the edge: an error is repeated by the service
\* alone, for the lesser of the two lifetimes, and to an orchestrator it is
\* always a 503 or above, whatever it is to a reader.
ErrorsShortLived ==
    seen.status \notin {0, 200} =>
        /\ seen.from = "service"
        /\ seen.age < FailureTTL /\ seen.age < TTL
        /\ seen.to = Probe => seen.status >= 503

\* The permission a page of one site was given never reaches a page of another
\* through the edge: what a reader is shown permits that reader or nobody.
NoForeignGrant == ~Everyone => seen.permits \subseteq {seen.to} \cap Allowed

\* README.md:340: "Responses carry `Cache-Control: public, max-age=<remaining
\* TTL>`, so a CDN in front of the service extends the same policy": with the
\* remaining TTL a reader behind an edge would see nothing older than one
\* behind the service itself.
WithinOneLifetime == seen.status = 200 => seen.age < TTL
=============================================================================
