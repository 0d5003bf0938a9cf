--------------------------- MODULE RequestPipeline ---------------------------
(***************************************************************************)
(* server/server.go, middleware.go, metrics.go and render.go: a request    *)
(* travels down the middleware chain to the first part that answers it,    *)
(* the answer is written, and the stack unwinds through the access log and *)
(* the recoverer.                                                          *)
(*                                                                         *)
(* The way down has no wait in it and is one action; the handler's wait    *)
(* for the client library, the write to the network, the way up and a      *)
(* panic are steps of their own.  The limiter's verdict is free here: see  *)
(* RateLimiter.  What the library may answer is ErrorTaxonomy's.           *)
(***************************************************************************)
EXTENDS ErrorTaxonomy, FiniteSets

CONSTANTS
    Requests,  \* requests the server is ever sent
    Kinds,     \* what they may be: [method, preflight, target]
    Options,   \* the optional middlewares that are configured, and the metrics
    Bounds     \* number of latency buckets; a latency is 1..Bounds + 1

Targets == {"board", "health", "metrics", "none"}
Methods == {"GET", "POST", "OPTIONS"}

ASSUME ChainAssumption ==
    /\ IsFiniteSet(Requests)
    /\ Kinds \subseteq [method: Methods, preflight: BOOLEAN, target: Targets]
    /\ \A k \in Kinds : k.preflight => k.method = "OPTIONS"
    /\ Options \subseteq {"cors", "rateLimit", "timeout", "metrics"}
    /\ Bounds \in Nat

VARIABLES
    base,    \* the error of the base context of every request, or "nil"
    req,     \* the requests
    series   \* metrics.series

----------------------------------------------------------------------------
(* The chain, outermost first, with the mux as its last part. *)

Optional(mw) == IF mw \in Options THEN <<mw>> ELSE <<>>
LogInside ==  \* mutant: the access log sits below the limiter
    <<"recoverer", "requestID", "readOnly">> \o Optional("cors") \o Optional("rateLimit")
    \o <<"accessLog">> \o Optional("timeout") \o <<"mux">>
Chain ==
    <<"recoverer", "requestID", "accessLog", "readOnly">> \o Optional("cors")
    \o Optional("rateLimit") \o Optional("timeout") \o <<"mux">>

\* A request that went down to depth has passed middleware mw.
Passed(mw, depth) == \E i \in DOMAIN Chain : Chain[i] = mw /\ i < depth

\* The routes the mux knows: /metrics is registered only when metrics are kept.
Routes == Targets \ ({"none"} \cup (IF "metrics" \in Options THEN {} ELSE {"metrics"}))

\* Whether a part of the chain answers a request itself.
Answers(mw, kind, throttled) ==
    CASE mw = "readOnly"  -> kind.method \notin {"GET", "OPTIONS"}
      [] mw = "cors"      -> kind.preflight
      [] mw = "rateLimit" -> throttled
      [] mw = "mux"       -> kind.target \notin Routes \/ kind.method # "GET"
      [] OTHER            -> FALSE

\* How deep a request goes: to the first part that answers, or to its handler.
Depth(kind, throttled) ==
    LET stops == {i \in DOMAIN Chain : Answers(Chain[i], kind, throttled)}
    IN IF stops = {} THEN Len(Chain) + 1 ELSE CHOOSE i \in stops : \A j \in stops : i <= j

InHandler(depth) == depth > Len(Chain)

ReplyStatus(mw) ==
    CASE mw = "readOnly" -> 405 [] mw = "cors" -> 204
      [] mw = "rateLimit" -> 429 [] mw = "mux" -> 404

\* An error body and a log line carry the identifier when the part that writes
\* them was handed the request with it.
Named(depth) == Passed("requestID", depth)

----------------------------------------------------------------------------
(* The requests. *)

\* The status a statusRecorder is born with, http.StatusOK.
BornWith == 200

NoKind == [method |-> "GET", preflight |-> FALSE, target |-> "none"]
Unsent ==
    [pc |-> "unsent", kind |-> NoKind, depth |-> 0, ctx |-> "nil", gone |-> FALSE,
     status |-> 0, wire |-> 0, recorded |-> BornWith, sent |-> FALSE, latency |-> 0,
     panic |-> "none", named |-> TRUE, logged |-> FALSE,
     early |-> FALSE]  \* whether it came before the signal, a history variable

InFlight(r) == req[r].pc \notin {"unsent", "done"}

\* What the library may fail with besides the end of the context.
Failures == {Rich("fetch", 0, 0, {"ErrUnknownMarket"}),
             Rich("lookup", 0, 0, {"ErrNotFound"}),
             Rich("parse", 0, 0, {"ErrParse"}),
             Rich("fetch", 503, 1, {"ErrUnexpectedStatus"}),
             Rich("fetch", 0, 1, {"ErrRequest", "DeadlineExceeded"})}

\* The statuses a handler may answer with.  A board in the cache is served
\* whatever the context says.
HandlerStatuses(r) ==
    IF req[r].kind.target # "board" THEN {200}
    ELSE {200} \cup {Classify(err).status : err \in Failures} \cup
         (IF req[r].ctx = "nil" THEN {} ELSE {Classify(Bare({req[r].ctx})).status})

PipelineInit ==
    /\ base = "nil"
    /\ req = [r \in Requests |-> Unsent]
    /\ series = [key \in {} |-> 0]

\* A request arrives and goes down the chain.
Arrive(r, kind, throttled) ==
    LET depth == Depth(kind, throttled) IN
    /\ req[r].pc = "unsent"
    /\ req' = [req EXCEPT ![r] =
         [Unsent EXCEPT !.pc = IF InHandler(depth) THEN "handling" ELSE "writing",
                        !.kind = kind, !.depth = depth, !.ctx = base,
                        !.status = IF InHandler(depth) THEN 0 ELSE ReplyStatus(Chain[depth]),
                        !.named = Named(depth), !.early = base = "nil"]]
    /\ UNCHANGED <<base, series>>

\* The handler has its answer: writeJSON, writeError or, for the metrics, Write.
HandlerReturns(r) ==
    /\ req[r].pc = "handling"
    /\ \E status \in HandlerStatuses(r) :
         req' = [req EXCEPT ![r] = [req[r] EXCEPT !.pc = "writing", !.status = status]]
    /\ UNCHANGED <<base, series>>

\* The handler panics, before or after it has written its answer.
HandlerPanics(r, panic) ==
    /\ \/ req[r].pc = "handling"
       \/ req[r].pc = "unwinding" /\ InHandler(req[r].depth)
    /\ req' = [req EXCEPT ![r] = [req[r] EXCEPT !.pc = "panicking", !.panic = panic]]
    /\ UNCHANGED <<base, series>>

\* statusRecorder remembers what the first WriteHeader was given; a Write without
\* one sends what it was born with.
WritesHeader(r) == ~(InHandler(req[r].depth) /\ req[r].kind.target = "metrics")
Recorded(r) ==
    IF Passed("accessLog", req[r].depth) /\ WritesHeader(r) /\ ~req[r].sent
    THEN req[r].status ELSE req[r].recorded

\* The answer has been written, or the client could not be written to.
Write(r) ==
    /\ req[r].pc = "writing"
    /\ req' = [req EXCEPT ![r] = [req[r] EXCEPT !.pc = "unwinding", !.wire = req[r].status,
                                              !.recorded = Recorded(r), !.sent = TRUE]]
    /\ UNCHANGED <<base, series>>

Route(r) == IF InHandler(req[r].depth) THEN req[r].kind.target ELSE "unmatched"
SeriesKey(r) == [route |-> Route(r), method |-> req[r].kind.method, status |-> req[r].recorded]

\* Every bucket the latency fits in counts it.
Observed(value, latency) ==
    [count |-> value.count + 1,
     buckets |-> [i \in 1..Bounds |-> IF latency <= i THEN value.buckets[i] + 1 ELSE value.buckets[i]]]
NoSeries == [count |-> 0, buckets |-> [i \in 1..Bounds |-> 0]]

\* metrics.observe.
Observe(key, latency) ==
    LET old == IF key \in DOMAIN series THEN series[key] ELSE NoSeries
    IN IF "metrics" \notin Options THEN series
       ELSE [k \in DOMAIN series \cup {key} |->
               IF k = key THEN Observed(old, latency) ELSE series[k]]

\* The stack unwinds: the access log counts the request and writes its line.
Unwind(r, latency) ==
    /\ req[r].pc = "unwinding"
    /\ IF Passed("accessLog", req[r].depth)
       THEN /\ series' = Observe(SeriesKey(r), latency)
            /\ req' = [req EXCEPT ![r] = [req[r] EXCEPT !.pc = "done", !.latency = latency,
                                                     !.logged = TRUE]]
       ELSE /\ req' = [req EXCEPT ![r] = [req[r] EXCEPT !.pc = "done"]]
            /\ UNCHANGED series
    /\ UNCHANGED base

\* The panic unwinds to the recoverer, past the rest of the chain.  It logs and
\* answers with the request as it came in, which net/http ignores once a header
\* is out, or lets http.ErrAbortHandler through: the connection is dropped, and
\* the client has no whole answer.
Recovers(r) == req[r].panic # "abort" /\ Passed("recoverer", req[r].depth)
Reaches(r) ==
    IF ~Recovers(r) THEN 0 ELSE IF req[r].wire = 0 THEN 500 ELSE req[r].wire
RecovererDepth == CHOOSE i \in DOMAIN Chain : Chain[i] = "recoverer"
Recover(r) ==
    /\ req[r].pc = "panicking"
    /\ req' = [req EXCEPT ![r] = [req[r] EXCEPT
         !.pc = "done",
         !.wire = Reaches(r),
         !.named = IF Recovers(r) THEN Named(RecovererDepth) ELSE req[r].named]]
    /\ UNCHANGED <<base, series>>

\* The client hangs up: net/http cancels the context of its request.
ClientLeaves(r) ==
    /\ InFlight(r)
    /\ ~req[r].gone
    /\ req' = [req EXCEPT ![r] = [req[r] EXCEPT
         !.gone = TRUE, !.ctx = IF req[r].ctx = "nil" THEN "Canceled" ELSE req[r].ctx]]
    /\ UNCHANGED <<base, series>>

\* The timeout middleware's deadline passes.
NoDeadline(r) == FALSE  \* mutant
Deadline(r) ==
    /\ req[r].pc = "handling"
    /\ Passed("timeout", req[r].depth)
    /\ req[r].ctx = "nil"
    /\ req' = [req EXCEPT ![r] = [req[r] EXCEPT !.ctx = "DeadlineExceeded"]]
    /\ UNCHANGED <<base, series>>

RequestStep(r) ==
    \/ HandlerReturns(r)
    \/ \E panic \in {"bug", "abort"} : HandlerPanics(r, panic)
    \/ Write(r)
    \/ \E latency \in 1..(Bounds + 1) : Unwind(r, latency)
    \/ Recover(r)
    \/ ClientLeaves(r)
    \/ Deadline(r)

\* The base context ends, and with it the context of every request.
BaseEnds ==
    /\ base = "nil"
    /\ base' = "Canceled"
    /\ req' = [r \in Requests |->
                 IF InFlight(r) /\ req[r].ctx = "nil"
                 THEN [req[r] EXCEPT !.ctx = "Canceled"] ELSE req[r]]
    /\ UNCHANGED series

----------------------------------------------------------------------------
\* A request the metrics owe: answered without a panic, while they are kept.
Owed(r) == "metrics" \in Options /\ req[r].pc = "done" /\ req[r].panic = "none"

\* The owed requests under a key, by what their clients were sent.
Under(key) ==
    {r \in Requests :
        /\ Owed(r)
        /\ [route |-> Route(r), method |-> req[r].kind.method, status |-> req[r].wire] = key}

\* The metrics are what happened on the wire: every answer given without a
\* panic, a rejected preflight and a throttled client included, is counted once
\* under the status its client was sent, in every bucket its latency fits.
Accounted ==
    /\ \A r \in Requests : Owed(r) => \E key \in DOMAIN series : r \in Under(key)
    /\ \A key \in DOMAIN series :
         /\ series[key].count = Cardinality(Under(key))
         /\ \A i \in 1..Bounds :
              series[key].buckets[i] = Cardinality({r \in Under(key) : req[r].latency <= i})

\* wiki/Running-the-Service.md:102: the request identifier "appears in every log
\* line and in every error body", and middleware.go:146, the access log has a
\* line for every request that was answered.
Traceable ==
    \A r \in Requests :
        req[r].pc = "done" /\ req[r].wire # 0 => req[r].named /\ req[r].logged
=============================================================================
