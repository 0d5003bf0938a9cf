----------------------------- MODULE BoardFetch -----------------------------
(***************************************************************************)
(* Client.load and the retry loop below it, transport.go: one board, one   *)
(* deadline, at most MaxAttempts requests with doubling pauses, then the   *)
(* parse of the page.                                                      *)
(*                                                                         *)
(* Time is counted from the call.  A step of the program takes none; the   *)
(* upstream and the timer do.  lastEnd, sent and lastTry are history.      *)
(***************************************************************************)
EXTENDS ErrorTaxonomy

CONSTANTS
    MaxAttempts,  \* RetryPolicy.MaxAttempts: below one means one
    Backoff,      \* RetryPolicy.Backoff
    MaxBackoff,   \* RetryPolicy.MaxBackoff; 0 is uncapped
    Timeout,      \* config.timeout
    Statuses,     \* statuses other than 200 the site may answer with
    Detached      \* TRUE when called by the cache: the caller cannot cancel

ASSUME PolicyAssumption ==
    /\ MaxAttempts \in Int
    /\ Backoff \in Nat
    /\ MaxBackoff \in Nat
    /\ Timeout \in Nat \ {0}
    /\ Statuses \subseteq Nat \ {0, 200}
    /\ Detached \in BOOLEAN

VARIABLES
    now,
    ctxErr,    \* ctx.Err(): "nil", "Canceled" or "DeadlineExceeded"
    pc,        \* "trying", "sleeping", "parsing", "done"
    attempt,
    backoff,
    wake,      \* when the timer of sleep fires
    result,    \* what load returns
    sent,      \* history: requests made
    lastTry,   \* history: how the last of them ended
    lastEnd    \* history: when

vars == <<now, ctxErr, pc, attempt, backoff, wake, result, sent, lastTry, lastEnd>>

Attempts == IF MaxAttempts < 1 THEN 1 ELSE MaxAttempts

\* What try may return: [status, wraps], wraps = {} for a complete page.
NoResponse(cause) == [status |-> 0, wraps |-> {"ErrRequest"} \cup cause]
CutBody(cause) == [status |-> 200, wraps |-> {"ErrRequest"} \cup cause]
Page == [status |-> 200, wraps |-> {}]
TooLarge == [status |-> 200, wraps |-> {"ErrTooLarge"}]
Refused(s) == [status |-> s, wraps |-> {"ErrUnexpectedStatus"}]
NoTry == [status |-> 0, wraps |-> {}]

\* A request or the reading of a body may fail for a reason of its own at any
\* time, and because of the context once that has ended.
Causes == {{}} \cup (IF ctxErr = "nil" THEN {} ELSE {{ctxErr}})
NoContextResults ==  \* mutant: the request is made without the context
    IF ctxErr = "nil" THEN {Page, NoResponse({})} ELSE {}
TryResults ==
    {Page, TooLarge} \cup {Refused(s) : s \in Statuses} \cup
    {NoResponse(cause) : cause \in Causes} \cup {CutBody(cause) : cause \in Causes}

AnyRefusal(t) == t.status # 200  \* mutant: every refusal is worth a retry
Retryable(t) ==
    /\ "ErrTooLarge" \notin t.wraps
    /\ t.status \in {0, 429, 408} \/ t.status >= 500

Failed(status, attempts, wraps) == Rich("fetch", status, attempts, wraps)
NoResult == [rich |-> FALSE, op |-> "pending", status |-> 0, attempts |-> 0, wraps |-> {}]
Snapshot == [rich |-> FALSE, op |-> "none", status |-> 0, attempts |-> 0, wraps |-> {}]

Init ==
    /\ now = 0 /\ ctxErr = "nil"
    /\ pc = "trying" /\ attempt = 1 /\ backoff = Backoff /\ wake = 0
    /\ result = NoResult
    /\ sent = 1 /\ lastTry = NoTry /\ lastEnd = 0

Return(err) == pc' = "done" /\ result' = err

ExhaustedEarly == attempt = Attempts - 1  \* mutant: one too few
Exhausted == attempt = Attempts

\* One try has ended: t is what it returned.
TryEnds(t) ==
    /\ pc = "trying"
    /\ t \in TryResults
    /\ lastTry' = t /\ lastEnd' = now
    /\ CASE t = Page ->
              /\ pc' = "parsing"
              /\ UNCHANGED <<attempt, wake, result>>
         [] t # Page /\ ~Retryable(t) ->
              /\ Return(Failed(t.status, attempt, t.wraps))
              /\ UNCHANGED <<attempt, wake>>
         [] t # Page /\ Retryable(t) /\ ctxErr # "nil" ->
              /\ Return(Failed(t.status, attempt, {"ErrRequest", ctxErr}))
              /\ UNCHANGED <<attempt, wake>>
         [] t # Page /\ Retryable(t) /\ ctxErr = "nil" ->
              IF Exhausted
              THEN /\ Return(Failed(t.status, Attempts, t.wraps))
                   /\ UNCHANGED <<attempt, wake>>
              ELSE /\ pc' = "sleeping"
                   /\ attempt' = attempt + 1
                   /\ wake' = now + backoff
                   /\ UNCHANGED result
    /\ UNCHANGED <<now, ctxErr, backoff, sent>>

\* How sleep may end now: by its timer or by the context, either when both are
\* ready; a pause of zero asks the context first.
TimerOnly ==  \* mutant: the pause does not watch the context
    IF now >= wake THEN {"nil"} ELSE {}
SleepResults ==
    (IF now >= wake /\ (backoff > 0 \/ ctxErr = "nil") THEN {"nil"} ELSE {}) \cup
    (IF ctxErr # "nil" THEN {ctxErr} ELSE {})

Uncapped(d) == 2 * d  \* mutant
Doubled(d) ==
    IF MaxBackoff > 0 /\ MaxBackoff < 2 * d THEN MaxBackoff ELSE 2 * d

\* The pause is over: the next request goes out and the pause doubles.
Resume ==
    /\ pc = "sleeping"
    /\ "nil" \in SleepResults
    /\ pc' = "trying"
    /\ backoff' = Doubled(backoff)
    /\ sent' = sent + 1
    /\ UNCHANGED <<now, ctxErr, attempt, wake, result, lastTry, lastEnd>>

\* The context ended during the pause.
CutCountingAll(e) == Failed(0, attempt, {"ErrRequest", e})  \* mutant
Cut(e) == Failed(0, attempt - 1, {"ErrRequest", e})
SleepCut ==
    /\ pc = "sleeping"
    /\ \E e \in SleepResults \ {"nil"} :
         Return(Cut(e))
    /\ UNCHANGED <<now, ctxErr, attempt, backoff, wake, sent, lastTry, lastEnd>>

\* The page arrived: it may not be understood, or hold no rows.
Parse ==
    /\ pc = "parsing"
    /\ \/ Return(Snapshot)
       \/ Return(Rich("parse", 0, 0, {"ErrParse"}))
       \/ Return(Rich("parse", 0, 0, {"ErrEmpty"}))
    /\ UNCHANGED <<now, ctxErr, attempt, backoff, wake, sent, lastTry, lastEnd>>

\* A caller that is not behind the cache walks away.
Cancel ==
    /\ ~Detached
    /\ pc # "done"
    /\ ctxErr = "nil"
    /\ ctxErr' = "Canceled"
    /\ UNCHANGED <<now, pc, attempt, backoff, wake, result, sent, lastTry, lastEnd>>

\* Time passes while the upstream is slow and while the loop sleeps.  A request
\* whose context has ended returns at once, so does a sleep that may.
Tick ==
    /\ \/ pc = "trying" /\ ctxErr = "nil"
       \/ pc = "sleeping" /\ SleepResults = {}
    /\ now' = now + 1
    /\ ctxErr' = IF ctxErr = "nil" /\ now' >= Timeout THEN "DeadlineExceeded" ELSE ctxErr
    /\ UNCHANGED <<pc, attempt, backoff, wake, result, sent, lastTry, lastEnd>>

Next ==
    \/ \E t \in TryResults : TryEnds(t)
    \/ Resume
    \/ SleepCut
    \/ Parse
    \/ Cancel
    \/ Tick

Spec == Init /\ [][Next]_vars

\* Timers fire, requests end with their context, and the goroutine runs.
FairSpec == Spec /\ WF_vars(Next)

----------------------------------------------------------------------------
(* What makes a fetch correct. *)

CtxErrs == {"nil"} \cup ContextErrors
TryType == [status: Nat, wraps: SUBSET (Sentinels \cup ContextErrors)]
ResultType ==
    [rich: BOOLEAN, op: {"fetch", "parse", "none", "pending"}, status: Nat,
     attempts: Nat, wraps: SUBSET (Sentinels \cup ContextErrors)]

TypeOK ==
    /\ now \in Nat
    /\ ctxErr \in CtxErrs
    /\ pc \in {"trying", "sleeping", "parsing", "done"}
    /\ attempt \in 1..Attempts
    /\ backoff \in Nat
    /\ wake \in Nat
    /\ result \in ResultType
    /\ sent \in 1..Attempts
    /\ lastTry \in TryType
    /\ lastEnd \in Nat

\* One deadline bounds the whole of load, requests and pauses together: neither
\* a slow try nor a pause outlives it.
WithinTimeout == now <= Timeout

\* Error.Attempts: how many requests really went out, also when a pause was cut
\* short, and never more than the policy allows.
AttemptsCounted ==
    pc = "done" /\ result.op = "fetch" => result.attempts = sent /\ sent <= Attempts

\* The pause the loop takes before the n-th request: the first is Backoff, whatever
\* the cap, and the later ones are doubled and then capped (transport.go:30-37).
TwoTo[n \in Nat] == IF n = 0 THEN 1 ELSE 2 * TwoTo[n - 1]
Pause(n) ==
    LET full == Backoff * TwoTo[n - 2]
    IN IF n > 2 /\ MaxBackoff > 0 /\ MaxBackoff < full THEN MaxBackoff ELSE full

\* A request is never sent before the pause that belongs to it has passed since
\* the previous one ended; apart from what the steps of the program take, it is
\* not sent later either.
RequestsSpaced ==
    [][sent' # sent => now = lastEnd + Pause(sent')]_vars

\* options.go:50: "MaxBackoff caps the pause."  The first pause escapes it, so this
\* holds of the policies whose Backoff is within their cap, and of no other.
PauseCapped ==
    pc = "sleeping" => MaxBackoff = 0 \/ wake - lastEnd <= MaxBackoff

\* A failure another attempt could repair is given up only when the attempts are
\* used up or the context has ended - and then the error says so.
RetriesExhausted ==
    /\ pc = "done" /\ result.op = "fetch"
    /\ Retryable(lastTry)
    /\ sent < Attempts
    => ctxErr # "nil" /\ Is(result, ctxErr)

\* The loop and the error it leaves behind judge a failure alike, although two
\* functions of two files do so: Error.Temporary tells the caller to try again
\* exactly where retryable made the loop try again - but for 408, which the loop
\* repeats and the error calls permanent.
JudgedAlike ==
    pc = "done" /\ result.op = "fetch" /\ lastTry.status # 408 =>
        (Temporary(result) <=> Retryable(lastTry))

\* Whatever the upstream and the clock do, load returns.
LoadReturns == <>(pc = "done")
=============================================================================
