-------------------------------- MODULE FanOut -------------------------------
(***************************************************************************)
(* Client.FetchAll and Client.Item: one goroutine per board under a shared *)
(* context that the first failure cancels, the join of their errors, and   *)
(* what the API and the command line make of the outcome.                  *)
(*                                                                         *)
(* A call of Client.Fetch is seen from outside here, through what it may   *)
(* return while its context is live or has ended: BoardFetch and           *)
(* SnapshotCache are the inside.                                           *)
(***************************************************************************)
EXTENDS ErrorTaxonomy

CONSTANTS
    BoardLists,  \* the lists of markets a caller may ask for, in order
    Supported    \* the markets Market.Valid accepts

ASSUME BoardsAssumption ==
    \A list \in BoardLists :
        list \in Seq(Supported \cup {"unsupported"}) /\ Len(list) > 0

VARIABLES
    caller,   \* the error of the caller's context, or "nil"
    ctx,      \* the error of the context FetchAll derives from it
    out,      \* boards whose snapshot has been stored
    errs,     \* per goroutine: nil, or the error it stored
    running,  \* goroutines the WaitGroup still waits for
    asked,    \* what is asked for and found; never changes:
              \*   boards, the list; publishes, whether a board carries the
              \*   instrument; emptyKey; cacheOn, whether cache.ttl > 0
    result    \* of Item: pending, the board it found the instrument on, an error

vars == <<caller, ctx, out, errs, running, asked, result>>

Questions ==
    [boards: BoardLists, publishes: [Supported -> BOOLEAN], emptyKey: BOOLEAN, cacheOn: BOOLEAN]
Boards == asked.boards
Goroutines == DOMAIN Boards
Nil == Bare({})
Pending == [kind |-> "pending", board |-> 0, err |-> Nil]
FoundOn(i) == [kind |-> "found", board |-> i, err |-> Nil]
FailedWith(err) == [kind |-> "failed", board |-> 0, err |-> err]
NotFound == Rich("lookup", 0, 0, {"ErrNotFound"})

\* What load may fail with: see BoardFetch.
LoadFailures ==
    {Rich("fetch", 0, 1, {"ErrRequest"}),
     Rich("fetch", 503, 1, {"ErrUnexpectedStatus"}),
     Rich("fetch", 200, 1, {"ErrTooLarge"}),
     Rich("fetch", 0, 1, {"ErrRequest", "DeadlineExceeded"}),
     Rich("parse", 0, 0, {"ErrParse"}),
     Rich("parse", 0, 0, {"ErrEmpty"})}

\* Client.Fetch refuses a board it does not know.
UnknownMarket == Rich("fetch", 0, 0, {"ErrUnknownMarket"})

\* The error of a Fetch whose own context has ended: cache.do hands the context
\* error on as it is, without the cache the retry loop wraps it.
ContextFailure(e) ==
    IF asked.cacheOn THEN Bare({e}) ELSE Rich("fetch", 0, 1, {"ErrRequest", e})

FetchFailures(i) ==
    IF Boards[i] \notin Supported THEN {UnknownMarket}
    ELSE LoadFailures \cup (IF ctx = "nil" THEN {} ELSE {ContextFailure(ctx)})

Init ==
    /\ asked \in Questions
    /\ caller = "nil" /\ ctx = "nil"
    /\ out = {}
    /\ errs = [i \in Goroutines |-> Nil]
    /\ running = IF asked.emptyKey THEN {} ELSE Goroutines
    /\ result = Pending

\* Item looks an empty key up nowhere.
RefuseEmptyKey ==
    /\ asked.emptyKey
    /\ result = Pending
    /\ result' = FailedWith(NotFound)
    /\ UNCHANGED <<caller, ctx, out, errs, running, asked>>

FetchSucceeds(i) ==
    /\ i \in running
    /\ Boards[i] \in Supported
    /\ out' = out \cup {Boards[i]}
    /\ running' = running \ {i}
    /\ UNCHANGED <<caller, ctx, errs, asked, result>>

NotCancelled == ctx  \* mutant: the siblings are left alone
Cancelled == IF ctx = "nil" THEN "Canceled" ELSE ctx

\* errs[i] = err; cancel()
FetchFails(i, err) ==
    /\ i \in running
    /\ errs' = [errs EXCEPT ![i] = err]
    /\ ctx' = Cancelled
    /\ running' = running \ {i}
    /\ UNCHANGED <<caller, out, asked, result>>

\* The caller's own context ends, and with it the derived one.
CallerEnds(e) ==
    /\ caller = "nil" /\ result = Pending
    /\ caller' = e
    /\ ctx' = IF ctx = "nil" THEN e ELSE ctx
    /\ UNCHANGED <<out, errs, running, asked, result>>

\* The goroutines that stored an error.
FailedIfNoneFound ==  \* mutant: partial results are good enough
    IF out # {} THEN {} ELSE {i \in Goroutines : errs[i] # Nil}
Failed == {i \in Goroutines : errs[i] # Nil}

\* The snapshot of board i holds the key; a board not stored holds none.
Has(i) == Boards[i] \in out /\ asked.publishes[Boards[i]]

FirstHas(i) == Has(i) /\ \A j \in Goroutines : j < i => ~Has(j)

\* wg.Wait returned: join the errors, or look the key up board by board.
Return ==
    /\ ~asked.emptyKey
    /\ running = {} /\ result = Pending
    /\ result' =
         IF Failed # {} THEN FailedWith(Joined(errs))
         ELSE IF \E i \in Goroutines : Has(i)
         THEN FoundOn(CHOOSE i \in Goroutines : FirstHas(i))
         ELSE FailedWith(NotFound)
    /\ UNCHANGED <<caller, ctx, out, errs, running, asked>>

Next ==
    \/ RefuseEmptyKey
    \/ \E i \in Goroutines :
         \/ FetchSucceeds(i)
         \/ \E err \in FetchFailures(i) : FetchFails(i, err)
    \/ \E e \in ContextErrors : CallerEnds(e)
    \/ Return

Spec == Init /\ [][Next]_vars

\* A goroutine whose context has ended stops waiting; a board that is merely
\* slow may take forever.
HungBoardsSpec ==
    /\ Spec
    /\ WF_vars(Return)
    /\ \A i \in UNION {DOMAIN list : list \in BoardLists} :
         WF_vars(ctx # "nil" /\ FetchFails(i, ContextFailure(ctx)))

----------------------------------------------------------------------------
FailureType ==
    [rich: BOOLEAN, op: {"none", "fetch", "parse", "lookup"},
     status: Nat, attempts: Nat, wraps: SUBSET (Sentinels \cup ContextErrors)]

TypeOK ==
    /\ caller \in {"nil"} \cup ContextErrors
    /\ ctx \in {"nil"} \cup ContextErrors
    /\ out \subseteq Supported
    /\ errs \in [Goroutines -> FailureType]
    /\ running \subseteq Goroutines
    /\ asked \in Questions
    /\ result \in [kind: {"pending", "found", "failed"},
                   board: {0} \cup Goroutines, err: FailureType]

Done == result # Pending
FetchFailed == result.kind = "failed" /\ result.err # NotFound

\* It is all or nothing: an instrument or ErrNotFound is answered only from the
\* snapshots of every board asked for, and ErrNotFound only when none has it or
\* when nothing was asked for, which costs no fetch.
AllOrNothing ==
    Done /\ ~FetchFailed =>
        IF asked.emptyKey THEN out = {} /\ result.kind = "failed"
        ELSE /\ \A i \in Goroutines : Boards[i] \in out
             /\ result.kind = "failed" => \A i \in Goroutines : ~asked.publishes[Boards[i]]

\* The answer does not depend on which board came first: it is the first one in
\* the caller's order that publishes the key.
OrderedAnswer ==
    result.kind = "found" =>
        /\ asked.publishes[Boards[result.board]]
        /\ \A j \in 1..(result.board - 1) : ~asked.publishes[Boards[j]]

\* What Item answers is decided by what the boards publish alone, never by the
\* order in which they answered or by those that happened to arrive.
AnswerExact == AllOrNothing /\ OrderedAnswer

\* Cancelling the siblings never hides the reason: while the caller is still
\* there, the joined error wraps the sentinel of a board that really failed.
CauseKept ==
    FetchFailed /\ caller = "nil" =>
        \E i \in Goroutines :
            /\ errs[i].rich
            /\ errs[i].wraps \cap Sentinels # {}
            /\ errs[i].wraps \subseteq result.err.wraps

\* The first failure ends the whole call, whatever the slow boards do.
FailureEndsFanOut == (\E i \in Goroutines : errs[i] # Nil) ~> Done

\* No context but the one FetchAll made for itself has ended.
CallerStillThere ==
    /\ caller = "nil"
    /\ \A i \in Goroutines : "DeadlineExceeded" \notin errs[i].wraps

\* wiki/Errors.md:10-14 and :89: a failure of the site is answered with 502 by
\* the API, and with exit code 3, not the 0 of success, by the command line.
UpstreamFailureReported ==
    FetchFailed /\ CallerStillThere /\ ~Is(result.err, "ErrUnknownMarket") =>
        Classify(result.err).status = 502 /\ ExitCode(result.err) = 3
=============================================================================
