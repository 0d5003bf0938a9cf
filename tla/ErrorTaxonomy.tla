---------------------------- MODULE ErrorTaxonomy ---------------------------
(***************************************************************************)
(* The failures of the library and what its consumers read from them.      *)
(*                                                                         *)
(* An error is what errors.Is and errors.As can find in it: the sentinels  *)
(* of errors.go and the two context errors it wraps, and the *Error it     *)
(* wraps, if any, with its operation, upstream status and attempts.        *)
(* Messages are left out.                                                  *)
(***************************************************************************)
EXTENDS Integers, Sequences

Sentinels == {"ErrUnknownMarket", "ErrRequest", "ErrUnexpectedStatus",
              "ErrParse", "ErrEmpty", "ErrNotFound", "ErrTooLarge"}

ContextErrors == {"Canceled", "DeadlineExceeded"}

Is(err, target) == target \in err.wraps

\* An *Error, and a context error that travels without one.
Rich(op, status, attempts, wraps) ==
    [rich |-> TRUE, op |-> op, status |-> status, attempts |-> attempts,
     wraps |-> wraps]
Bare(wraps) ==
    [rich |-> FALSE, op |-> "none", status |-> 0, attempts |-> 0, wraps |-> wraps]

\* errors.Join keeps everything its parts wrap; errors.As finds the *Error of
\* the first part that has one.  errs is a sequence; a nil in it wraps nothing.
LastOnly(errs) ==  \* mutant: a single error variable
    errs[CHOOSE i \in DOMAIN errs :
           errs[i] # Bare({}) /\ \A j \in DOMAIN errs : j > i => errs[j] = Bare({})]
Joined(errs) ==
    LET rich == {i \in DOMAIN errs : errs[i].rich}
        first == CHOOSE i \in rich : \A j \in rich : i <= j
        all == UNION {errs[i].wraps : i \in DOMAIN errs}
    IN IF rich = {} THEN Bare(all) ELSE [errs[first] EXCEPT !.wraps = all]

----------------------------------------------------------------------------
\* (*Error).Temporary.
Temporary(err) ==
    /\ ~Is(err, "ErrParse")
    /\ ~Is(err, "ErrUnknownMarket")
    /\ err.status = 429 \/ err.status >= 500 \/ err.status = 0

\* The HTTP status and the code of an answer of the API: the first row, in the
\* code's order, one of whose sentinels the error wraps.  A context error
\* outranks the failures of the upstream.
Ranking == <<
    [of |-> {"ErrUnknownMarket"},     status |-> 404, code |-> "unknown_market"],
    [of |-> {"ErrNotFound"},          status |-> 404, code |-> "not_found"],
    [of |-> {"ErrParse", "ErrEmpty"}, status |-> 502, code |-> "upstream_changed"],
    [of |-> {"DeadlineExceeded"},     status |-> 504, code |-> "timeout"],
    [of |-> {"Canceled"},             status |-> 408, code |-> "timeout"],
    [of |-> {"ErrRequest", "ErrUnexpectedStatus", "ErrTooLarge"},
                                      status |-> 502, code |-> "upstream_unavailable"]>>

Classify(err) ==
    LET rows == {i \in DOMAIN Ranking : Ranking[i].of \cap err.wraps # {}}
    IN IF rows = {} THEN [status |-> 500, code |-> "internal"]
       ELSE LET row == Ranking[CHOOSE i \in rows : \A j \in rows : i <= j]
            IN [status |-> row.status, code |-> row.code]

\* isUpstream, and the exit code of the command line for an error of a fetch.
IsUpstream(err) == err.rich /\ err.op # "lookup"
ExitCode(err) ==
    IF Is(err, "Canceled") THEN 0
    ELSE IF IsUpstream(err) THEN 3
    ELSE 1
=============================================================================
