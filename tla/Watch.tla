-------------------------------- MODULE Watch --------------------------------
(***************************************************************************)
(* tgju watch, commands.go: poll one instrument until interrupted, and     *)
(* print a line whenever its price changed.  A poll is Client.Item over    *)
(* every board; the client's cache is the loop's own, pinned to half the   *)
(* interval, and its fetches are detached: one may outlive the poll that   *)
(* began it and be met by a later poll.                                    *)
(*                                                                         *)
(* The cache is the memo SnapshotCache is shown to implement, FetchAll the *)
(* one of FanOut.  Steps of the program take no time; fetches and pauses   *)
(* do.  Ages and remaining times are counted down, so that the loop runs   *)
(* for ever in finitely many states.  fresh, lastRead and lines are history.*)
(***************************************************************************)
EXTENDS CommandLine

CONSTANTS
    Boards,      \* the boards Item looks through
    Home,        \* the one the instrument is on
    Prices,      \* what it may cost
    Timeout,     \* deadline of one fetch
    FailureTTL,  \* failureTTL of cache.go
    NoPrice,     \* not on the board, or nothing printed yet
    Down         \* the site cannot be read

ASSUME WatchAssumption ==
    /\ Home \in Boards
    /\ Timeout \in Nat \ {0}
    /\ FailureTTL \in Nat \ {0}
    /\ NoPrice \notin Prices /\ Down \notin Prices /\ NoPrice # Down

VARIABLES
    site,         \* what the site shows now: a price, NoPrice or Down
    memo,         \* the loop's cache, per board
    answers,      \* per board, what the goroutine of FetchAll has
    wait,         \* what is left of the pause
    interrupted,  \* ctx is done
    previous,     \* the variable of that name
    lastRead,     \* history: the price of the last successful poll
    lines         \* history: the last two price lines

loop == <<memo, answers, wait, previous, lastRead, lines>>
vars == <<pc, settings, exit, site, interrupted, loop>>

Interval == flags["interval"]
TTL == client.cacheTTL

----------------------------------------------------------------------------
(* The cache. *)

Unread == [state |-> "none", left |-> 0, ok |-> FALSE, price |-> NoPrice, fresh |-> FALSE]
Fetching == [state |-> "fetching", left |-> Timeout, ok |-> FALSE, price |-> NoPrice,
             fresh |-> FALSE]

Lifetime(ok) == IF ~ok /\ FailureTTL < TTL THEN FailureTTL ELSE TTL

\* What a fetch of b leaves behind when it ends now.
Reading(b) ==
    [state |-> "held", left |-> Lifetime(site # Down), ok |-> site # Down,
     price |-> IF b = Home /\ site # Down THEN site ELSE NoPrice, fresh |-> TRUE]

\* The same memo one unit of time later, and once the current poll has ended.
Older(m) ==
    [state |-> m.state, left |-> IF m.left = 0 THEN 0 ELSE m.left - 1, ok |-> m.ok,
     price |-> m.price, fresh |-> m.fresh]
Used(m) ==
    [state |-> m.state, left |-> m.left, ok |-> m.ok, price |-> m.price, fresh |-> FALSE]

Good(b) == memo[b].state = "held" /\ memo[b].left > 0
OnlyCold(b) == memo[b].state = "none"  \* mutant: what expired is not replaced
MustFetch(b) == memo[b].state # "fetching" /\ ~Good(b)

----------------------------------------------------------------------------
(* A poll. *)

WatchInit ==
    /\ CommandInit
    /\ site \in Prices \cup {NoPrice, Down}
    /\ memo = [b \in Boards |-> Unread]
    /\ answers = [b \in Boards |-> "waiting"]
    /\ wait = 0 /\ interrupted = FALSE
    /\ previous = NoPrice /\ lastRead = NoPrice /\ lines = <<>>

Waiting(b) == pc = "polling" /\ answers[b] = "waiting"

\* Nothing good is held: a fetch begins, even under a context that is done.
Lead(b) ==
    /\ Waiting(b)
    /\ MustFetch(b)
    /\ memo' = [memo EXCEPT ![b] = Fetching]
    /\ UNCHANGED <<pc, settings, exit, site, interrupted, answers, wait, previous,
                   lastRead, lines>>

\* The detached fetch ends, whoever still waits for it.
Publish(b) ==
    /\ memo[b].state = "fetching"
    /\ pc # "exited"
    /\ memo' = [memo EXCEPT ![b] = Reading(b)]
    /\ UNCHANGED <<pc, settings, exit, site, interrupted, answers, wait, previous,
                   lastRead, lines>>

Answer(b) ==
    /\ Waiting(b)
    /\ Good(b)
    /\ answers' = [answers EXCEPT ![b] = IF memo[b].ok THEN "ok" ELSE "failed"]
    /\ UNCHANGED <<pc, settings, exit, site, interrupted, memo, wait, previous,
                   lastRead, lines>>

\* The context of FetchAll has ended: by the user, or by a board that failed.  A
\* goroutine whose fetch ends in the same moment may take either; leaving then is
\* leaving just before the fetch ended.
OwnCancel == \E b \in Boards : answers[b] \in {"failed", "cancelled"}  \* mutant
Cancelled == interrupted \/ \E b \in Boards : answers[b] \in {"failed", "cancelled"}
Abandon(b) ==
    /\ Waiting(b)
    /\ memo[b].state = "fetching"
    /\ Cancelled
    /\ answers' = [answers EXCEPT ![b] = "cancelled"]
    /\ UNCHANGED <<pc, settings, exit, site, interrupted, memo, wait, previous,
                   lastRead, lines>>

Found == (\A b \in Boards : answers[b] = "ok") /\ memo[Home].price # NoPrice

\* The last two of the price lines once p has been printed.
Printed(p) == IF lines = <<>> THEN <<p>> ELSE <<lines[Len(lines)], p>>

\* Whether a price is worth a line.
Always(p) == TRUE  \* mutant: nothing is compared
News(p) == flags["all"] \/ p # previous

\* Item returned: a line for a price that is new, one for an error, or the end.
PollEnds ==
    /\ pc = "polling"
    /\ \A b \in Boards : answers[b] # "waiting"
    /\ IF interrupted /\ ~Found
       THEN /\ Exits(0)
            /\ UNCHANGED loop
       ELSE /\ pc' = "pausing" /\ wait' = Interval
            /\ memo' = [b \in Boards |-> Used(memo[b])]
            /\ lastRead' = IF Found THEN memo[Home].price ELSE lastRead
            /\ IF Found /\ News(memo[Home].price)
               THEN /\ previous' = memo[Home].price
                    /\ lines' = Printed(memo[Home].price)
               ELSE UNCHANGED <<previous, lines>>
            /\ UNCHANGED <<answers, exit>>
    /\ UNCHANGED <<settings, site, interrupted>>

\* The select: either way when both are ready.
PauseEnds ==
    /\ pc = "pausing"
    /\ wait = 0
    /\ pc' = "polling"
    /\ answers' = [b \in Boards |-> "waiting"]
    /\ UNCHANGED <<settings, exit, site, interrupted, memo, wait, previous, lastRead, lines>>

Leave ==
    /\ pc = "pausing"
    /\ interrupted
    /\ Exits(0)
    /\ UNCHANGED <<settings, site, interrupted, loop>>

----------------------------------------------------------------------------
(* Everything else. *)

Interrupt ==
    /\ pc \in {"polling", "pausing"}
    /\ ~interrupted
    /\ interrupted' = TRUE
    /\ UNCHANGED <<pc, settings, exit, site, loop>>

SiteChanges ==
    /\ site' \in (Prices \cup {NoPrice, Down}) \ {site}
    /\ pc # "exited"
    /\ UNCHANGED <<pc, settings, exit, interrupted, loop>>

\* Time passes while there is something to wait for and nothing to do.
Idle ==
    \/ /\ pc = "polling" /\ ~Cancelled
       /\ \E b \in Boards : answers[b] = "waiting"
       /\ \A b \in Boards : answers[b] = "waiting" => memo[b].state = "fetching"
    \/ pc = "pausing" /\ wait > 0 /\ ~interrupted
Tick ==
    /\ Idle
    /\ \A b \in Boards : memo[b].state = "fetching" => memo[b].left > 0
    /\ memo' = [b \in Boards |-> Older(memo[b])]
    /\ wait' = IF wait = 0 THEN 0 ELSE wait - 1
    /\ UNCHANGED <<pc, settings, exit, site, interrupted, answers, previous, lastRead, lines>>

Parsing == (ReadArg \/ Refuse \/ Accept) /\ UNCHANGED <<site, interrupted, loop>>

Program ==
    \/ Parsing
    \/ \E b \in Boards : Lead(b) \/ Answer(b) \/ Abandon(b)
    \/ PollEnds
    \/ PauseEnds
    \/ Leave

Upstream == Tick \/ \E b \in Boards : Publish(b)

Next == Program \/ Upstream \/ Interrupt \/ SiteChanges

Spec == WatchInit /\ [][Next]_vars

\* The program runs; nothing is said of the site, and a pause may last.
RunningSpec == Spec /\ WF_vars(Program)

\* What a person who waits for a change relies on beyond that: timers fire and a
\* fetch ends by its deadline.
UpstreamFair == WF_vars(Tick) /\ \A b \in Boards : WF_vars(Publish(b))

----------------------------------------------------------------------------
(* What makes the loop correct. *)

\* commands.go:138, polling faster than the cache would just re-read memory: no
\* poll is answered with a reading, or a failure, that an earlier poll had
\* already seen the end of - not even by a fetch that outlived its own poll.
PollsIndependent ==
    pc = "polling" => \A b \in Boards : answers[b] \in {"ok", "failed"} => memo[b].fresh

\* What is on the screen is the last price read, and without --all no price is
\* printed twice in a row, whatever errors, missing instruments and cancelled
\* polls lie between.
LinesAreChanges ==
    /\ lines # <<>> \/ lastRead # NoPrice => lines[Len(lines)] = lastRead
    /\ ~flags["all"] /\ Len(lines) = 2 => lines[1] # lines[2]

Started == flags["unit"] = Unset

EndedByUser == pc = "exited" /\ Started => interrupted /\ exit = 0

\* Ctrl-C ends the loop with success even while the site hangs, and nothing else
\* ends it.
InterruptEnds ==
    /\ interrupted ~> pc = "exited" /\ exit = 0
    /\ []EndedByUser

\* A price the site keeps is shown at last, whatever failures were remembered
\* and whatever fetches were in flight when it came.
ChangeShown ==
    UpstreamFair =>
        \A p \in Prices :
            <>[](site = p) =>
                <>[](pc = "exited" \/ (lines # <<>> /\ lines[Len(lines)] = p))
=============================================================================
