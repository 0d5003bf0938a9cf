# tgju-api-go: specifications, model checking and proofs

TLA+ modules for the Go library, HTTP service and command line that read the
price boards of tgju.org. Each module is translated from the source files named
in its header; this file says how the parts fit, what TLC checks, what TLAPS
proves and what is left out.

    tlc -workers 2 -config Cache.cfg SnapshotCache
    tlapm SnapshotCache_proofs.tla

## 1. Inventory

| Component | State | Operations | What is hard | What makes it correct |
| --- | --- | --- | --- | --- |
| Snapshot cache (`cache.go`) | map of entries under a mutex; per entry a `ready` channel, expiry and outcome; one detached goroutine per fetch | `do`, `settled`, `invalidate`, the goroutine | reads after the unlock, `close(ready)` after the unlock and so between two reads of the channel under the lock, a leader that walks away, an invalidation during a fetch, expiry while followers wait | fetches of a market never overlap, unless an invalidation separates them; answers are published, of the right board, not stale, not from before an invalidation; nobody sees another caller's cancellation; every channel somebody waits for is closed; a cancelled caller gets away |
| Board fetch (`transport.go`, `Client.load`) | attempt, pause, deadline | `get`, `try`, `retryable`, `sleep`, parse | the deadline landing inside a pause or a request; which failures are repeated; what the error counts | bounded by one deadline; spaced as the code doubles and caps the pause; nothing permanent is repeated, nothing transient given up without a reason; attempts counted |
| Fan-out and lookup (`Client.FetchAll`, `Item`) | one goroutine per board, a shared context, the stored errors | fetch, fail and cancel, join, look up | the first failure cancels the others and their errors join its own | all or nothing; order independent of completion; an empty key is looked up nowhere; the real cause survives; a failure ends the call |
| Error taxonomy (`errors.go`, `render.go`, `main.go`) | none | `Temporary`, `classify`, exit code | joined errors satisfy several sentinels at once | a failure of the site is reported as one |
| Rate limiter (`server/middleware.go`) | token bucket per client, time of the last collection | `allow`, `sweep` | a collected bucket comes back full | rate kept over every window, with what collecting gives away; idle buckets go; only a client that stayed away is forgotten |
| Request pipeline (`server.go`, `middleware.go`, `metrics.go`, `render.go`) | per request its context, recorder, answer; the metrics series | the middleware chain, handlers, `observe`, the recoverer | the order of the chain; a panic unwinding past it; status recorded versus status sent; contexts that end in three ways | metrics match the wire; every answer is traceable; handlers end |
| Service lifecycle (`cmd/tgju/serve.go`, `main.go`) | listener, error channel, base context, exit code | listen, signal, select, `Shutdown` | the signal ends the context of the requests that are being drained; the select's race; the grace | nobody is left unanswered on a clean exit; the process ends |
| Watch loop (`cmd/tgju/commands.go`) | last printed price, its client's cache | poll, print, pause, leave | polls against a cache of half the interval, fetches that outlive the poll that began them, failures remembered by the cache, an interrupt at any point | no poll re-reads memory; every line is a change; a change is shown at last; Ctrl-C ends it with success |
| Configuration (`cmd/tgju/flags.go`, `options.go`) | flags, environment, options | parse, check, apply | flag over variable over default, words between flags, options that overwrite each other | the settings that were asked for, or exit code 2 |
| HTTP caching (`server.go`, `middleware.go`, `handlers.go`) | none of its own; an edge's store | `Cache-Control`, CORS with `Vary`, `/readyz` | two caches in a row, answers kept for one site and given to another, errors that are kept | staleness within two lifetimes; no error kept; no foreign permission |
| Scraper (`internal/scrape`, `internal/dom`, `convert.go`) | none | find the tables, read the header's layout, rows to items | reordered, renamed and missing columns; rows that are no prices; a page that is no board | the snapshot is the board that was published, row by row and column by column; what is missing is missing and never another column |
| Number formats (`internal/numfmt`, `amountOf`) | none | digits, values, changes | three scripts, separators, a change that is a percentage, an amount, both or unfinished | a number is the one that was written; nothing is invented |
| Handlers (`server/handlers.go`, `legacy.go`, `tgju get`) | none | filters, lookup, legacy shapes, readiness | blank and padded filters, a caption the filter empties | exactly what was listed and asked for, through every interface |
| Output (`cmd/tgju/output.go`) | none | units, grouping of thousands, rows | a tenth of an odd amount, zeros on either side of the point, a dash | the amount printed is the amount read, in the unit asked for |
| Documentation pages, development tools, examples | none at run time | – | – | *not modelled, see section 8* |

How they interact: a handler calls `Client.Fetch`, `FetchAll` or `Item` with the
context of its request; the fan-out calls `Fetch` once per board under a context
of its own; `Fetch` goes through the cache, which runs the board fetch in a
goroutine cut loose from the caller's context; what comes back is either a
snapshot or an error, which the server turns into a status and the command line
into an exit code. The limiter, the metrics and the cache are the state requests
share; everything else belongs to one request.

## 2. Modules

| Module | Models | Correspondence |
| --- | --- | --- |
| `SnapshotCache` | `cache.go` | `entries` is the map, `entry` the heap of entries by address, `worker` the detached goroutines, `call[c].pc` where a caller is in `do`. One action per critical section (`Hit`, `Lead`, `Publish`, `Invalidate`), one per unlocked step (`Close`, `Wake`, `LeaderReturn`, `GiveUp`). The switch of `do` asks `e.settled()` twice (:56 and :59), and the close (:90) needs no lock: a caller whose first case read an open channel is "checked" (`SeeOpen`), holds the mutex (`Locked`), and reads the channel again, to `Follow` if it is open still and to `Lead` if it closed in between. `EndContext` and `Tick` are the environment. `epoch`, `calls`, `began`, `published`, `since`, `asked` are history. |
| `CachedFetch` | the promise of `Client.Fetch` | per market a reading that is cold, loading, written or held; no entries, channels or goroutines. A written reading is one whose channel is still to be closed: the one moment at which a fetch may begin although the reading is good. `SnapshotCache` implements it by `AbstractMemo` and `AbstractRequest`. |
| `BoardFetch` | `transport.go`, `Client.load` | `TryEnds` is one pass of the loop body after a request, `Resume` and `SleepCut` the two ways a pause ends, `Parse` the rest of `load`. The site's answers are `TryResults`. |
| `FanOut` | `Client.FetchAll`, `Client.Item` | `errs[i]` and `out` as in the code, `ctx` the derived context, `asked` the fixed inputs of a behaviour. `RefuseEmptyKey` is the early return of `Item`. A call of `Fetch` is what it may return, see `BoardFetch` and `SnapshotCache`. |
| `ErrorTaxonomy` | `errors.go`, `classify`, `isUpstream`, the exit code | an error is the set of sentinels it wraps and, if it is an `*Error`, its fields. |
| `RateLimiter`, `TokenBucket` | `rateLimiter` | `Allow` is `allow` with the `sweep` it calls. Tokens are counted in whole units. `TokenBucket` is a bucket per client, with no map and no moment of a collection, that may be forgotten only after an interval without a request. |
| `Watch`, `CommandLine` | `tgju watch` | EXTENDS one another: `CommandLine` reads the arguments one by one (`ReadArg`, `Refuse`, `Accept`), `Watch` is the loop over the memo `SnapshotCache` implements, one per board, and the cancellation of `FanOut`. `Interrupt` and `SiteChanges` are the environment. `fresh`, `lastRead` and `lines` are history. |
| `EdgeCache` | the headers a CDN acts on, `handleReady` | the same memo, with ages; `Keep` is `cacheControl`, `Permits` and `Varies` are `cors`, `ReadyStatus` the probe. `FromEdge` and the store are external. |
| `Output` | `cmd/tgju/output.go`, `Amount.Toman` | EXTENDS `NumberFormats`; `Render` is `unit.render` over `FormatFloat`, `Row` a row of `tgju get`. |
| `NumberFormats` | `internal/numfmt`, `amountOf` | a text is a sequence of code points, a number the literal given to `ParseFloat`. |
| `Scraper` | `internal/scrape`, `dom.Text`, `convert.go`, the rest of `load` | `LayoutOf` is `parseHead`, `ReadRow` with `IsPrice` is `parseRow`; the steps are `Tables`, one table at a time, and the assembly of the snapshot. |
| `BoardQuery` | the board handlers, `filterCategories`, `legacy.go`, `tgju get` | EXTENDS `Scraper` and `Output`: one question is answered from the snapshot or from the error, see `ErrorTaxonomy`. |
| `MarketPage` | external: tgju.org | a board and a style of rendering become a page: order and captions of the columns, script and grouping of the numbers, links, rows that are no prices. |
| `RequestPipeline` | the middleware chain, recorder, metrics, recoverer | `Chain` is the slice built in `build`; the way down has no wait and is one action (`Arrive`), the handler, the write, the way up and a panic are steps. A handler panics before or after it has written; `sent` is the recorder's flag, by which only the first header counts, and `early`, history, says that a request was accepted before the signal. |
| `ServeLifecycle` | `serve`, `main` | EXTENDS `RequestPipeline`; `base` is the context the signal ends and the base context of every request. |
| `MCFanOut`, `MCScraper`, `MCServeLifecycle`, `MCWatch` | – | lists of boards, pages, kinds of requests and command lines for TLC. |
| `SnapshotCache_proofs`, `BoardFetch_proofs`, `FanOut_proofs`, `RateLimiter_proofs`, `ServeLifecycle_proofs`, `Watch_proofs`, `EdgeCache_proofs`, `Scraper_proofs` | – | inductive invariants, lemmas and theorems, see section 5. |

Definitions marked `mutant` are wrong variants of the definition that follows
them: a dropped guard, a missing cap, a swapped order. No specification uses
them; putting one in place of its original makes the property named for it in
`PROJECT.json` fail, which shows that the property sees that mistake.

## 3. Runs

| Run | Instance | Shows |
| --- | --- | --- |
| `cache` | 2 callers of whom one may walk away, 3 calls, 1 board, 3 entries, TTL 1, failure TTL 2, timeout 1, clock to 1, one invalidation | `AnswerNotStale`, `AnswerAfterInvalidation`, `FetchesApart`, `AnswerIsPublished`, `NoWaitForgotten`, `NoForeignCancellation`, that the cache implements `CachedFetch` (`ImplementsPromise`), and `CancelledReturns` |
| `fetch_retries` | 4 attempts, pauses of 1, 2 and then 3, the cap, for 4; deadline 9, four refusals, a caller that may leave | `WithinTimeout`, `AttemptsCounted`, `RetriesExhausted`, `JudgedAlike`, `RequestsSpaced`, `PauseCapped`, `LoadReturns` |
| `fanout_item` | the three boards in order, and a list with a repeated and an unsupported board, cache on and off, an empty key, every set of boards that publish the key | `AnswerExact`, `CauseKept`, and `FailureEndsFanOut` although boards may hang |
| `scraper` | 120 orders of the columns with every set of three or more known captions, tooltips that name another column, unknown and additional columns, short rows; 3 scripts, 5 groupings, 2 decimal points, spaces, split cells; 6 kinds of links, 4 of rows between; change cells of every text up to 4 runes of 7 | `EmptyReported`, `InstrumentsKept`, `ColumnsKept`, `NothingInvented`; 80 questions with blank, padded, repeated and unknown filters: `SelectionExact`, `LegacyFaithful`; every number in every unit: `UnitsAgree` |
| `limiter` | 2 clients, rate 3, burst 10, cost 2, collection every 2, clock to 4 | `RateHeld`, `IdleCollected`, and that the limiter implements `TokenBucket` (`ImplementsBucket`) |
| `serve` | 2 requests of 5 kinds, all optional middlewares, metrics kept, 1 latency bucket and what exceeds it, panics before and after the answer is written | `Accounted`, `CleanExit`, and the liveness properties `HandlerEnds`, `Stops` |
| `watch` | 20 command lines, 2 boards, 2 prices, intervals 4 and 5 (half of them is not whole), failure lifetime 1, deadline 6: longer than an interval | `SettingsHonoured`, `PollsIndependent`, `LinesAreChanges`, `InterruptEnds`, `ChangeShown` |
| `edge` | 2 sites of which one is allowed, a reader without an origin, a probe; TTL 5, failure TTL 2, seconds of 2, deadline 3 | `EdgeWithinTwoLifetimes`, `ErrorsShortLived`, `NoForeignGrant` |
| `fanout_reported`, `serve_traceable`, `serve_drain`, `edge_max_age` | as above | disagreements of code and documents, section 7 |

Why the bounds are enough. In the cache two callers make a leader and a
follower, the follower becomes a leader after an invalidation or when the close
overtakes it, and a third call meets what the first two have left; a third entry
is what lets an old fetch, a new one and an expired answer coexist. Only one
caller's context ends, so that the other one shows what its cancellation does to
bystanders. A clock to
the TTL reaches the expiry of what was fetched at its start, a failure TTL above
it makes the smaller of the two count (the other order is in the runs `watch` and
`edge`, and in the proofs), and a timeout of 1 lets a fetch straddle the
invalidation and the expiry. The safety properties are also proved for any
numbers, so the run guards the model and the proofs guard the bound. Entries are
handed out lowest address first, because the code never looks at an address. One
board suffices: boards share nothing but the mutex and `Invalidate()`, and the
proofs cover any set. Four attempts reach the first pause, the doubled one and
the capped one. In the limiter a burst above what the rate yields in an interval
is the case in which collecting gives something away (`WithRateLimit` accepts any
rate and burst), a rate the cost does not divide leaves remainders, and a clock
to 4 holds two collections. One latency bucket tells a latency that fits from one
that does not. Two requests
are enough for two to meet in the metrics and for one to outlast the other in
the drain.

The loop of `watch` and the edge need no bound on time: ages and remaining times
are counted down, so both run for ever in finitely many states. A deadline longer
than an interval is what makes a fetch outlive the poll that began it; an odd
interval is what makes half of it lose a unit. Seconds of two units make
`max-age` smaller than the TTL, as truncation does.

The scraper is one computation per page, so its run is a list of pages. Its
families vary one thing at a time (columns, numbers, rows, change cells): the
code handles them in different functions that share no variable but the layout.
The numbers have groups, fractions and leading zeros, and one is missing.

Bounds in the modules: `MaxRaw` (scraper), `MaxTime`, `MaxEpoch` and `MaxCalls`
(cache), `MaxTime` (limiter), the finite `Requests` (each is sent once), `Kinds` (HEAD is handled as GET is, so GET
stands for both). None of the others is a bound of the model: `MaxAttempts`,
`Backoff`, `Timeout` and the like are the program's own parameters.

Deadlock is checked at the edge, where time or the site can always go on.
`BoardFetch`, `FanOut`, `Scraper`, `ServeLifecycle` and
`Watch` describe one call or one process that ends, the limiter's clock is
bounded, and the callers of the cache stop when `MaxCalls` calls have been made,
so deadlock is not checked there: that the former
do end is what `LoadReturns`, `FailureEndsFanOut`, `Stops` and `InterruptEnds` say,
and that nobody in the cache waits for nothing is `NoWaitForgotten`.

## 4. Fairness

* Cache (`HungUpstreamSpec`): `CallersFair` is strong fairness of each caller's own
  steps, because the mutex may be held by others again and again and Go's mutex
  hands over to a starving waiter; and strong fairness of `GiveUp`, because a
  `select` with two ready cases picks one at random and does not neglect
  `ctx.Done` for ever. No fairness is assumed of the fetches, which may hang.

  That every call returns is *not* claimed, and is not so: a follower that wakes
  goes back to the map (`continue`, `cache.go:64`), and where the entry has been
  invalidated or has expired before it gets there, and another caller has led a
  new fetch meanwhile, it follows that one; repeated, this never ends. What holds
  is that the entry it waits for is always on its way (`NoWaitForgotten`) and
  that the end of its context ends the wait (`CancelledReturns`).
* Board fetch (`FairSpec`): weak fairness of `Next`: timers fire, and a request
  ends at the latest with its context. The site is not assumed to answer.
* Fan-out (`HungBoardsSpec`): only `Return` and the failure of a board whose
  context has ended are fair. A board that merely is slow may take for ever.
* Service (`FairSpec`): the goroutine of `serve`, the deadline of the timeout
  middleware and a handler whose context has ended. Neither the upstream nor a
  client that reads slowly is fair: `WriteTimeout` is minutes, longer than the
  grace.
* Watch (`RunningSpec`): the program's own steps only, so `InterruptEnds` holds
  with a site that hangs. `ChangeShown` names what it needs besides,
  `UpstreamFair`: timers fire and every fetch ends, which its deadline sees to. A
  change is one that lasts, `<>[](site = p)`: a price that comes and goes between
  two polls is rightly missed.

## 5. Proofs

Every theorem is for all values of the constants, under the named assumptions of
its module (`DurationsAssumption` and `NullsAssumption`; `PolicyAssumption`;
`BoardsAssumption`; `LimiterAssumption`; `ChainAssumption`;
`SettingsAssumption` and `WatchAssumption`; `EdgeAssumption`;
`PublicationsAssumption` and `RequestsAssumption`). They ask that
durations are natural numbers, that the stand-ins for "nothing" are none of the
values, that the requests of a server are finitely many, and that what the site
publishes is a board in one of the renderings `MarketPage` describes. Each proof
module
has one lemma per action or group of actions, and its theorems follow from an
inductive invariant, `IInv` in most, because no property is inductive as it
stands.

**Cache** (`SnapshotCache_proofs`): `TypeCorrect`, `Collapsing` (`FetchesApart`),
`NeverStale`, `Invalidation`, `Detachment`, `Publication`, `NobodyForgotten`
(`NoWaitForgotten`), `Implements` (`ImplementsPromise`). That fetches do not
overlap depends on which entry is registered, and that an answer is fresh depends
on the entry a caller has been waiting on since before. `IInv` adds

* `RegisteredOK`: a registered entry is of its market and of the market's
  current epoch;
* `LifeOK`: how `worker`, `outcome`, `ready`, `published` and `expires` go
  together during the life of an entry;
* `SupersededOK`: an entry of the current epoch that is not registered had
  settled, expired or not, before it was replaced;
* `LockOK`: one caller at most is between the two reads of a channel, and its
  market keeps the entry meanwhile, since whoever writes the map needs the mutex;
* `DetachedOK`: no fetch honours a caller's context;
* `CallOK`: per `pc`, what a caller knows of the entry it is on.

`Implements` is the refinement: under `AbstractMemo` and `AbstractRequest` every
step of the cache is one of `CachedFetch` or none. `Publish` is `Finish` while its
entry is registered, `Close` is `Announce`, and both stutter after an
invalidation, when nobody but the leader learns of it. A fetch begins (`Begin`)
where a caller finds the market cold or the reading over, and there `Begin` is
`Lead`; or where the close overtakes a caller between its two reads, and there
`Begin` is `Close` itself, which is what `Overtaken` and `Replaced` are for, and
the `Lead` that must follow is a stutter. `SeeOpen`, `Follow` and `Wake` stutter.

**Board fetch** (`BoardFetch_proofs`): `TypeCorrect`, `Bounded` (`WithinTimeout`),
`Counting` (`AttemptsCounted`), `Persistence` (`RetriesExhausted`), `Agreement`
(`JudgedAlike`), `Spaced` (`RequestsSpaced`), `Capped` (`PauseCapped`). `InTime` says that before the deadline the context is alive and
after it is not; `Counted` how many requests have gone out at each `pc`;
`Pausing` that only a retryable failure is slept on; `Ended` what the result was
made of. `Spaced` needs `Spacing` besides, when the last request was sent and when
the next one is due, and that the pauses, `Backoff` times a power of two, double
(`PauseDoubles`): the prover knows nothing of powers but that the first is one, so
the lemma goes through the sets of pairs of which the power is made. `Spaced` is
what the code does, for every policy: the first pause is `Backoff` whatever the
cap. `Capped`, what `options.go:50` promises, is therefore proved only for
policies without a cap or with `Backoff <= MaxBackoff`, and says so.

**Fan-out** (`FanOut_proofs`): `TypeCorrect`, `Exactness` (`AnswerExact`),
`Causality` (`CauseKept`). The order of completion disappears because an answer is
given only when every goroutine has settled (`Settled`, `Answered`). `CauseKept` rests on `Live` (while nothing has
failed and the caller is there, the shared context is alive), so the first
failure is a real one, and on `Reason`, which keeps it. `Idle` says that a lookup of
an empty key asks nobody.

**Limiter** (`RateLimiter_proofs`): `TypeCorrect`, `RateIsHeld` (`RateHeld`),
`RateIsKept`, `IdleAreCollected` (`IdleCollected`) and the refinement `Implements`
(`ImplementsBucket`). All but `RateIsKept` are for every rate, burst, cost and
interval, since `WithRateLimit` accepts any. `RateHeld` does not see what is left
in a bucket, so the inductive `Held` bounds *spent plus level* by *burst plus what
has come in*. What comes in per interval is `Yield`: what the rate yields or,
where that is less, a whole burst, because a bucket that is collected comes back
full; `RefillFits` and `FillFits` say that either fits. `Spread` keeps every
bucket within an interval of the last collection. With a rate of one request an hour and
a burst of ten a client does get its burst back every ten minutes, and `RateHeld`
allows for it. `RateIsKept` is the bound of a bucket that is never forgotten,
*burst plus rate times window*, for configurations in which a bucket fills within
an interval: the defaults (20 per second, 40, ten minutes) do by far.

**Service** (`ServeLifecycle_proofs`): `Accounting` (`Accounted`), `CleanEnd`
(`CleanExit`), with the metrics on or off. `Progress` says, per position of a
request, what it has recorded and what is on the wire: in particular that a
request which unwinds has recorded the status it sent. `Counters` and one lemma
on cardinalities (`CountOne`: counting a request more) carry the metrics through
`observe`. `Draining` says that the channel's nil comes only after `Shutdown`,
and that an exit code of 0 leaves nothing in flight.

**Watch** (`Watch_proofs`): `Independence`
(`PollsIndependent`), `Changes` (`LinesAreChanges`), `Settled`
(`SettingsHonoured`), `NothingElseEnds`. `Pinned` keeps the cache's lifetime at half an interval at
most. `Aging` says that during a pause what is left of a reading an earlier poll
has seen, plus the part of the interval that has passed, fits in that lifetime:
at the end of the pause nothing of it is left. `Shown` ties the lines to the last
price read and to the loop's own variable. `Settled` is about a command line of
any length: `ReadSoFar` says that the arguments read are a prefix without a
mistake, and that every flag has the value of the last one of its name in it.
`NothingElseEnds` is what of `InterruptEnds` is safety: no failure of the site
ends the loop.

**Edge** (`EdgeCache_proofs`): `Staleness`, `Outages`, `Grants`. `Memorised` ties
the age of a reading to what is left of it, `Remembered` bounds the age of what
the edge holds, and says that it is a success and permits only the site it is
kept for. The rest is that a whole number of seconds of a TTL is at most the TTL.

**Pages and answers** (`Scraper_proofs`): `NothingPublishedReported`
(`EmptyReported`), `EveryInstrumentKept` (`InstrumentsKept`), `EveryAnswerExact`
(`SelectionExact`), `EveryValueUnderItsCaption` (`ColumnsKept`),
`NoDigitInvented` (`NothingInvented`), `LegacyTexts` (`LegacyFaithful`),
`UnitsPrinted` (`UnitsAgree`). The runs check these on a few boards; the theorems
are for boards of any length, with any rows between the instruments, columns in
any order, numbers of any length in any of the scripts, and questions of any words.

* `ReadInv` is the invariant, and it is simple: the tables read are the first of
  the page, a result is `Outcome`, an answer is `Reply`. What is hard is what
  these are, and that is induction over texts and lists. Since the prover has no
  induction rule with a predicate, it is done with sets: the numbers (or lists) a
  formula holds for are a set, and the least one outside it is impossible
  (`Least`, `NatInduct`, `SeqInduct`).
* Every operator of the model that goes through a list is brought to three:
  `Image` (the same done to each element), `Only` (the elements in a set) and
  `FlattenSeq`. `ItemsAre` then says that the items of a snapshot are the image of
  the instruments listed, row by row: junk rows are filtered out because
  `IsPrice` fails on each of them, and tables without rows drop out. Every kind
  of answer is the image of those of them a question asks for (`Exact`).
* The `Ink` of a text is what of it can be told of a number: digits of any script,
  points, signs and parentheses, in the digits and signs of a program. Grouping, spacing, invisible runes,
  collapsing, trimming, cleaning and a number split into elements leave the ink as
  it is (`InkOfClean`, `CellInk`), `Value` and `Change` depend on nothing else
  (`ValueOf`, `ChangeIs`, `ChangeNot`), and what the site writes has the ink of
  its number (`RenderedInk`).
* `LayoutIs` says that the column of a field is the one its caption stands over,
  or the historical one when fewer than three captions are known; that the order
  is then the site's as well is an assumption on `Styles` (see section 6).

* `Worth` is what a sequence of digits stands for. `PrintedIs` says that dropping
  the zeros that `FormatFloat` drops leaves the number (`IdleDropped`: a dropped
  digit is one that weighs nothing on its side of the point), `ThousandsInk` that
  the separators are no ink, so what is printed reads as the number it was made of
  (`ThousandsRead`); a toman is a zero in front and the point one place further
  left (`ZeroFirst`, `TenthRead`). With the amounts of the columns, which keep both
  the number and the text it was read from (`Exactly`), this gives `UnitsPrinted`.

**Model-checked only.** The liveness properties, which are beyond the prover.
Every invariant
and every action property of a passing run is a theorem.

## 6. Abstractions

* Time is a natural number. A step of the program takes none, except in
  `SnapshotCache`, where any amount may pass between two steps.
* A fetch in the cache ends within `Timeout` of its start (`Tick` does not pass a
  running fetch's deadline). Only the progress of time uses it.
* Two calls of `settled` under the lock are two steps where the first one found the
  channel open. Where it found it closed the second one does too, and both are one.
* A freed entry's address may be used again; its last contents stay readable.
* `SnapshotCache` is a cache that is on. With a TTL of zero `cache.do` is a plain
  call of the fetch under the caller's own context, which `FanOut` (`cacheOn`) and
  `BoardFetch` (`Detached`) cover.
* `Watch` and `EdgeCache` use the memo that `SnapshotCache` is shown to implement
  and not the cache itself; invalidation is left out, since neither calls it.
* A command line is a sequence of flags, words and mistakes. Flags that only say
  where to read and what to log are left out; so is `--`, and that the parser
  takes what follows it as words. A pause of `watch` begins when a poll has ended.
* An edge follows `max-age` and `Vary` and nothing else, and does not make two
  requests into one. The age of an answer on its way is left out: steps take no
  time.
* A page is its tables. A market table nested in another, a `th` or a `thead`
  inside a cell and a span inside a span are not rendered by the site and left
  out. A board with fewer than three known captions is rendered in the historical
  order: the code can only assume it, and with any other order swaps silently.
* A number is a decimal literal; `float64` rounding is not modelled.
* An error is what `errors.Is` and `errors.As` see; messages are left out.
* The limiter counts whole units instead of `float64` tokens: a rate of 0.3 is
  3 units per second at a cost of 10. Rounding of floats is not modelled.
* A panic lets a handler's answer stand if it was written before: `net/http`
  ignores the recoverer's 500 then. `http.ErrAbortHandler` drops the connection,
  whatever was written: its client has no whole answer.
* The runs of the service keep metrics; that without them nothing is owed or
  counted is covered by the proofs alone.
* A write to a client either ends or does not; whether bytes arrived is not
  observed. Bodies that fail to marshal are left out, as are the response headers
  `EdgeCache` does not name.
* `Shutdown` and `ListenAndServe` are external: modelled from how `serve` uses
  them and what their documentation promises.

## 7. Where code and documents disagree

| Run | Code | Document |
| --- | --- | --- |
| `fanout_reported` | a failing board cancels the others; `context.Canceled`, joined to the cause, wins: 408 from the API, exit code 0 from the command line (`render.go:99`, `main.go:79`) | `wiki/Errors.md:10`, `:89` |
| `serve_traceable` | a panic is logged and answered without a request identifier, and has no line in the access log and no count (`middleware.go:94`, `:155`) | `wiki/Running-the-Service.md:102`, `middleware.go:146` |
| `serve_drain` | SIGTERM ends the base context, so a request that was accepted before the signal and waits for a board is answered 408 instead of being drained (`serve.go:60`) | `wiki/Running-the-Service.md:106`, `serve.go:18` |
| `edge_max_age` | `max-age` is the client's whole TTL, however old the snapshot is (`server.go:151`), so a reader behind a CDN sees prices of up to two lifetimes | `README.md:340` "max-age=<remaining TTL>", `wiki/Running-the-Service.md:93`, `wiki/Deployment.md:129` |

Met while modelling, without a run:

* A caller may fetch a board anew although a reading that has just arrived is in
  the map: `do` asks `settled` in two cases (`cache.go:56`, `:59`) and the channel
  may close in between (`:90`), so neither is taken. `cache.go:36` says that the fetcher
  "is called at most once per cache miss", and `:39` "when the cache is cold or
  stale". The two fetches do not overlap (`FetchesApart`); `SeeOpen`, `Close`,
  `Lead` is the way there.
* A bucket that takes longer than `sweepInterval` to fill comes back full after a
  client's idle interval, so a low rate with a high burst is exceeded
  (`middleware.go:325`; `server/options.go:77` "the per client rate in requests per
  second").
* A follower woken after an invalidation waits for a second fetch, so one call
  lasts longer than the timeout (`cache.go:64`; `options.go:124`).
* A caller that leaves gets the bare context error, not an `*Error`
  (`cache.go:66`; `tgju.go:51`).
* A connection that drops inside the body of a 200 is not retried and its error is
  not `Temporary` (`transport.go:100`, `errors.go:95`), although the comments on
  both count a failing connection as transient (`transport.go:109`,
  `errors.go:85`).
* 408 is retried, and the error it leaves is not `Temporary`; `JudgedAlike`
  excepts it.
* The first retry pause ignores `MaxBackoff` (`transport.go:29` before `:33`), which
  `options.go:50` calls the cap of the pause: with `Backoff` above `MaxBackoff`
  `PauseCapped` fails at the first pause, see `Capped`. A pause cut by the deadline reports no upstream status
  (`transport.go:30`).
* `Temporary` is true for `ErrEmpty` (`wiki/Errors.md:14`).
* An answer to a request without `Origin` carries neither
  `Access-Control-Allow-Origin` nor `Vary` (`middleware.go:234`): an edge that
  keeps it gives it to an allowed page, which its browser then blocks. `Matching`
  has this behaviour; no permission leaks by it.
* A readiness probe whose deadline ends is answered 504, where
  `wiki/Running-the-Service.md:99` knows 503 only.
* Every flag "can also be set as TGJU_<FLAG>", but `--keys`, `--category`,
  `--market` and `--all` have no variable; and a variable that is set to nothing
  counts as unset, so `TGJU_CORS=""` does not switch CORS off
  (`wiki/Running-the-Service.md:80`).
* A percentage written with a sign stays negative (`numfmt.go:74`) although
  `snapshot.go:70` says "always positive".
* With two known captions out of five the historical order overrides them
  (`scrape.go:156`), although the order is "read from the header rather than
  assumed" (`scrape.go:82`).
* The comment on the chain in `server.go` leaves out `readOnly`.

## 8. What is left

Modelled and checked: everything in the table of section 1 but its last line.
Parts of modelled components that are left out, and why:

* Of the server: redirects, the market list, the OpenAPI and documentation pages
  and the text of the metrics exposition. They answer from constants, or print
  the numbers `Accounted` is about.
* Of the library: options that only assign a value (`WithUserAgent`,
  `WithHTTPClient`, ...) and the accessors of `Snapshot` other than its lookup.
  Their values are the constants of the modules.
* Of the command line: columns, arrows, colours and the JSON form, which are
  layout; `tgju markets` and `tgju version`.
* `html.Parse` is external, as are the client and the server of `net/http`.

Not modelled: the documentation pages, the development tools under
`internal/cmd`, the test fixtures and the examples. They keep no state and no
part of the service depends on them.

Worth doing next: the same refinement for the memo of `EdgeCache` and `Watch`,
which is `CachedFetch` with ages and has been compared with it by reading only;
and a limiter whose `Retry-After` is part of the answer.
