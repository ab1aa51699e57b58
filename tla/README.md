# A verification development of kalshi_arb

TLA+ modules of the program under `src/src/kalshi_arb/`, the TLC runs that check them on small
instances, and theorems about them that TLAPS checks for every value of the constants. Paths
below are relative to `src/src/kalshi_arb/`.

## The system

`kalshi_arb` is the data and pricing half of an arbitrage research platform: it reads the Kalshi
exchange over REST, records what it sees in SQLite, and computes contract payoffs and fees
exactly. Strategies, execution and the rest of `docs/ARCHITECTURE.md` are packages that hold a
docstring and no code.

| Component | State | Operations | What makes it correct |
|---|---|---|---|
| Rate limiter, `api/ratelimit.py` | per bucket: tokens, time of last refill, an `asyncio.Lock` | `acquire`, `available`, `wait_time` | concurrent callers never overdraw or exceed the burst; first come first served; nobody is left waiting; reads never delay writes |
| Request loop, `api/client.py:117-166` | `throttled_seconds`; locals of each call | `request` | retries pay the limiter; the exception says what happened; signatures are fresh; it ends |
| Listing, `api/client.py:171-205` | cursor, cursors seen, page count | `paginate` | every item once; no loop on a repeated cursor |
| Signer, `api/auth.py` | the key | `headers` | the signature carries the time of sending |
| Ingestion, `data/ingest.py` | the report of one sweep | `check_shards`, `sweep`, `capture_books` | faults are recorded before the data; a report vouches for what is in the file |
| Store, `data/storage.py` | one SQLite file, shared by processes | `transaction`, `record_*`, `upsert_*`, `counts`, `quote_history` | a sweep is all there or not at all; observations are only added; rows are stamped honestly; reference rows are current; what a reader has seen stays seen |
| Contracts, `contracts.py` | none | `basket_payoff_bounds`, `derive_ask`, ... | the worst case claimed is the worst that can happen |
| Markets and events, `markets/models.py` | none | `yes_bid_sum`, `tick_at`, `is_valid_price`, ... | the overround is an edge of `contracts.py`; the two views of the tick grid agree |
| Fees, `fees/model.py` and `types.py` | none | `calculate_fee`, `calculate_basket_cost`, `calculate_round_trip_cost` | fees are never understated; a trade costs the same however it is written |
| Configuration, `config.py` | none | `load_settings` | live trading takes three settings at once; a refusal is reported |
| Command line, `__main__.py` | none but the exit code | `health`, `ingest`, `books`, `stats` | nothing happens before the gate; the exit code tells the outcome; it ends |

How they interact: every command is a process of its own. It loads its settings and, if they are
accepted, `ingest` or `books` opens the file, creates one `KalshiClient`, and runs a `MarketIngestor`, which awaits `paginate` and `request`; those await
`acquire` of the limiter, then sign and send. Nothing is shared between processes but the file.
Within a process, coroutines may share one client, its limiter and its throttling total, and
interleave wherever one awaits.

What is hard: cancellation and wake-ups in the queue of an `asyncio.Lock` that is held over a
sleep; a retry loop around a limiter, with state read before an await and written after it; a
sweep that is several commits with a crash possible between any two; two processes over one
file; an interrupt that takes effect at the next await, if there is one; worst-case payoffs, per-order
rounding and the seams of a tick grid. `PROJECT.json` lists these hazards line by line
with the properties that cover each.

## Modules

| Module | Models | Uses |
|---|---|---|
| `TokenBucket` | what the limiter promises: buckets that fill continuously and are drawn from at once | |
| `RateLimiter` | `api/ratelimit.py` and the `asyncio.Lock` it uses | implements `TokenBucket` |
| `Client` | `request()`, by several coroutines | extends `TokenBucket` |
| `Paginate` | `paginate()` | |
| `ConfigGate` | `load_settings()`, as operators | |
| `CommandLine` | `__main__.py`: one command, from its settings to its exit code | extends `Paginate` and `ConfigGate` |
| `Archive` | what the capture file promises to its readers | |
| `Ingest` | `data/ingest.py` over `data/storage.py`, by several processes | implements `Archive` |
| `Basket` | `contracts.py`, the sum of bids of `markets/models.py`, `fees/model.py`, at work on one event | |
| `RoundTrip` | the tick grid, and a position of `Basket` closed before settlement | extends `Basket` |
| `TokenBucketProofs`, `RateLimiterProofs`, `ClientProofs`, `CommandLineProofs`, `ArchiveProofs`, `IngestProofs`, `BasketProofs` | theorems | extend the module they are named for, `BasketProofs` `RoundTrip` |
| `FoldLemmas` | lemmas on `FlattenSeq` and `SumFunctionOnSet`, which the models take from the community modules | |
| `MC...` | constants for TLC, and symmetry | extend the module they are named for, `MCBasket` `RoundTrip` |

`Client` stands on the abstract bucket, and `RateLimiter` implements that bucket; so the retry
loop is checked against what the limiter was shown to do, without its queue. In the same way
`Client!EveryRequestEnds` is why `Ingest` and `CommandLine` may assume that a request ends; and a reader
of the file may rely on `Archive`, which has no processes in it, because `Ingest` implements it.

In several modules a definition that nothing uses stands before the one it resembles
(`EnoughNextTick` before `Enough`): it is a plausible mistake in that code. `PROJECT.json` pairs
each with a property that fails when the mistake is put in the definition's place.

### RateLimiter and TokenBucket

An action runs from one `await` to the next, since nothing else can run between. `Call` is
`acquire()` up to its first await: it queues for the lock, or enters it and runs the loop body once.
`LoopBody` is one pass of `while True`, either `Grant` (consume, release the lock, return) or
`Sleep`. `EnterLock` and `Wake` are the two places where the coroutine resumes; `CancelWaiter` and
`CancelSleeper` the two where it can be cancelled; `Reject` is `_check_cost`; `Observe` is
`available()` and `wait_time()` called from outside, which refill and so change state. The lock is
CPython's: a release makes the first waiter runnable but does not give it the lock, a newcomer
takes the fast path only if the lock is free and nobody waits, and a cancelled waiter passes its
turn on.

Time is an integer clock, tokens are integers and `Rate` of them arrive in a tick. A sleep is the
deficit over the rate, rounded up to a tick, so `waited` counts what the program asks `sleep` for
in the same units. `EarlyWake` lets a timer fire up to so many ticks early, which floating point
and coarse timers do, and makes the loop go round again; `MaxLate` lets a due coroutine run late.
`TokenBucket` has no lock, no queue and no lazy refill: `Level` of `RateLimiter`, what a refill
*would* leave, is its level.

### Client

`pc` is `acquiring` while `acquire()` waits, `sending` while the request is on the wire and
`backoff` between attempts. `Attempt` is the head of the loop body: an `acquire` that need not wait
draws and sends in one step, for it never yields. Otherwise the value of `throttled_seconds` read
before the await is kept in `loaded` and written back by `Admit`. An answer is one of: 200, a
success whose body is not JSON (`response.json()` raises), 404 for the fatal statuses, 429, 500 for
the other retryable statuses, and no answer, for timeouts and transport errors. An httpx error that neither `except` names
ends a request as a body that is not JSON does, and is not told apart from it. One token is the
cost of one request: nobody passes another cost than the default, which fits every bucket, so the limiter's `ValueError` is `RateLimiter`'s subject only. `Admit` may serve waiters in any order and report any wait up to the time it
took: more than the limiter does, and enough for these properties.

### Paginate

Cursor `i` leads to page `i + 1`. An honest server may close a listing with no cursor or with a
cursor to an empty page; a hostile one answers every request with items or none and any cursor: one it has sent before, or one of
`Fresh`, which stands for a cursor never sent before, each time it is sent. There is no end of those. A page asked for by a fresh cursor adds nothing to
the histories `asked` and `yielded`, and `pages` is counted only under a limit, which is all that reads it: so endless listings are
behaviours of a finite model, and a run can tell which commands end. Two names are enough, for the server to change the cursor with every page.

`max_pages` is 0 for `None`; a real `--max-pages` of 0 or less acts as 1 does (`api/client.py:199`) and is not tried.

### CommandLine and ConfigGate

`ConfigGate` has no variables: `Environ` is what the process may find in its environment and its settings file, each
spelling of a kind standing for all, and `Misconfigured` and `SettingsOf` are what `load_settings` makes of it.
`CommandLine` is one process. `step` is what it does next: `LoadSettings`, `Banner`, then a command. `health` asks for the
status and then opens the file; `ingest` opens the file, asks for the status, lists page by page (`ReadPage` of `Paginate`),
audits, persists and records `sweep_complete`; `books` records a book a request, and both then close the client; `stats` counts.

`Raise` is any exception at any step: nothing catches it but the end of the process, with a traceback and exit code 1. The
first interrupt (`Interrupt`) makes `asyncio.run` cancel the command, which takes effect at its next await (`Cancelled`). All that
follows the listing, up to the client's `aclose()`, runs without one, so an interrupt there lets the sweep be persisted and vouched for and
still exits with 130 (`Return`); a second interrupt is immediate. Of what several commands do to one file, nothing is here: that is `Ingest`.

### Ingest and Archive

A capture is `CheckShards` (with the `exchange_inactive` record), `FetchPage` until the listing or
`max_pages` ends it, `Audit` of each market listed, `BeginTransaction`, `Write` for each market,
`Commit` and `Finish`; or `StartBooks`, `FetchBook` and `RecordBook`. Time may pass between any two,
and another process may work. `Pages` says what each page may list: the exchange has no snapshot, so a
market may appear on two pages, in two states. `StartCounts` and `EndCounts` are `counts()`, by a process of `stats` or `health`: each table is
a query, and so a snapshot, of its own. `QuoteHistory` is `quote_history()` below its limit.

The connection is in autocommit mode (`isolation_level=None`), so
every write outside `transaction()` is a commit of its own. Such a commit, and the first write in a
transaction, need SQLite's single write lock, `writer`.

`Abort` is any early end of a capture: a request that raises, a statement that fails (SQLite's busy
timeout included), with `ROLLBACK`; or an interrupt or a kill, which skip `ROLLBACK` because
`transaction()` catches `Exception` only, and which end the process, whereupon SQLite drops the open
transaction. Both leave the same file. `PowerLoss` takes the file back to any commit since the last
checkpoint, which is what WAL with `synchronous=NORMAL` allows; `wal` is the list of those states,
and the safety properties speak of every one of them. `upsert_event` is not a variable of its own: it is
written in the same transaction and overwrites by key like `upsert_market`.

`Archive` knows sweeps, not processes: a sweep fetches, flags a fault, is added whole under one timestamp if its faults are on
record, and is vouched for if it is there; the file may be synced, or go back to any of its states since. `ArchiveOf` maps the
tables to it -- the rows of a sweep are its slice, `invariant_violation` events its faults, `sweep_complete` events the vouchers
-- and the commits of `wal` to `past`. Markets, books and counts are not part of the promise.

### Basket

A behaviour takes one event, its book and one set of fee terms, buys legs one order at a time,
claims the payoff bounds of what it holds, and settles. A price unit is no coarser than any tick or
fee granule and `Granule` of them make one unit of `MemberPrecision`; all arithmetic is exact,
as the code's `Decimal` is. `Init` chooses every combination of the quantities below.

No code calls these functions in sequence yet, because `strategies` is empty. The order of `Buy`'s
steps is that of `calculate_basket_cost`, and its guards are what the docstrings ask of a
caller: an ask that somebody stands behind (`has_yes_ask`), a book that is not crossed
(`complement_invariant_holds` -- "callers route it to data quality"), a modelled fee. `PriceBasket` uses
`PARTITION` only for a basket of all the event's legs, since exactly one YES is a statement about all of
them. The exchange's side of the bargain, `Permitted`, is `Exclusivity`'s: at most one YES, exactly one, or
any number. A `FeeSchedule` has a fee type, a taker multiplier, an explicit maker multiplier or none, and a flat fee or none.
Fractional contract counts are left out. So is `yes_ask_sum` (`markets/models.py:287`): it adds the published `yes_ask`, a field of its own, which the code
never compares with the bids from which `contracts.py` derives asks; that the two are equal is a fact about the exchange.

### RoundTrip

`RoundTrip` goes on from a basket of one leg whose market is two-sided, and closes it before the event settles. These exits are a scenario: no code of the repository places an order yet, and the formulas they
apply (`derive_ask`, `tick_at`, `calculate_round_trip_cost`) are what is modelled. `HitBid` sells at the bid;
`Hedge` buys the other side at its ask, so that one of the two contracts pays whatever happens; `Offer` rests a sale at the ask, which in a locked book is the bid and is not rested on it, `StepDown`
lowers it by `tick_at` of its price while it stays above the bid, and `Fill` is somebody taking it. `Bands` is
`price_ranges`: bands that adjoin, each a whole number of its ticks wide, with a coarse one between two fine ones. The book stands still
meanwhile: what the properties say is about the arithmetic of an exit, and a book that moves would add gains and losses that no formula
could be blamed for.

## Runs

Run `tlc -config <cfg> <module>`. Each finishes in about a minute or less.

| Run (`.cfg`) | Question | Bounds, and why they are enough |
|---|---|---|
| `RateLimiter` | Does the limiter implement the bucket, and are its buckets independent? | 2 buckets of different rate, 2 coroutines, costs that fit, do not, and are not positive; 2 ticks: one coroutine sleeps in one bucket while the other uses either |
| `RateLimiterLock` | Is the lock's queue sound under cancellation and unpunctual timers? | 1 bucket, 3 coroutines: an owner, a first waiter and one behind it, the least in which a wake-up can be lost or a queue jumped; a timer a tick early, a coroutine up to two ticks late |
| `RateLimiterLive` | Does every call end? | 3 coroutines; the clock runs long enough to serve all calls begun |
| `RateLimiterReport` | Does `acquire` return its whole wait? | 2 coroutines. **Violated** |
| `Client` | Budget, outcomes, signatures, termination | 2 coroutines, 1 retry, a bucket of one token, so that every retry competes for it; every answer at every attempt, cancellation at every await |
| `ClientThrottled` | Is the throttling total a total? | 2 coroutines. **Violated** |
| `Ingest` | What is in the file after failures, and is it an `Archive`? | 1 process, 2 markets, a second page that may list the first market again, crossed or not, 2 captures: a capture after one that died; 2 instants, so that a page, a commit and a row may differ in time |
| `IngestOverlap` | What do two processes do to each other? | 2 processes, 1 market, 2 captures that may overlap anywhere, one of the two counting rows meanwhile |
| `IngestLatest` | Is a reference row the latest? | 2 processes, 1 market. **Violated** |
| `IngestShards` | Is a paused shard's market not tradeable? | 1 process, 1 market. **Violated** |
| `CommandLine` | Does the gate hold, does the exit code tell the outcome, does it end? | every mode, flag and environment in every combination, tier and file one at a time; every command; 3 pages, 4 cursors and the fresh ones, limits from 1 to one past the end, honest and hostile servers; 2 books; exceptions and interrupts anywhere |
| `Basket` | Are the bounds, fees, ticks and exits sound? | 3 legs; bids of nothing, 0.35 and 0.65, so that books are empty, one-sided, two-sided, locked (the two bids add up to the notional) and crossed; 1 or 3 contracts; every fee type and role, an explicit maker multiplier and a flat fee; all legs tradeable or one paused; 3 bands, of 2.5, 5 and 2.5 cents, so that offers cross both edges |

Deadlock is checked wherever the system runs on. `Client`, `CommandLine` and `Basket` describe finite
work and stop, so their configurations say `CHECK_DEADLOCK FALSE`; the limiter's clock stops at
`MaxTime`, but `Observe` is always possible.

### What the properties say

*Limiter.* `ImplementsTokenBucket`: lazily refilled buckets under a lock are indistinguishable from
continuously filled ones drawn from atomically. `NoOverdraw`: tokens stay in `0..Capacity`. `LockDiscipline`:
the owner of a lock is the one coroutine asleep in it, the queue is the waiters, once each, and a
free lock with waiters has woken the first of them. `SleepsExactly`: a sleeper's timer is due when its
tokens are there, or sooner by `EarlyWake` at most, and not a tick later, however late the coroutine resumes. `FifoService`: whoever is granted was first
in line. `WaitsOnlyForOwnBucket`: a call never queues because of the other bucket ("a burst of
market-data reads can never delay a cancel"). `EveryCallEnds` is its liveness.

*Client.* `RequestBudget`: attempts on the wire, retries included, stay within burst plus rate times
time. `OutcomeExplained`: what is returned or raised follows from the list of answers met.
`SignsWhenSent`: a private request carries a signature made in the step that sends it, a public one
none. `ThrottledNeverOverstates` is what is left of `throttled_seconds`: it is never too high.
`EveryRequestEnds` is its liveness.

*Ingest.* `SweepAtomic`, `CompleteMeansPersisted` and `CrossedIsFlagged` relate the three commits of a
sweep in every state a power loss can go back to: rows are whole and in order, a market listed twice is there twice, a
`sweep_complete` has its rows, a crossed row has its fault. `NoLookahead`: a row is never stamped before what it shows was true.
`AppendOnly`: observations are only added, after those that are there, but for a power loss. `ImplementsArchive` is the whole promise as a
refinement; it adds the order of the steps to what the invariants say of the states, and that a slice is
never touched again. `LatestStateIfAlone`: without overlapping captures the markets table is as new as any quote in
the file. `HistoryGrowsIfAlone`: without them, `quote_history` only grows at its end, so a replay is
repeatable; with them it is not, since rows are stamped before `BEGIN`. `ReportCoherent`: although `counts()` is not one snapshot, it never reports more
markets than quotes, because it counts the markets first. `EveryCaptureEnds` is the liveness.

*CommandLine.* `GateFailsClosed`: live exactly if mode, flag and environment say so; otherwise what was asked for or paper, with a
refusal on record if it was live. `GateBeforeAction`: no request and no file before the settings are accepted and a refusal is shown.
`NoCursorTwice`: no page is asked for twice. `ExitTellsOutcome`: exit code 0 of `ingest` means that all that was listed is in the file,
complete, and no fault or paused shard was met. `WholeListingOrNothing`: from an honest server the file has every item once and in order, up to the limit, or nothing.
`EveryCommandEnds` is the liveness. It has one exception, which is the code's: an unlimited listing that nobody interrupts, of a server that has items and a new cursor with
every page (`ListsForEver`). A limit ends that listing, and so does an interrupt. The exception is needed: with
`<>(exit # Running)` alone TLC finds a listing that goes from one fresh cursor to the next for ever.

*Basket.* `SettlesWithinBounds`: however the event settles, the payoff lies within the bounds.
`BoundsAttained`: each bound is reached by some settlement. `OverroundIsEdge`: the overround of
`models.py` equals the guaranteed edge that `contracts.py` has for a basket of every NO leg on offer. `FeesCoverRaw`: rounded fees cover the formula and exceed it
by less than a granule an order.

*RoundTrip.* `OffersOnGrid`: stepping an offer by `tick_at` never leaves the prices `is_valid_price` accepts, across the seams of bands, where
the two consult different bands. `RoundTripLosesSpread`: no exit makes money on the book it was entered on, and crossing costs exactly the
spread, by either way out. `ExitsCostTheSame`: nor do the two ways differ in fees.

### Fairness

- *Limiter* (`RateLimiter!FairSpec`): the clock advances, and the event loop runs what is due: weak
  fairness of `Tick`, and of `EnterLock` and `Wake` of each coroutine. Nobody is obliged to call or cancel.
- *Client*: tokens arrive while somebody lacks them, the limiter serves whoever waits
  (`EveryCallEnds`), httpx answers or times out (`timeout=10.0`), and the backoff timer fires. Nothing says the server
  answers well. Each coroutine makes finitely many attempts, so weak fairness is enough.
- *Ingest*: a process that can go on does. A capture that waits for the write lock relies on the holder's
  finishing or dying, not on the busy timeout, which `Abort` allows but does not oblige.
- *CommandLine*: the process goes on (weak fairness of `Progress`, which is every step but `Raise` and `Interrupt`), since requests end.
  Nobody is obliged to interrupt, and no exception is obliged to happen.

### Where the program departs from what it says

The four violated runs each check a sentence of the source or its tests:

1. `api/ratelimit.py:137`: `acquire` "returns how long it waited". The count starts at line 143, inside the
   lock, so time in its queue is left out: of two callers that arrive together, the second reports only
   its own sleep.
2. `api/client.py:95`: `throttled_seconds` is the "cumulative time spent waiting". Line 143 reads the
   attribute before the await and writes it after, so concurrent waits overwrite one another.
3. `data/storage.py:38`: "latest state per key". An overlapping sweep that fetched first and commits last puts the
   older state back, and stamps it with the newer `updated_at`.
4. `data/ingest.py:6-7`: a market on a paused shard "is not tradeable". `_audit` counts it.

Others, met while reading and not the subject of a run: "a server-side cursor bug must not spin forever" (`tests/test_client.py:131`), and the guard at `api/client.py:202`
catches the repeated cursor which the test sends, but not new cursors for ever, and `--max-pages` is off by default (this is the exception of
`EveryCommandEnds`); `request` raises status 503 for
exhausted retries whatever was met (`api/client.py:166`), while `KalshiAPIError` is documented as "a non-retryable API
error, carrying the status" (line 43); the comment at `api/ratelimit.py:98` gives one second of burst to
"Basic-tier write buckets, and Read buckets above Advanced", while the code gives it to both
buckets of Basic and to no other; an unknown `KALSHI_API_TIER` and a settings file that is not YAML raise what the command
line does not turn into a configuration error, so both end in a traceback and exit code 1, which `ingest` also returns for a data fault;
under an interrupt in its last steps a sweep is in the file, complete, although the exit code is 130; `fees/model.py:102` speaks of rounding fee plus position
cost, and the code rounds the fee; `tick_at` is documented to return `None` off the grid and
looks only at the band, and at a seam gives the step below, which is wrong for a step up; `check_shards` reports no inactive shard, and the sweep is healthy, under an exchange-wide halt whose
status lists no shards; `quote_history` past its limit returns the oldest rows (`data/storage.py:356`).

## Proofs

Run `tlapm` on `FoldLemmas` and the seven `...Proofs` modules. Every safety invariant and action property that a passing
run checks is also a theorem, for all values of the constants; so are the two refinements.

The assumptions are the named `ASSUME`s of the modules. They are facts about what the constants stand for: rates, capacities, notional and
granule are positive, costs are integers, prices lie in `0..Notional`, an event's legs and the markets are finitely many, a fee schedule's terms are natural
numbers or absent, bands adjoin and are whole numbers of ticks wide, no bid is below them, no page of an honest listing is empty, and
the model values (`NoProc`, `NoRow`, `NoSettings`, ...) are none of the values they stand beside. Nothing bounds
the number of coroutines, buckets, retries, processes, legs, bands, sweeps, markets, pages, cursors or observations. No theorem has a hypothesis of its own. No law of a library operator is
assumed: `FoldLemmas` proves those that are needed.

**The limiter.** `RateLimiter!IInv` is inductive (`InvariantHolds`). It is `TypeOK`, `NoOverdraw` and
`LockDiscipline` with two more parts, without which it is not inductive: `RefillPast`, that no bucket was
refilled in the future (otherwise `Level` could fall below the tokens, and a refill could take tokens away), and
`CallsFit`, that a call in progress asks for something positive that fits (otherwise a grant could add tokens or leave a debt).
The lemmas go from sequences (what appending to, removing from and taking the tail of a queue without duplicates leaves),
through one pass of the loop body, which `CallIsInside`, `EnterLockIsInside` and `WakeIsInside` reduce its three callers to, to
one lemma per action. `TypesHold`, `NeverOverdrawn` and `LockIsSound` are projections of it.
`TimersAreExact` adds to `IInv` the arithmetic of the wait, rounded up, which a refill by an observer must leave as it is;
`ServedInOrder` and `OwnBucketOnly` follow from `IInv` step by step: the owner of the lock heads the line, and whoever leaves the
queue without a grant leaves it for itself only.

`LimiterImplementsBucket` maps the abstract level to `Level`: a tick of the clock is a `Pour`, a grant a `Draw`, and all
else leaves the level alone -- a refill, notably, because `Level` after it is `Level` before it (`LevelAfterWrite`). It needs
`IInv` for `RefillPast` and for the grant's positive cost.

**The bucket.** `BucketKeepsBudget`: the abstract bucket never yields more than burst plus rate times
time. Its invariant says that what was yielded and what is left together are within the budget. `LimiterKeepsBudget` is the same of the
limiter, by an `INSTANCE` of `TokenBucketProofs` under the refinement mapping.

**The request loop.** Three invariants, since the three subjects do not depend on each other. `LoopInv`: where a call is in its loop
follows from the answers it has met, and what a finished one returned is explained by them (`OutcomesAreExplained`, and with it the
types). `PaidInv`: what was sent is what was drawn from the bucket, whose own invariant it takes from `TokenBucketProofs`
(`BudgetIsKept`). `WaitInv`: the total, and whatever a caller has read of it before its await, are no more than has been waited by all
(`NeverOverstated`); the read value must be in the invariant because it is written back later. `SignedWhenSent` is a
property of each step.

**The archive.** `PromisesKept` is about every state the file may go back to, which is why its invariant, `Inv`, is stated of all
of `past`: each of those files keeps the promise with respect to what was fetched. That a fetch, a flag, an addition and a voucher keep it are
lemmas of their own; `Sync` and `Lose` only choose among files that have it. Its other part, `Agree`, is that where a file of `past` has a
slice the present file has the same; without it a power loss could exchange one slice for another, and `SlicesAreFinal` would not follow.

**Ingestion.** `IngestInv` is inductive, and stated of `Files`, all that `wal` holds, since a power failure may make any of them the file. Its parts:
`TypeInv`, with what each point of the program has in hand; `CaptureInv`, that captures have numbers of their own, that what one has in hand is what its
sweep has seen (`Gathered`), that the crossed books its audit has passed are on record (`Audited`), and that its sweep is in no file before `Commit` and in the
file after (`Placed`); `FileInv`, that each file's rows are stamped after what they show, flagged, and of markets it lists; and `CountInv`, for the
counts half read. `FilesStep` says once and for all what a step can do to the files: nothing, add an event, a book or a whole sweep, or forget some of them.
`CrossedAreFlagged`, `NothingFromTheFuture`, `CountsAreCoherent` and `RowsAreAppended` come from there.

`IngestIsAnArchive` is the refinement, one lemma per action: a fetch is a `Fetch`, the audit of a crossed book a `Flag`, `Commit` an `Add`, `Finish` a
`Vouch`, `Checkpoint` a `Sync`, `PowerLoss` a `Lose`; all else stutters. `SweepsAreAtomic` and `CompleteIsPersisted` are then not proved again: they are what
`ArchiveProofs`, instantiated under the mapping, says of the slices, read back in terms of rows. That one slice is whole is not enough there, so `Slice` is
the file from the first row of a sweep to the last: a stray row of another in between would show.

`LatestIfAlone` adds `AloneInv`: as long as captures have not overlapped at most one is under way, it has seen nothing older than what is in the file, and each file's
markets are its latest. `RowsInTimeOrder` adds `OrderInv`: rows are in the order of their timestamps, and the sweep being written is stamped no earlier than the last of them.
`HistoriesGrow` follows: the rows of a sweep come after those of every earlier time, whose part of the history they leave alone (`ShownInTurn`,
`HistoryGrows`, and `FlattenPrefix` of `FoldLemmas`).

**The command.** `CursorsAreSentOnce` rests on `CursorInv`: what was asked is without repetition and drawn from the cursors seen, of which
the one in hand is asked next. `TheGateFailsClosed` and `TheGateComesFirst` rest on `GateInv`, which says for each step of the command what has
been loaded, shown and touched by then. `ZeroMeansSuccess` rests on `OutcomeInv`, which says the same of the listing, the rows and the exit
code: a process that is over with 0 has been through `Close` uninterrupted. `CommandTyped` puts `PagesInv` (a listing that goes on is short of its limit), `StepInv` and
`FlagInv` together. `AllOrNothing` rests on `ListingInv`, that what an honest server has yielded is the listing's first pages, and
`RowsInv`, that rows are either none or what was yielded by a listing that ended.

**The basket.** `BoundsAreSound` and `BoundsAreTight` rest on counting: of a basket of `n` legs, those that pay are the ones that resolved YES, or `n`
less those, and `Permitted` bounds them (`PayingLegs`, `PermittedYes`) and allows either extreme (`SomeSettlement`). `ClaimInv` says that a priced basket's
bounds are those of what it holds, and that what has settled is within them. `FeesAreCovered` rests on `Ceiling`, that rounding up one order covers it by
less than one unit, and `OneMoreOrder`, that covered orders add up; `FeeInv` adds the types. `OverroundIsGrossEdge` rests on `EdgeInv`, what has been paid so far
as a sum of quotes, and on `ZerosDoNotCount`: legs without a bid, which `bid_sum` includes and no basket does, add nothing.

**The round trip.** `TripIsABasket` makes every theorem of `Basket` one of `RoundTrip`. `TripInv` adds that a position is one order of one leg, and that an exit
was priced on the book of the entry; with it `SpreadIsLost` and `ExitFeesAgree` are arithmetic. `OffersStayOnGrid` is about seams: `FirstBandHolds` and `StepStaysOnGrid`
show that the band `tick_at` finds for a price is one whose step leads to another price of the grid, whether or not that price is in the same band.

**Folds.** `FlattenSeq` and `SumFunctionOnSet` are recursive functions under a `CHOOSE`. `FoldLemmas` shows that the function exists and is unique, by induction in the form
of a least counter-example (`LeastElement`, from the well-foundedness of `<` on `Nat`), and then the laws: a sequence more is one more at the end; a leg more adds its price,
whichever the fold picks first.

**Only model-checked.** Liveness is beyond the prover: `EveryCallEnds`, `EveryRequestEnds`, `EveryCaptureEnds` and `EveryCommandEnds` are checked by TLC
alone, on the bounds above. So are, of course, the violated properties.

## Not modelled

Pydantic's validation, RSA signing and key loading, SQL and JSON text, HTTP and the connection pool,
printing and argument parsing. Floating-point error of tokens and delays is not modelled either, except as timers that
fire early. Endpoint wrappers that fetch one object change no state. `implied_probability`, `effective_price`, `spread`, `mid`, `yes_ask_sum`, `floor_to` and
`quantize_money` are one expression each, without a caller; so are `Credentials.from_env`, `Settings.decimal` and `upsert_series`. Contract counts are whole, and
`quote_history` is modelled below its limit. The reserved packages hold no code: whatever the documents say of strategies and execution has no counterpart yet.

## What could follow

1. `quote_history()` with its limit: the model stops short of it, and what it returns past 1000 rows (`data/storage.py:356`) is stated above but not checked.
2. The steps liveness rests on, as theorems: that the first in a bucket's line is served when its timer fires, and that `pages` and a variant of the request loop only grow
   toward their bounds. They are safety, and would leave only the fairness argument to TLC.
3. A limiter and a client in one module, to check the refinement that now joins them on paper: `Client` over `RateLimiter` instead of `TokenBucket`.
