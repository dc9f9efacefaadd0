# TLA+ verification of tradewizz

tradewizz is a stock screener with a FastAPI backend (`backend/app`) and a
Flutter app (`tradewiz/lib`). This project specifies the backend's stateful
services, the order paths to real accounts, the caches that the pages are served
from and the rules that turn indicators into scores and advice; it model-checks
them with TLC and proves the core with TLAPS.

Contents: [inventory](#inventory), [modules](#modules),
[the simulated portfolio](#the-simulated-portfolio),
[the stop-loss monitor](#the-stop-loss--take-profit-monitor),
[the OHLCV cache](#the-ohlcv-cache), [user services](#user-services),
[live orders](#live-orders), [pages](#pages), [runs](#runs),
[what is proved](#what-is-proved), [findings](#findings),
[observations](#observations), [not modelled](#not-modelled), [plan](#plan).

## Inventory

FastAPI runs synchronous endpoints in a thread pool, so every service below is
entered by several threads at once. Each SQLite or JSON store guards a single
call with a lock; a handler that makes several calls is not atomic.

| component (under `backend/app` unless noted) | state | operations | what is hard | what makes it correct |
|---|---|---|---|---|
| `market_session` | none (schedule table, clock) | session state, trading date | window and weekend boundaries | a trading date never runs ahead of the clock |
| `simulation/` | SQLite: account, positions, trades, pending orders | preview, place, settle, cancel, reset, portfolio reads | several commits per handler, threads, stale reads, crash between commits, next-open settlement | never overdrawn or short, ledger equals log, an order fills at most once and never on a known price |
| `moomoo/` service | momentum ledger, process locks | preview, place, cancel | guards checked on a snapshot, ambiguous broker failures | caps hold up to the orders in flight |
| `moomoo/sltp` | JSON brackets | attach, cancel, monitor tick (loop and on demand) | two tickers, outage seen as an empty account, crash between order and mark | a bracket sells once, only what is held |
| `moomoo/equity_tracker`, `momentum/sleeves` | hourly points in JSON | record, read | a point recorded late, two savers of one file | the newest hours, one point each; a file that stays whole |
| `momentum/` | JSON ledger, rebalance clock | tagged orders, basket buy, rebalance preview, schedule | ledger and broker drift apart, calendars that end in the past | the sleeve sells only what it bought, due is due |
| `broker/` (Moomoo OpenD), `brokers/` (IBKR) | tokens, recent orders, gateway lock, linked brokers | preview, place, read, cancel, link | check-then-act duplicate guard, token expiry, a client id that lingers | no order without a fresh confirmation, no duplicate in the window, one connection |
| `cache` (OHLCV) | CSV and sidecar per key, key locks, write-time index | get, cached-only read, clear, index | two files per entry, lock-free readers, day roll-over, failed leader | yesterday's series is never served as today's, one fetch per need |
| `cache_layer/` | TTL entries, per-key locks | get or build | slow and failed builds, forced reads | a page never goes back in time |
| `screener_cache/` and warmer | rows per market and close, probe memo, cooldown, run lock | read, rebuild, warm, prewarm | memo kept across a write, herd, restart | a run only for a write, a hidden write only for a reason |
| `snapshots/`, `cdn/` | section files, objects, manifest | build, guarded put, publish | partial publish, lost uploads, restart | a manifest names what was stored |
| `subscription/`, `auth/` | user, tier and usage rows | register, sign in, upgrade, gates, daily limit | check-then-act in every handler | one account per address, paid features within the term, overruns only in flight |
| `notifications/` | inbox rows, last-seen values | refresh, list, mark | two requests swap one last value | a change reaches an inbox |
| `auto_watchlist/`, `journal/` | SQLite rows | suggest, apply; entries closed by sales | repeated applies, detached threads out of order | no repeats beyond what is in flight, oldest closed first |
| `engine`, `scoring`, `explore` | two shared attributes | screen, analyze, cached score, pages cut from a screen | workers share an attribute, caps and penalties compose | thin stocks are not lifted, a cut page is the page |
| `radar/`, `rotation/` | none | rank, recommend, stance | rows carry a raced flag | no illiquid name is recommended |
| `portfolio/` | snapshots of a user's total | sum over the linked brokers, performance, snapshot | a worker per broker, a deadline, links that change meanwhile | a broker that is missing from the sum is named |
| `portfolio_health/`, `portfolio_manager/`, `rebalance/` | none (read holdings and scores twice) | health, report, decisions | trades between two reads, thresholds of three services | no advice from a placeholder, no two pages that contradict each other |
| `news/`, `market/`, memories of `main`, `snapshots` | one entry each, some with a fallback | get | failed fetch over a good entry, a first wrong level | a good reading is not lost to a failure, except of the news, the overview and the scores |
| Flutter `cache/`, `cdn/`, `snapshot/`, `services/`, `state/` (`tradewiz/lib`) | local stores | SWR streams, manifest sync, load and save | async load racing a write | not modelled |

Interactions: `main.py` wires the engine's cache-only prices and opens into the
simulation, and the simulation's `positions` into the health, rebalance,
rotation, radar and brief features, so opening one page of the app makes several
concurrent requests that each settle pending orders. Radar, rotation, brief and
advice read the screener's snapshot; writes of the OHLCV cache drive its rebuilds;
the scheduler puts sections together from all of them and the publisher sends
those to object storage.

## Modules

| module | models | extends |
|---|---|---|
| `MarketSession` | `market_session.py`: session state and trading date; the daily bars that exist at an instant | |
| `SimPortfolio` | `simulation/service.py`, `store.py`, `router.py`: every endpoint, one step per store call | `MarketSession` |
| `SimLedger` | what the portfolio promises: a ledger with indivisible operations | `MarketSession` |
| `SimRefinement` | the refinement mapping from `SimPortfolio` to `SimLedger` | `SimPortfolio` |
| `MoomooSltp` | `moomoo/sltp.py` over `moomoo/service.py`: the bracket file, the ticks, the owner, the broker | |
| `OhlcvCache` | `cache.py`: one entry, its lock, the index of write times | |
| `RequestThreads` | the thread pool: `pc`, `frame`, `Begin`, `Go`, `Done`; used by all modules below | |
| `Membership` | `auth/`, `subscription/` | `RequestThreads` |
| `Feed` | `notifications/` | `RequestThreads` |
| `AutoWatchlist` | `auto_watchlist/` | `RequestThreads` |
| `Journal` | `journal/`: the detached hooks of trades | |
| `UserServices` | the four above as one process | them |
| `ConfirmedOrders` | `broker/`, `brokers/ibkr_*`: tokens, duplicate guard, gateway connections | `RequestThreads` |
| `BrokerConnections` | `brokers/service.py`, `store.py`: linked brokers | `RequestThreads` |
| `UnifiedPortfolio` | `portfolio/`: the sum over the linked brokers, performance, snapshots | `BrokerConnections` |
| `JsonFile` | how the momentum files are read and saved | `RequestThreads` |
| `MomentumSleeve` | `moomoo/service.py` orders, `momentum/ledger.py`, `momentum/router.py` | `JsonFile` |
| `ValueHistories` | `moomoo/equity_tracker.py`, `momentum/sleeves.py` | `JsonFile` |
| `RebalanceSchedule` | `momentum/service.py`: the monthly clock | |
| `LiveOrders` | the seven above as one process | them |
| `MarketClock` | the clock of `Pages`, with ticks for TTLs | `MarketSession`, `RequestThreads` |
| `ScreenerCache` | `screener_cache/` and the warmer | `MarketClock` |
| `CacheLayer` | `cache_layer/`, for one key | `MarketClock` |
| `Readings` | the memories of `news/`, `market/`, `main.py`, `snapshots/` | `MarketClock` |
| `CdnPublish` | `cdn/` | `RequestThreads` |
| `Scoring` | `scoring.py`, `explore.py`: pure functions | |
| `Screening` | `engine.py` and the slices of `main.py` | `RequestThreads`, `Scoring` |
| `Radar` | `radar/service.py`, `rotation/service.py` | `Screening` |
| `PortfolioAdvice` | `rebalance/service.py` and `portfolio_manager/service.py` over `portfolio_health/` | `RequestThreads`, `Scoring` |
| `Pages` | the seven above as one process | them |
| `MC...` | instances for TLC | the module they name (`MCSimPortfolio`: `SimRefinement`) |
| `..._proofs` | theorems about the module they name (`SimPortfolio_proofs`: `SimRefinement` too; `LiveAccount_proofs`: `LiveOrders`; `PageCaches_proofs`: `Pages`; `Screening_proofs`: `Radar` and `PortfolioAdvice` too) | it |

No module that a theorem is about reaches a RECURSIVE operator.

The composed modules (`UserServices`, `LiveOrders`, `Pages`) put their parts in one
process: they share the request threads, and where they have it a restart, a clock
or the code that saves a file. `focus` names the part that a behaviour's requests
are for. The parts read no table of each other, so two of them in one behaviour
would only interleave freely; keeping to one makes the sum of their state spaces
out of the product. Where parts do read each other, one module has both sides:
orders and the ledger file in `MomentumSleeve`, writes of the OHLCV data, the warmer
and the runs in `ScreenerCache`, the engine's rows and the boards made of them in `Radar`.

## The simulated portfolio

**State.** `account`, `position`, `log` and (`status`, `ticket`, `nextId`) are
the four tables of `simulation/store.py`. `status` is the one column of
`sim_pending_orders` that is ever updated; `ticket` holds the others, kept after
a reset deletes the row because AUTOINCREMENT never reuses an id. `log` is
`sim_trades` reduced to its net totals. Tables are keyed by `user_id`, so the
model has one user.

**Threads.** `pc[t]` names the store call thread `t` makes next and `frame[t]`
its local variables. One step is one call of `SimulationStore`, which takes the
lock and commits, together with the local computation around it. A handler that
returns drops its frame. `_account` is a small subroutine: `CallAccount(t, l, f)`
goes to it and `frame.ret` says where it comes back to.

| code | steps |
|---|---|
| `_account` | `ReadAccount`, `Migrate` |
| `_settle_pending` | `ListPending`, then per order `SettleSkip` or `SettleMark` and a fill, `SettleReject` when the fill raises; `SettleDone` |
| `place` | `StartPlace`, settling, `RouteToQueue` or `RouteToFill` |
| `_execute_fill` | `ReadAccount`, `ReadPosition` (with the checks), `WritePosition`, `UpdateAccount`, `AddTrade` |
| `_queue_pending` | `ReadAccount`, `CheckReserve` (BUY) or `ReadHeld`, `CheckPromised` (SELL), `Enqueue` |
| `cancel` | `ReadAccount`, `Lookup`, `MarkCancelled`, `ReadAccount` |
| `reset` | `Reset`, then as a portfolio read |
| `positions`, `account`, `portfolio`, `pending` | `StartPoll`: `ReadAccount`, settling |

**Data.** Money is whole units of the base currency and a position keeps
`cost = quantity * average_cost` in its own currency, so weighted averages need
no fractions; `Fx` converts. `Relief` rounds down where the code divides floats;
the identities checked hold for any rounding. The 1e-9 tolerances are left out.

**Environment.** The clock moves through the five windows of a market day (a
weekend day is one window); `Refresh` is the warmer bringing a symbol's daily
bars up to the latest session that has opened. A symbol's price is any of
`Prices`, or none. All symbols share one calendar. `Enqueue` reads the clock and
inserts in one step: a thread that sleeps across the whole pre-market window
between those two lines is not modelled.

**Fairness** (`FairSpec`). A thread that has a request runs on (the operating
system schedules it), somebody keeps polling (the app's pages do, and nothing
else settles orders), the clock advances, and the warmer refetches each symbol.
No fairness is assumed for anything a user decides.

**Bounds.** `MaxRequests` requests besides polls, `MaxOrders` rows, `MaxCrashes`
restarts, and a calendar from `StartClock` to `Horizon`. Two or three requests are enough for a
reservation, a competing trade and a cancellation; the calendars cover the two
closed stretches that matter, overnight (Thursday to Friday) and the weekend
(Friday to Monday).

## The stop-loss / take-profit monitor

**State.** `bracket[s]` is the ACTIVE row of a symbol in the JSON file (attach
replaces an ACTIVE row of the same symbol, so there is at most one), `history`
the terminal rows, latest first as `_prune` keeps them, `nextId` the id of the
next row. `held`, `frozen`, `price`, `orders` and `sessionOpen` are the broker's
account and the exchange; the broker is external and modelled from the calls
`moomoo/service.py` makes: it takes a sell that is covered, a market one only in
the regular session.

**Tickers.** `tick` runs in the background thread (`Loop`) and in each request
thread that serves `POST /brackets/check`, with no lock around it. `frame[t]`
holds the brackets and positions it has read; a step is one call of the store or
of the broker.

| code | steps |
|---|---|
| `tick`: list, positions | `StartTick`, `ReadPositions` or, after a broker error, `ReadNoPositions` |
| `tick`: one bracket | `FindGone`, `FindQuiet`, `FindHit`; `EndTick` when none is left |
| `place`: preview and cap | `Preview`, `PreviewOutage` |
| `place`: order | `Place`, `PlaceRefused`, `PlaceOutage`, `PlaceLost` (taken, but the answer is an error) |
| `_mark` | `Mark`, `MarkFails` (the file cannot be written) |
| `attach`, `cancel` | `Attach`, `Cancel` |
| restart | `Crash`: locals are gone, the file is not |

**Data.** Quantities are in the smallest fraction, `WholeShare` of them to a
share; the levels are one tick below and above the reference price; timestamps
and notes are left out. `faulted` and `wasFlat` are history for two properties;
`sltp_races`, which checks neither property of `wasFlat`, hides it by a `VIEW`,
and treats its two tickers as symmetric because none of them is assumed fair.

**Fairness.** `_sltp_loop` calls `tick` for ever, so the loop thread is weakly
fair; nothing else is, not the owner, not the market, not the request threads.
`MaxFaults` lets faults end, as a permanent outage would excuse anything.

## The OHLCV cache

**State.** One entry of `OhlcvCache`: `csv` and `meta` (the sidecar) as files that
can be absent, whole or partly written; `holders` of the key's lock; `built`,
`scanning`, `index` for the in-memory write time of `_index_meta`. The provider's
series is an edition (which stands for the content fingerprint) and the day of
its last settled close; a stored series also carries, as history, the day on
which it was fetched. `open` selects the expiry of `_dynamic_cache_ttl`.

**Steps.** `get` is `Call` (reads the trading date), `FastPath`, `ReadCsv`
without the lock, then `Acquire`, `DoubleCheck`, `ReadCsv`, `Fetch`, and `_write` as
`OpenCsv`, `CloseCsv`, `OpenMeta`, `CloseMeta`, `UpdateIndex`. `to_csv` and
`write_text` truncate the file they open, so a step between the two halves is a
step in which readers meet a partial file. `FetchFails` and `DiskFails` are the
exceptions, `Crash` a restart. `clear` and its sweep unlink either file at any
time, and `_ensure_fresh_index` is `StartScan` and `EndScan`.

**Left out.** The newest-candle half of the index, `latest_provider_timestamp`
(nothing passes one), the column checks of a series, a clock that runs backwards.
A partial CSV may parse: such an answer is a step of the model, but what it
contains is not, so `NeverYesterdaysFrame` speaks of whole series only.

**Bounds.** Two threads, three clock values, two trading dates, two editions and one
fault: a leader, a waiter and a lock-free reader on both sides of a roll-over, of an
expiry and of a session's end, with one failure anywhere.

## User services

**Accounts** (`Membership`). A handler is its store calls: `StartRegister`,
`StartLogin`, `StartSocial`, then `LookupSubject`, `LookupEmail`, `Create`, of which the
last meets the UNIQUE column; a session keeps, as history, what was shown for it.
The tier is `EnsureRead` and `EnsureWrite` (the lazy downgrade), then what the
endpoint does with it: `SetTier` of an upgrade, a feature gate, or `ReadUsage` and
`CountUse` of the daily limit. `preview` is the mode in which nothing is enforced.

**Notifications** (`Feed`). Listing asks the signals one after the other; `AskHealth` and
`AskRotation` swap the last value seen, `Add` inserts one key. `owed` is the history of
changes, which a correct feed must have put in an inbox.

**Auto watchlist, journal.** `ReadSettings`, `ReadOwned`, `ReadApplied`, `ApplyOne` are the calls
of an apply. An order that is filled as it is placed (`Trade`) starts a hook, and `JournalBuy` and `JournalSell` are the hooks' daemon
threads, which run in any order, or are lost (`LoseHooks`). The position also changes where no hook runs: when a queued order
settles (`SettleQueued`) and when the account is reset (`ResetAccount`); the history `gone` counts the shares that leave it so.

**Bounds.** Two threads and three requests: two that race and one to notice. One
upgrade lasts a day of two, a token two; one free analysis a day, so that the second
is over; two users, two addresses, one social subject; four changes of a position by one or two
shares, so that a sale can cover two entries and half of a third.

## Live orders

**Confirmed orders** (`ConfirmedOrders`). A preview adds to `previews` what a token is made
from; `StartPlace` checks the order and the token, `Guard` the recent orders, `Call` is
Moomoo's context per call, and `LockGateway`, `Connect`, `UseGateway`, `LeaveGateway` are IBKR's
connection per call, with `lingering` for the client id that the gateway frees late.
Every call may be lost before or after the broker has acted. `Record` comes last. Prices
lose digits as `%g` loses them; half seconds let `int(time.time())` truncate.

**Linked brokers** (`BrokerConnections`, `UnifiedPortfolio`). Linking looks for a row and inserts one;
some behaviours start with links (`LinkedBefore`). `StartPortfolio` takes the links and starts
the workers, whose calls are `AskAccount` and `AskPositions`, in any order and with any
answer; `Merge` is the queue's end or the deadline, whenever it comes, after which a late worker has no
effect. What follows is the route's: `StoreSnapshot`, or `Compare` with the last snapshot of
an earlier day (`Midnight`). A sum is the set of links that are in it.

**The momentum strategy** (`MomentumSleeve`, `JsonFile`). `PreviewLeg` judges a leg on the
positions of the moment, `Send` gives it to the broker, `EnterLedger` loads the ledger
file, and `OpenTemp`, `WriteTemp`, `ReplaceFile` save it. `handle` tells what an open
file has become since another saver renamed it. `mine`, `bought`, `buys`, `crossed` and
`lost` are history: `bought` grows when an order *fills* (`Fill`), not when the broker takes it, and a
working order may be cancelled (`CancelOrder`) or never fill.

**Histories and clock.** `ValueHistories` keeps the times of the points only;
`RebalanceSchedule` numbers days, and its calendar ends at the newest cached session.

**Bounds.** Two threads, three requests. Orders differ by less and by more than the
digits kept (prices 8, 12, 13 with four digits standing for six); a token lives three
half seconds and the window is two, of four in all; two connection attempts. Names are
three with a cap of one position, so that a buy can be refused, add, or open beyond
the cap. Days 5 to 16 with a period of three sessions hold two weekends and each kind of
holiday on either side of the due date. Two brokers, one snapshot and one midnight; two links
at first and two more, so that a link can be doubled.

## Pages

**Clock** (`MarketClock`). Ticks age entries and move the session on; a behaviour starts
after a close or before an open.

**Screener cache** (`ScreenerCache`). `get` is `StartScreen`, then `ServeOpen` in session, or the
probe (`ProbeMemo`, `ProbeIndex`, `KeepProbe`), `LockRun`, `RunEngine`, `SaveRow`, `Answer`. A write
of the OHLCV cache is `Rewrite`, by a request or by the warmer (`StartWarm`, `Warm`), which
then asks for a forced run like any other request. The probe of the index and the
keeping of its answer are two steps: a write in between clears a memo that is then
overwritten. A row keeps, as history, what its run saw and what was written when
it was saved.

**Cache layer** (`CacheLayer`). One key: `StartPage`, `LockKey`, `BuildPage`, `StorePage` or
`BuildFails`, `ShowPage`. A build that fails answers with the entry that was found under the lock, as it was
then. The data's edition moves on by itself.

**Memories** (`Readings`). One entry, of one of six kinds, with a `Look` and a `Settle` each;
a fetch is good or failed, and of the index a level of one of two orders of magnitude. The news settles as its
code does: a fetch that failed is an empty feed, stored like any other, and only a build that raises keeps the last one.

**Publisher** (`CdnPublish`). `StartPublish`, `ReadManifest`, one `Upload` per object, `PutManifest`; an upload
may fail before or after it has stored. The scheduler's thread is the only publisher; a
restart cuts it off anywhere, and loses a section without a file.

**Engine** (`Scoring`, `Screening`). `Scoring` is arithmetic on the indicators of a stock, in
hundredths of a point and truncated where the code rounds (`P` makes hundredths, of percents too). The
workers of a screen and the requests for one stock interleave at the read of the
index context, the score, and the read of `_last_liquidity_illiquid`. `Slice` and `Finalize`
are the endpoint's cut and the engine's own; `Radar` ranks the rows.

**Advice** (`PortfolioAdvice`). `ReadQuality` per name is health's pass, `ReadBook` and `DecideOne`
the rebalance's own, `ReadBook` and `Report` the manager's; `Change` may come between any two. Weights are in
hundredths of a percent (`Weight`).

**Bounds.** Two threads and three requests for each part. Ticks: two, against a TTL of
one or two. One write of the OHLCV data, before the first run or at any point in or after one. Two
stocks out of four profiles (a leader, a thin one, a capped one, a spike in a downtrend), so
that a screen has a pair of any two, with rows limited to two. Two followed names among
fourteen holdings, each of three sizes and of four matches or none: every branch of
`_decide` is reached. One match is of a middling score after a rise, which lifts its quality above the
manager's threshold of a strong name.

## Runs

| run | instance | checks |
|---|---|---|
| `sim_races` | two threads, a crash, Thursday 00:00 to Friday open | `NonNegative`, `NoLookAhead` |
| `sim_serial` | one thread, legacy account, foreign currency, two prices, three requests, over a weekend | `LedgerMatchesLog`, `CostBasis`, `ImplementsLedger` |
| `sim_live` | one thread that may die once at any step, fairness | `AtMostOneFill`, `PendingSettles` |
| `sim_double_fill` | two threads, no crash | refutes `AtMostOneFill` |
| `sltp_races` | two tickers, one symbol, two brackets, lost answer, failed write or crash | `RepeatOnlyAfterFault`, `FiredRowsNameTheirSell` |
| `sltp_live` | the loop alone, every kind of fault once, fractional and capped sells | `TouchedLevelFires` |
| `sltp_outage` | one ticker, one outage | refutes `ClosesOnlyWhatIsGone` |
| `ohlcv_races` | two threads, one fault of any kind, clear, index build, roll-over | `NeverYesterdaysFrame`, `WaitersShareTheFetch`, `IndexKeepsUp` |
| `users` | `UserServices`, two threads, three requests, restarts | `SessionsMatchCredentials`, `OpenedWithinTerm`, `OverrunIsInFlight`, `ChangesReachAnInbox`, `ClosedInOrder`, `DuplicatesAreInFlight` |
| `orders` | `LiveOrders`, two threads, three requests, lost answers, restarts | `ConfirmedBeforePlaced`, `RepeatsAreApart`, `OneConnection`, `AbsentBrokersAreNamed`, `WholeUnlessShared`, `NoShareForgotten`, `HistoryKeepsHours`, `ScheduleHolds` |
| `momentum_sleeve` | `LiveOrders`, one thread | refutes `SellsOnlyItsOwn` |
| `pages` | `Pages`, two threads, three requests, failures, restarts | `RunsAnswerWrites`, `StaleForAReason`, `PagesGoForward`, `GoodReadingsKept`, `LevelsComeFirst`, `NamedWasStored`, `CappedByTurnover`, `RadarIsInvestable`, `LiftedOnlyByRace`, `SliceIsRun`, `NothingFabricated`, `StrongNamesStay`, `PagesAgree` |

The larger runs have from half a million to one and a half million distinct states
and take one to four minutes each. Deadlock is checked for the
portfolio, the monitor and the cache; `users`, `orders`, `momentum_sleeve` and `pages` say
`CHECK_DEADLOCK FALSE`, because a behaviour ends when its bounded requests, ticks and
changes are used up. Fairness is assumed by `sim_live` and `sltp_live` only. The threads are
a symmetry set where no fairness names one; so are the momentum strategy's names
and the schedule's symbols. Type invariants are proved, and where they are not (the
service modules) TLC's own evaluation is the check of types.

What they show. *Portfolio*: the checks of `_execute_fill` protect the account
from going negative under any interleaving, but nothing else survives two
threads; with one thread the multi-commit handlers are equivalent to an
indivisible ledger until a crash falls between two commits of a fill (then shares
can be in the account unpaid, or a trade missing from the log, and the order is
not retried). *Monitor*: two tickers may both sell, but one thread alone repeats
a sell only when it could not record the first; the file always names real
sells; a touched level fires in spite of passing faults. *Cache*: the order of
the two writes, the double check and the trading-date tag carry the freshness
promise through every interleaving and any failure. *User services*: most guards are
check-then-act, and what they let through is bounded by the requests in flight; the
UNIQUE column and the single insert carry the rest. *Live orders*: tokens and caps hold
through retries and lost answers; the duplicate guard holds for what was recorded
when it looked; a renamed temporary file is torn only by two savers; the ledger forgets no
share that the strategy bought until two tagged orders cross or an answer is lost, though it may count shares that were never bought; a sum over brokers names those that it
lacks, unless another link of the same broker came through. *Pages*: a stale page has a
named reason, a page never goes back, a failure does not displace a good reading of an index, a
condition or a section (it does of the news, the overview and the scores, for their TTL), and
no bonus, recommendation or advice gets past the liquidity cap, the downtrend
penalty or a missing score, except through the engine's shared attribute; and the manager's
report and the rebalance agree on what is strong, too large or low.

Every property of a passing run has a mutant in `PROJECT.json`: a mapped
definition replaced by the faulty variant written just before it in the module
(marked "Fault" or described as such), under which TLC refutes the property.

## What is proved

For all constants that satisfy the named assumptions of the module.

`SimPortfolio_proofs`: `TypeCorrect` (`[]TypeOK`) and `NeverNegative` (`[]NonNegative`).
`NonNegative` is not inductive: `WritePosition` and `UpdateAccount` write values
computed from a thread's locals, whatever the rows have become. The invariant
`IInv` adds that every thread's copies are non-negative (each was once a row) and
that a thread about to write holds copies that passed the check of
`_execute_fill`. The proof is one lemma per group of actions over three parts of
the state (threads, tables, the rest), each part with a lemma that says which
steps leave it alone. `FillsAreLater` (`[]NoLookAhead`) has an invariant of its own,
`LookInv`: the session that a row waits for opens after the instant it was placed (`Dated`),
what has been filled was filled on that session (`Given`), and no thread holds an id yet
to be given, whose row would still change under it (`FramesOld`).

For a process that serves one request at a time (`Threads = {t}`), the same module proves what
concurrency takes away. `OneFillEach` (`[]AtMostOneFill`) allows crashes at any step; `AccountsReplay`
(`[]LedgerMatchesLog`), `BasisBalances` (`[]CostBasis`) and `ServesAsLedger`
(`ImplementsLedger`, the refinement of `SimLedger`) take `MaxCrashes = 0`, since a crash between two commits of a
fill breaks all three. They rest on `SerialInv`: the orders left in a settling pass are still
pending and the one in a fill is marked (`Passes`), nothing has been ordered on a
legacy account (`Legacy`), the copies in the locals are the rows (`Copies`), and an order that has traded is
neither pending nor in a fill again (`Once`). `Books` and `Basis` say how far the account, the positions and
the log are apart at each commit of a fill. `Carries` is the statement of each step's lemma: `SerialInv`
and `Books` go on, and the ledger takes a step or stutters. A fill shows in the ledger at
`UpdateAccount`; what `Enqueue` compares is a sum over the pending orders, and the cost
basis is a sum over the symbols. These sums are folds in an unspecified order: `AddsExists` and `TableAdds` show,
by a least counterexample among the finite subsets, that every order gives the same
total, `CostMoves` what a change of one position does to it.

`MoomooSltp_proofs`: `TypeCorrect` and `NoRepeatedSell` (`[]RepeatOnlyAfterFault`), which
compares two orders and says nothing of the tick that is
about to place one. `IInv` adds that ids are never reused (`Identities`) and that a
ticker that has sold for a bracket has no way back to it (`SoldOnce`): it is not
in the list still to evaluate, and it is not ACTIVE unless the ticker is about
to mark it. `RowsNameRealSells` (`[]FiredRowsNameTheirSell`): a row is written from the sell
that its ticker holds when it marks the bracket, the copies a ticker holds are never
ahead of the symbol's bracket (`CopiesBehind`), and no two rows or marking tickers
hold the same order (`RowsName`, `MarksName`), so no two rows claim one sell, and none claims a
sell of another symbol or of a later bracket.

`OhlcvCache_proofs`: `TypeCorrect`, `FrameIsOfTheDay` (`[]NeverYesterdaysFrame`) and
`SingleFlight` (`[]WaitersShareTheFetch`). The reader checks the sidecar and reads the
CSV in different steps. `IInv` adds that the lock is exclusive, that a writer's
series is at least as recent as its tag and as the sidecar it replaces
(`EntryDated`), and that a reader that has found the entry fresh will meet no CSV
older than its date, now or when the writer in progress is done (`ReadersDated`).
`IndexIsAsLate` (`[]IndexKeepsUp`): the index is as late as the sidecar, or a write to it was
lost, or the thread that wrote the sidecar is at the index with that very stamp
(`KInv`).

`ConfirmedOrders_proofs`: `OrdersWereConfirmed` (`[]ConfirmedBeforePlaced`), `RepeatsWait`
(`[]RepeatsAreApart`) and `GatewaySeesOneConnection` (`[]OneConnection`). An order goes through guard, lock, retries and
the call before it is in the book, so `IInv` carries "there is a preview of this order,
young when it was confirmed" (`Quoted`) through the frame of every handler (`Handlers`)
into the book (`Book`); previews are only ever added to (`Previews`). The same frames carry what
the guard saw (`Guarded`): `_recent` is the last mark of each signature (`LastMark`), so an order that passes
is a window away from it, and an earlier mark is either older still or was
overwritten by one that is. For the connection,
`GateHeld` says that a thread between connect and leave is the one in the lock.

`PageCaches_proofs` is about the caches behind the pages. `PagesNeverGoBack` (`[]PagesGoForward`):
builds of the key take turns (`BuildsTakeTurns`); the entry, and what the one builder is about to
store, are no older than anything that has been shown (`EditionsOrdered`), which is what makes a
slow build harmless; nothing is newer than the data (`EditionsBounded`); and what a build may fall back on
is the entry that it is to replace, or one that a forced read has dropped since (`FallbackOrdered`).
`ManifestNamesWhatWasStored` (`[]NamedWasStored`): at object `key` of a publish, the names before it are
stored, or kept from a previous manifest that had been put, or in `kept`, and those from
it on are still the content that was taken at the start (`Publishing`). `RunsAreCalledFor`
(`[]RunsAnswerWrites`) and `StaleOnlyForAReason` (`[]StaleForAReason`) share `ScreenInv`: what a
snapshot does not know was written in its tick or later (`RowOk`); the probe's memo
holds the newest write unless one crossed it (`MemoOk`); and one thread has the lock that
snapshots are made under, with the newest snapshot in its hands and what calls for its
run (`Screens`, `Called`). `HomeDoesNotGoBlank` (`[]GoodReadingsKept`) and `YardsticksComeFirst`
(`[]LevelsComeFirst`) share `ReadingsInv`: a request of an index, a condition or a section that looked when a good reading had been
stored finds one to fall back on (`Memory`; the news, the overview and the scores promise nothing of the kind and are not `Guarded`), and the yardstick it holds is among the
levels cached (`Yardsticks`), which says where a level that passed the comparison came from.

`UserServices_proofs` has one invariant, `UserInv`, which is that of the part in `focus`. `SessionsAreOwn`
(`[]SessionsMatchCredentials`): no two rows share an address (`Accounts`), and a session
matches the row it is for (`Sessions`); rows are only ever appended. `PaidForWhenOpened`
(`[]OpenedWithinTerm`): a row of a paid tier expires when an upgrade that was bought does
(`Terms`), and a request that asks for an upgrade began no later than today. `FreeUsesAreBounded`
(`[]OverrunIsInFlight`): the uses of today, and the requests that have passed the
check and not counted yet (`Counting`), are together below the limit and the threads. `NoChangeIsLost`
(`[]ChangesReachAnInbox`): what was heard last is what is remembered (`Remembers`), so
that a change is noticed by the request that swaps the value, and a restart ends what was
owed to the requests it ended. `DuplicatesAreBounded` (`[]DuplicatesAreInFlight`): a request takes a symbol
in hand only if it found no row of it, so those that have applied it
and those that hold it are no more than the threads (`WatchlistInv`). `SalesCloseInOrder`
(`[]ClosedInOrder`): a closed entry has only closed ones before it (`OldestFirst`), and while hooks keep the order of
their trades, the hooks run so far are those of the first orders and what is open has room (`InOrder`): each order
makes or takes the room of its quantity, and no order leaves more than the position and what left it without a hook (`Rooms`), to which
settlements and resets only add (`UnjournalledKeeps`). A sale closes a first part of the open entries that is
at least what was sold, or all of them (`SaleTakes`), from what a sum over a finite set gains and loses (`SumSplits`).

`Screening_proofs`: `ThinStocksLiftedOnlyByRace` (`[]LiftedOnlyByRace`). As long as nobody has scored
since its own score, the engine's attribute is about the worker's stock
(`AttributeIsOfStock`). `TurnoverCaps` (`[]CappedByTurnover`) is the arithmetic of a score, from the points of each factor
to the composite, its penalties, the calibration and the cap, whatever the indicators: `CInv` says of a row, and of what a worker
carries to one, that the score it is lifted from is an integer under the cap (`CappedFor`);
that a lift adds no more than the room under the cap needs the overlay's sum over the signals to be a
number that is not negative (`SumIsNat`).

`SliceIsTheRun` (`[]SliceIsRun`) and `RadarShowsInvestable` (`[]RadarIsInvestable`), in the same module, rest on what a
sort returns. `Ranked` gives each place of a sorted sequence to the member with that many better ones. For a
strict order of a finite set (`IsOrder`) there is one such member for every place (`PlacesAreTaken`), so the sequence
has each member once, after those that are above it (`RankingIs`), there is no other such sequence (`RankingIsOne`), and a filtered
ranking is the ranking of what passes (`SelectionIsRanked`). The sort of a screen is such an order, since a row has the
place of its stock as its last key (`RowsAreOrdered`; `RInv` says that a row is of its stock and has numbers to compare). A page cut
from the snapshot and a run for the request are then rankings of the same rows. For the radar,
what is shown is a row of the screen (`BoardIs`), and its claims come from `IInv` and `CappedFor`: a signal of BUY takes a base score of 70, which
a downtrend cannot reach, with at most 25 points of trend and 18 of penalty (`CompositeTyped`); a multibagger has
more than 75 points, the highest of the caps; and where no score is over 75, the weights of
the rotation leave a market under 60 (`RotationUnder`).

Of `PortfolioAdvice`, in the same module: `NothingIsFabricated` (`[]NothingFabricated`), `StrongNamesAreKept`
(`[]StrongNamesStay`) and `ReportAndRebalanceAgree` (`[]PagesAgree`). `AInv` says what a request that no change has crossed knows: the
qualities it holds are those of the scores that hold, each advice given so far is honest about
a name without a score and patient with a strong one, and the report names as strong and as crowded what
the same qualities and holdings show (`UpToDate`). Under it are facts of the formulas: a score of
75 keeps the quality over 40 after any day, and only a score of 55 that is no SELL
reaches a quality of 80 (`QualityFollowsScore`); a weight over 30% is always a reason to go (`HeavyGoes`).

`LiveAccount_proofs`: `SumsNameWhatTheyLack` (`[]AbsentBrokersAreNamed`). Until the
merge, a worker that is past its account call has the account or has failed (`Collecting`), and what the
merge leaves in the thread's locals names each broker that it lacks (`Merged`); links may
come and go, since a thread works on those it read. `FilesStayWhole` (`[]WholeUnlessShared`): for a file that
is not `shared`, one thread at a time is in a save, the temporary file is its own, and
holds its whole text when it is renamed (`Apart`). `LedgerIsKept` (`[]NoShareForgotten`) builds on
that. What the ledger is to cover is what the strategy bought and what its working BUYs may still buy (`Owed`), which a fill
leaves as it is and a cancellation lowers. Unless orders crossed or a request was lost, one thread at most is between the
broker and the rename, what it is to write covers that, and otherwise the ledger does (`Kept`). `NewestHoursAreKept` (`[]HistoryKeepsHours`): as long as nothing was recorded late, the points are in
the order of their hours and those hours are the newest (`HistoryInv`), so sorting moves none (`SortedIs`), as many hours are
after a point as there are points behind it (`RankIs`), and the point that a full history drops is that of the one hour
that is no longer among the newest (`NewestAdded`). `ScheduleIsConsistent` (`[]ScheduleHolds`): the calendar ends with a session
that is not after today (`ScheduleInv`); on either side of its end the axis is off the exchange's count by the
weekdays without a session since, less one on a weekend (`OffAxis`); and every place on the axis is that of one
day, in the calendar (`CalendarPlaces`) and after it (`WeekdayPlaces`, from `FiveOfSeven`), so that the due date exists.

`OrdersWereConfirmed`, `RepeatsWait`, `GatewaySeesOneConnection`, `PagesNeverGoBack`,
`ManifestNamesWhatWasStored`, `SumsNameWhatTheyLack` and those of `Screening_proofs` are theorems of the
component's own specification (`OrdersSpec`, `LayerSpec`, `CdnSpec`, `BrokersSpec`, `EngineSpec`, `AdviceSpec`);
`PagesKeepTheirParts` and `LiveKeepsItsParts` prove that a behaviour of the composed process whose `focus` is that
component is a behaviour of this specification. The others are theorems of the process that the runs check.

Assumptions on constants beyond what a run needs are those the code gives: the thread pool is
finite (`PoolAssumption`), accounts that exist already are well-formed and of different
addresses (`EarlierAssumption`), a universe is finite and in its order and a screen has room for a row (`StocksAssumption`,
`LimitAssumption`), the instants at which a behaviour opens are instants
(`OpeningAssumption`), the mark of a free lock is no thread (`FreeAssumption`), names are finitely many and numbered,
holdings are worth something, and a match has a score of 0 to 100, which is
at most 50 if it is a SELL, the ledger has names and the first prices have a session (`ScheduleAssumption`, `NamesAssumption`, `RestAssumption`, `HoldingsAssumption`, `MatchesAssumption`). `BasisBalances` assumes, as
a hypothesis, that the symbols are finitely many.

Model-checked only: liveness (`PendingSettles`, `TouchedLevelFires`), which is outside what the prover
can do, and that the constants of the runs reach what the theorems speak of.

## Findings

- Two requests that settle at once fill one order twice (`sim_double_fill`),
  although `_settle_pending` calls itself idempotent.
- One failed positions query retires every bracket as if its shares were gone
  (`sltp_outage`).
- A rebalance proposes to sell the whole live position of a name, with the shares that
  other strategies bought (`momentum_sleeve`), although its docstring says those
  "are never touched".

## Observations

What the code does and the models show or rely on, without a run of its own.

*Simulated portfolio.* An order queued in the pre-market window skips that day's open,
although `SIM_PENDING_MESSAGE` (`simulation/models.py:20`) speaks of the next session's
open price. An immediate BUY spends cash that a pending one reserved, and the
pending order is rejected when it settles. Two first requests of a legacy user both
wipe the account.

*Monitor and Moomoo.* The loop and a request may both sell for one bracket, although
`sltp.py:13` rules a race window out; `_mark` finds its row by symbol, so a bracket
that replaced the one just sold is marked fired in its place; when `can_sell_qty` is 0
the quantity falls back to the full holding, so a working sell is submitted again;
the notional cap applies to protective sells too. The position cap counts neither
working buys nor orders in flight.

*OHLCV cache.* An unchanged refetch keeps the old `fetched_at` (`cache.py:474`), so an
expired entry whose data does not change is refetched on every call. A
truncated CSV may parse. A write that ends while the index is being built is
indexed at the next write.

*Accounts and feed.* An upgrade to an unknown tier silently sets FREE; the lazy downgrade
can overwrite an upgrade that it crosses; two sign-ins of one subject with different
addresses create two accounts. The best market is remembered once for all users, so
the first to refresh hears of a change; last-seen values are lost at a restart.
One apply may name a symbol twice, and `max_per_day` caps one response, not a day. A
partial sale closes a whole journal entry. An order that waits for the open is never journalled: there is no hook when it is
queued, because "there is no position to journal until it settles at the open" (`simulation/router.py:152`), and none when it
settles (`simulation/service.py:611`). So a settled sale, like a reset (`simulation/service.py:638`), leaves the
journal with shares open that the simulation does not hold, and a settled buy is in no entry. `ClosedInOrder` counts these shares apart (`gone`).

*Orders.* The IBKR service is built per request, so its duplicate guard remembers
nothing; a token can be used again until it expires; the time of a repeat is that of the check, so a
slow request moves the record back; an order without an answer is not recorded. IBKR's
`account` and `positions` do not probe first. Two crossing requests link a broker twice.

*Unified portfolio.* Of a broker linked twice, one link that comes through hides the timeout of the
other, and two that do are both added. Positions that are "not connected" are left out with no error
(`portfolio/service.py:117`), although failures are to be recorded. A snapshot stores a
partial sum without its errors, and is the baseline of the next day's profit. `list_for_user` of the
SQLite store returns the oldest 90 rows, that of the in-memory store which the tests use the latest.

*Momentum.* The ledger counts a BUY when the broker takes it, and is not told when that order is cancelled or never
fills, although it calls its figures "net shares bought via momentum" (`momentum/ledger.py:46`); `NoShareForgotten` is therefore
about shares that it would lack, not about those it has too many. Basket buys never enter the ledger; the ledger's lock is one per request and
two savers share a temporary file. The sale of a whole position removes the newest
timestamp, and the status may go from due back to upcoming when the calendar
catches up. The time of an equity point is read before the lock.

*Caches.* The probe of the newest bar is memoised for 30 seconds like that of the writes; the model reads it without the memo, which
would only delay it, and under the bounds of `pages` no bar is later than its snapshot. The stale fallback of `freshness.py` is not reached under the production
TTLs; nothing in the program calls `clear_cache` or `invalidate`; the radar's builder swallows failures, so an
empty scan is cached as fresh; a brief built in the pre-market from the previous date's
radar is tagged with today. The engine's sessions and the KOSPI close differ by half an
hour, in which a prewarm is refused and the date still counts as warmed. A run begun
when closed may end after the open; cold requests in session run the engine with no lock.

*Memories.* The news fetcher turns every timeout and error into an empty list (`news/service.py:96-105`), so a provider that
is down makes an empty feed, which is stored over the last good one (`news/service.py:321-328`) and served for its TTL, although the
module says that "on a fetch failure it serves the last good feed (stale-while-error) so the UI never goes blank"
(`news/service.py:5-7`). `GoodReadingsKept` leaves the news out. A condition that fails cold is cached as unknown for the closed period; the
first level of an index is the yardstick until a restart, whatever its scale; "only one
thread rebuilds" does not hold for a cold news feed; a slower, older fetch overwrites a newer.

*Publisher.* An unreadable manifest counts as none, and a first publish keeps the hash of
an object that was empty or failed (`cdn/publisher.py:212`); the manifest's own hashes are not rolled back.

*Engine and advice.* The liquidity attribute is shared by all workers (`engine.py:1423`); the index context is
read once, a failure too; the "cache only" score may fetch the index. A snapshot holds 200
rows, so a slice of more loses matches and miscounts (`main.py:923`). A liquid downtrend with a
volume expansion ends as a HOLD, although the comment says it stays bearish. Ties are not
shared by `_percentile_ranks`. Rebalance looks names up twice: one that lost its score in
between, or was bought in between, is judged on a mixture. A broken support is never seen,
since only levels below the price are considered. A snapshot whose rows are all mock data keeps them
(`engine.py:1544-1548`), and their scores count as scores. The manager calls a name without a score weak, since its
placeholder is below 60, and compares the journal's entry *score* with the current *quality*. A name may be
strong to the manager and yet be told to be reduced (score 60 after a rise), be weakening to it, since it was bought
at a score of 100, and yet be told to be increased (score 92, quality 82), or draw health's exit warning and be
told to average down (score 76 after a fall).

## Not modelled

`PROJECT.json` lists every component with its status and reason. Left out:

- computing the indicators, the machine-learning blend and the backtests (floating
  point over price history): the modules take the indicators as inputs, of the ranges
  that `compute_all` gives;
- password and token cryptography, and network clients, beyond what they answer;
- health's component scores, the manager's risk level and wording, the brief's wording, news ranking, and the condition's scores;
- the kill switch and the unlocking around a live order (`moomoo/service.py:701-704`, `235-243`), which are as the operator
  set them: what they refuse is refused like an order over the cap;
- usage analytics and the health endpoint, which append or read only;
- the Flutter app: its stale-while-revalidate streams and manifest sync are worth a
  module of their own, the pages and widgets are layout.

## Plan

1. `SnapshotSync`: the app's manifest sync and stores against `CdnPublish`.
2. The newest-candle half of the write-time index in `OhlcvCache`.

