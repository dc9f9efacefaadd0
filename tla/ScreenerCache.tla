--------------------------- MODULE ScreenerCache ---------------------------
(***************************************************************************)
(* The screener's market-close cache (backend/app/screener_cache), for one *)
(* market and one cache key: the store of snapshots, the probes of how new *)
(* the OHLCV data is and their memo, the cooldown of rebuilds, the lock    *)
(* that one run of the engine holds, and the warmer that rewrites the data *)
(* after the close and screens it.                                         *)
(*                                                                         *)
(* A write is known by its tick; an edition counts the writes that a run,  *)
(* or a request, could see.                                                *)
(***************************************************************************)
EXTENDS MarketClock, Sequences, FiniteSets, FiniteSetsExt

CONSTANTS
    Cooldown,    \* _REBUILD_COOLDOWN_S, in ticks
    ProbeTtl,    \* _PROBE_TTL_SECONDS, in ticks
    KeepPerKey,  \* _KEEP_PER_KEY
    Retention,   \* days the archive keeps
    MaxWrites    \* bound: writes of the OHLCV cache

ASSUME ScreenerAssumption == Cooldown \in Nat /\ ProbeTtl \in Nat /\ KeepPerKey \in Nat \ {0}

VARIABLES
    writes,   \* each write of the OHLCV cache, in order: its tick and newest bar
    rows,     \* table screener_snapshots, of the key
    memo,     \* _PROBE_CACHE: the newest write a probe found, and until when that holds
    rebuilt,  \* _rebuild_seen: when a rebuild for a date was last begun
    runLock,  \* the thread in the run lock
    warmed,   \* the warmer's _done: the date it has warmed last
    archived  \* dates in the archive

screenVars == <<writes, rows, memo, rebuilt, runLock, warmed, archived>>

Free == "free"

ASSUME FreeAssumption == Free \notin Threads

Never == -Cooldown
NoRow == [date |-> -1]
Edition == Len(writes)
Written == IF writes = <<>> THEN Never ELSE writes[Edition].at

ScreenInit ==
    /\ writes \in {<<>>, <<[at |-> 0, bar |-> LatestBar(now)]>>}
    /\ rows = <<>>
    /\ memo = [until |-> Never, found |-> Never, crossed |-> FALSE]
    /\ rebuilt = [date \in 0..6 |-> Never]
    /\ runLock = Free
    /\ warmed = -1
    /\ archived = {}

\* get_for_date: the newest row of the date.
RowFor(date) ==
    LET of == {i \in DOMAIN rows : rows[i].date = date}
    IN IF of = {} THEN NoRow ELSE rows[Max(of)]

\* _data_is_newer_than, which today's own bar never is.  The probe of the bars is
\* memoised for 30 s like that of the writes, which only delays it: read without
\* the memo here.
BarIsLater(row) == writes # <<>> /\ writes[Edition].bar > row.date

\* _data_written_after, by more than the epsilon.
WrittenAfter(row, found) == found > row.made

\* What the store has for the date of request f calls for a run at once.
NeedsRun(f) == RowFor(f.today) = NoRow \/ BarIsLater(RowFor(f.today))

RebuiltRecently(date) == tick - rebuilt[date] < Cooldown

Ask(t, label, f) == Begin(t, label, f) /\ UNCHANGED <<clock, screenVars>>
Step(t, label, f) == Go(t, label, f) /\ UNCHANGED <<clock, screenVars>>

-----------------------------------------------------------------------------
\* A request's locals: held says that it is in the run lock; row, found, crossed,
\* seen and cool are what it has and knows of it, saw what the engine read.
Request(op, force, today, held) ==
    [op |-> op, force |-> force, today |-> today, row |-> NoRow, found |-> Never, crossed |-> FALSE,
     seen |-> 0, cool |-> FALSE, held |-> held, saw |-> 0]

\* Request f with nothing in hand.
Asking(f) == Request(f.op, f.force, f.today, f.held)

\* get: where a request goes after reading the clock and the store.
Arrival(f) ==
    CASE Open /\ rows = <<>> -> "live"
      [] Open /\ rows # <<>> -> "serve"
      [] ~Open /\ (f.force \/ NeedsRun(f)) -> "lock"
      [] OTHER -> "probe"

StartScreen(t) ==
    \E force \in BOOLEAN :
        LET f == Request("screen", force, Today, FALSE)
        IN Ask(t, Arrival(f), IF Arrival(f) = "probe" THEN [f EXCEPT !.row = RowFor(Today)] ELSE f)

\* Open: the newest row, of whatever date; before any was saved, a run that is
\* not saved, under no lock.
ServeOpen(t) == (At(t, "live") \/ At(t, "serve")) /\ Done(t) /\ UNCHANGED <<clock, screenVars>>

\* What request f does once it knows the tick of the newest write.
Judge(t, f) ==
    LET g == [f EXCEPT !.seen = Edition, !.cool = RebuiltRecently(f.today)] IN
    CASE ~WrittenAfter(f.row, f.found) \/ (~f.held /\ g.cool) ->
           /\ Go(t, "answer", g)
           /\ runLock' = IF f.held THEN Free ELSE runLock
           /\ UNCHANGED rebuilt
      [] f.held /\ WrittenAfter(f.row, f.found) ->
           /\ Go(t, "run", Asking(f))
           /\ UNCHANGED <<rebuilt, runLock>>
      [] OTHER ->
           /\ rebuilt' = [rebuilt EXCEPT ![f.today] = tick]
           /\ Go(t, "lock", Asking(f))
           /\ UNCHANGED runLock

\* latest_market_write_ts, which the memo answers,
ProbeMemo(t) ==
    /\ At(t, "probe")
    /\ memo.until > tick
    /\ Judge(t, [frame[t] EXCEPT !.found = memo.found, !.crossed = memo.crossed])
    /\ UNCHANGED <<clock, writes, rows, memo, warmed, archived>>

\* or which asks the index of the OHLCV cache,
ProbeIndex(t) ==
    /\ At(t, "probe")
    /\ memo.until <= tick
    /\ Step(t, "memo", [frame[t] EXCEPT !.found = Written])

\* and keeps the answer, also when a write has cleared the memo in between.
KeepProbe(t) ==
    /\ At(t, "memo")
    /\ LET crossed == frame[t].found # Written IN
         /\ memo' = [until |-> tick + ProbeTtl, found |-> frame[t].found, crossed |-> crossed]
         /\ Judge(t, [frame[t] EXCEPT !.crossed = crossed])
    /\ UNCHANGED <<clock, writes, rows, warmed, archived>>

\* Fault: the herd does not look again.
LockAndRun(t) ==
    /\ At(t, "lock")
    /\ runLock = Free
    /\ runLock' = t
    /\ Go(t, "run", [frame[t] EXCEPT !.held = TRUE])
    /\ UNCHANGED <<clock, writes, rows, memo, rebuilt, warmed, archived>>

\* _run_and_save: who had to wait looks again, unless its run is forced.
LockRun(t) ==
    /\ At(t, "lock")
    /\ runLock = Free
    /\ runLock' = t
    /\ LET f == [frame[t] EXCEPT !.held = TRUE] IN
         IF f.force \/ NeedsRun(f) THEN Go(t, "run", f)
         ELSE Go(t, "probe", [f EXCEPT !.row = RowFor(f.today)])
    /\ UNCHANGED <<clock, writes, rows, memo, rebuilt, warmed, archived>>

\* The engine reads the data; a run that fails leaves the lock, and the cooldown.
RunEngine(t) ==
    /\ At(t, "run")
    /\ \/ Step(t, "save", [frame[t] EXCEPT !.saw = Edition])
       \/ /\ Done(t)
          /\ runLock' = Free
          /\ UNCHANGED <<clock, writes, rows, memo, rebuilt, warmed, archived>>

\* save: stamped now, not when the engine began; older rows of the key go.
SaveRow(t) ==
    /\ At(t, "save")
    /\ LET f == frame[t]
           row == [date |-> f.today, made |-> tick, forced |-> f.force, saw |-> f.saw, known |-> Edition]
           all == Append(rows, row)
       IN rows' = SubSeq(all, Max({1, Len(all) - KeepPerKey + 1}), Len(all))
    /\ runLock' = Free
    /\ Done(t)
    /\ UNCHANGED <<clock, writes, memo, rebuilt, warmed, archived>>

Answer(t) == At(t, "answer") /\ Done(t) /\ UNCHANGED <<clock, screenVars>>

-----------------------------------------------------------------------------
\* Fault: the memo outlives the write.
RewriteQuietly ==
    /\ Len(writes) < MaxWrites
    /\ writes' = Append(writes, [at |-> tick, bar |-> LatestBar(now)])
    /\ UNCHANGED memo

\* A write of the OHLCV cache, which drops what the probes remember.
Rewrite ==
    /\ Len(writes) < MaxWrites
    /\ writes' = Append(writes, [at |-> tick, bar |-> LatestBar(now)])
    /\ memo' = [until |-> Never, found |-> Never, crossed |-> FALSE]

\* An analysis, or the detail page of a stock, fetches.
Fetch == Rewrite /\ UNCHANGED <<pool, clock, rows, rebuilt, runLock, warmed, archived>>

\* _is_closed_for_today: from the close on, and not before the open of a day.
ClosedForToday == SessionState(now) \in {"POST_MARKET", "CLOSED"}

\* purge_old: the day folders that are young enough.
Kept(dates) == {d \in dates : d > now.day - Retention}

\* The warmer finds the market closed, and not warmed for its trading date.
StartWarm(t) ==
    /\ ClosedForToday
    /\ warmed # Today
    /\ \A o \in Threads : frame[o].op # "warm"
    /\ Ask(t, "warm", Request("warm", TRUE, Today, FALSE))

\* _warm_market: symbols are fetched, all, some or none, and archived as they come.
WarmMarket(date) ==
    \/ Rewrite /\ \E got \in SUBSET {date} : archived' = Kept(archived \cup got)
    \/ UNCHANGED <<writes, memo>> /\ archived' = Kept(archived)

\* _prewarm_default_screener: the hook screens the market, as a forced request.
Prewarm(t) == LET f == Request("warm", TRUE, Today, FALSE) IN Go(t, Arrival(f), f)

\* A pass of the warmer: the date counts as warmed, whatever was fetched.
Warm(t) ==
    /\ At(t, "warm")
    /\ WarmMarket(frame[t].today)
    /\ warmed' = frame[t].today
    /\ Prewarm(t)
    /\ UNCHANGED <<clock, rows, rebuilt, runLock>>

\* A restart forgets what is not in the store or in a file.
ScreenRestart ==
    /\ \E t \in Threads : ~At(t, "idle")
    /\ pc' = [t \in Threads |-> "idle"]
    /\ frame' = [t \in Threads |-> NoFrame]
    /\ memo' = [until |-> Never, found |-> Never, crossed |-> FALSE]
    /\ rebuilt' = [date \in DOMAIN rebuilt |-> Never]
    /\ runLock' = Free
    /\ warmed' = -1
    /\ UNCHANGED <<requests, clock, writes, rows, archived>>

ScreenNext ==
    \/ Tick /\ UNCHANGED <<pool, screenVars>>
    \/ Fetch
    \/ ScreenRestart
    \/ \E t \in Threads :
         \/ StartScreen(t) \/ ServeOpen(t) \/ ProbeMemo(t) \/ ProbeIndex(t) \/ KeepProbe(t)
         \/ LockRun(t) \/ RunEngine(t) \/ SaveRow(t) \/ Answer(t)
         \/ StartWarm(t) \/ Warm(t)

-----------------------------------------------------------------------------

\* However many requests wait, the engine runs unasked for a date that has a
\* snapshot only when the data was written after that snapshot was made.
RunsAnswerWrites ==
    \A i \in DOMAIN rows, j \in DOMAIN rows :
        (j = i + 1 /\ rows[i].date = rows[j].date /\ ~rows[j].forced) =>
            /\ rows[j].known # 0
            /\ \/ writes[rows[j].known].at > rows[i].made
               \/ writes[rows[j].known].bar > rows[j].date

\* A closed market's answer hides a write of the data for one of four reasons: the
\* write fell into the run itself, or into its tick; the probe's memo was kept
\* across the write; or a rebuild of the date was begun within the cooldown.
StaleForAReason ==
    \A t \in Threads : (At(t, "answer") /\ frame[t].seen > frame[t].row.saw) =>
        LET f == frame[t] IN
        \/ f.row.known > f.row.saw
        \/ writes[f.seen].at = f.row.made
        \/ f.crossed
        \/ f.cool

=============================================================================
