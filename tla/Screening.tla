----------------------------- MODULE Screening -----------------------------
(***************************************************************************)
(* MultiMarketEngine: a screen of a market's stocks by a pool of workers,  *)
(* the analysis and the cached score of one stock, and the pages that are  *)
(* cut from the screen (backend/app/engine.py, main.py).                   *)
(*                                                                         *)
(* The workers share two attributes of the engine: what the last score     *)
(* said of liquidity, which the worker reads back after scoring, and the   *)
(* context of the market's index, which is read once.                      *)
(***************************************************************************)
EXTENDS RequestThreads, Scoring, SequencesExt

CONSTANTS
    Stocks,     \* the universe, 1..n in its order
    Profiles,   \* what the indicators of a stock may tell (see Scoring)
    Regimes,    \* what the index's history may give, "none" if it fails
    MaxLimit,   \* MAX_LIMIT, rows of a screen
    Floors      \* values of min_value_traded

ASSUME StocksAssumption == IsFiniteSet(Stocks) /\ Stocks = 1..Cardinality(Stocks)
ASSUME LimitAssumption == MaxLimit \in Nat \ {0}
ASSUME ProfilesAssumption == Profiles \subseteq Indicators

VARIABLES
    profile,    \* the profile of each stock
    context,    \* _index_ctx_cache: the regime of the index, "none", or "unread"
    illiquid,   \* _last_liquidity_illiquid
    todo,       \* stocks that the running screen's workers have not taken
    matches     \* rows of the running or last screen

engineVars == <<profile, context, illiquid, todo, matches>>

NoMatch == [live |-> FALSE, at |-> 0]

EngineInit ==
    /\ profile \in [Stocks -> Profiles]
    /\ context = "unread"
    /\ illiquid = FALSE
    /\ todo = {}
    /\ matches = [s \in Stocks |-> NoMatch]

\* Without a context the relative strength and the regime are neutral.
MarketContext(s, regime) ==
    [profile[s] EXCEPT !.regime = regime, !.rs = IF regime = "none" THEN 0 ELSE @]

\* categorize.  flow stands for A/D, OBV and CMF, macd for the MACD, its signal and
\* histogram; above for the close over its short averages.
Categorize(ind) ==
    {c \in DOMAIN CategoryWeight :
        CASE c = "bullish" -> Rising(ind) /\ ind.above
          [] c = "bearish" -> Falling(ind) /\ ~ind.above
          [] c = "scalping" -> ind.atr >= 40
          [] c = "accumulation" -> ind.flow /\ ind.volRatio > 12 /\ ind.today >= 100
          [] c = "accumulation_silent" -> ind.cheap /\ ind.volRatio > 20 /\ ind.change3 < 2 /\ ind.flow
          [] c = "pullback" -> /\ Rising(ind) /\ ind.above200 /\ ~ind.above
                               /\ ind.rsi \in 41..59 /\ ~ind.macd /\ ind.volRatio < 10
          [] c = "turnaround_multibagger" -> /\ ind.today >= 5 /\ ind.cheap /\ ind.above /\ Rising(ind)
                                             /\ ind.volRatio > 10 /\ ind.flow /\ ind.rsi \in 31..59
          [] c = "ara_hunter" -> /\ ind.atHigh /\ ind.above /\ ind.volRatio > 30 /\ ind.rsi > 70
                                 /\ ind.macd /\ ind.flow /\ ind.today >= 50
          [] c = "frequently_traded" -> ind.volRatio > 20 /\ ind.today > 100
          [] c = "short_candidate" -> /\ ind.rsi > 70 /\ ~ind.macd /\ ~ind.above
                                      /\ ind.volRatio > 15 /\ ~ind.flow}

\* mock_screener_match: never a BUY, and no overlay.  Its turnover is made up.
MockRow(s) ==
    [at |-> s, live |-> FALSE, score |-> P(39), signal |-> "HOLD", illiquid |-> TRUE,
     final |-> P(39), lift |-> 0, ready |-> FALSE, swing |-> 0, categories |-> {"bullish"},
     today |-> 900, avg |-> NoData, change |-> 3, contested |-> FALSE]

\* The row of stock s, scored under regime, when the attribute says flag.
Row(s, regime, flag, raced) ==
    LET ind == MarketContext(s, regime)
        scored == SignalAndScore(ind, NoData)
        categories == Categorize(ind)
        overlay == ComputeOverlay(scored.score, categories, ind, ~flag)
    IN [at |-> s, live |-> TRUE, score |-> scored.score, signal |-> scored.signal, illiquid |-> flag,
        final |-> overlay.final, lift |-> overlay.lift, ready |-> overlay.ready,
        swing |-> IF flag THEN 0 ELSE SwingFit(ind), categories |-> categories,
        today |-> ind.today, avg |-> ind.avg, change |-> ind.change, contested |-> raced]

-----------------------------------------------------------------------------
\* _finalize, of the rows in the order of the universe.
Durable(row) == IF row.avg > 0 THEN Max({row.avg, row.today}) ELSE row.today

Before(a, b) ==
    \/ a.final > b.final
    \/ a.final = b.final /\ a.today > b.today
    \/ a.final = b.final /\ a.today = b.today /\ a.change > b.change
    \/ a.final = b.final /\ a.today = b.today /\ a.change = b.change /\ a.at < b.at

\* The members of S, best first: each at the place that the better ones leave it.
Ranked(S, Better(_, _)) ==
    [i \in 1..Cardinality(S) |-> CHOOSE x \in S : Cardinality({y \in S : Better(y, x)}) = i - 1]

\* Those of s that pass, in its order.
Passing(s, Passes(_)) ==
    LET places == Ranked({i \in DOMAIN s : Passes(s[i])}, <)
    IN [k \in DOMAIN places |-> s[places[k]]]

Wanted(row, wanted) == wanted = {} \/ wanted \cap row.categories # {}

FirstOf(s, limit) == SubSeq(s, 1, Min({Max({1, Min({limit, MaxLimit})}), Len(s)}))

\* Made-up rows are shown only when there are no others.
Finalize(all, limit, minScore, wanted, floor) ==
    LET anyLive == \E r \in all : r.live
        kept == {r \in all : /\ anyLive => r.live
                             /\ r.score >= minScore
                             /\ Durable(r) >= floor
                             /\ Wanted(r, wanted)}
    IN [matches |-> FirstOf(Ranked(kept, Before), limit), total |-> Cardinality(kept)]

\* Fault: the least score is compared with the final score.
SliceByFinal(screen, limit, minScore, wanted) ==
    LET kept == Passing(screen.matches, LAMBDA r : r.final >= minScore /\ Wanted(r, wanted))
    IN [matches |-> FirstOf(kept, limit), total |-> Len(kept)]

\* _slice_screener_result: the page of a request, cut from the snapshot of all.
Slice(screen, limit, minScore, wanted) ==
    LET kept == Passing(screen.matches, LAMBDA r : r.score >= minScore /\ Wanted(r, wanted))
    IN [matches |-> FirstOf(kept, limit), total |-> Len(kept)]

-----------------------------------------------------------------------------
Task(op, s) == [op |-> op, stock |-> s, regime |-> "unread", contested |-> FALSE, signal |-> "none", told |-> FALSE]

\* screen: the stocks are handed to the workers.
StartRun ==
    /\ todo = {} /\ \A t \in Threads : frame[t].op # "screen"
    /\ requests < MaxRequests
    /\ requests' = requests + 1
    /\ todo' = Stocks
    /\ matches' = [s \in Stocks |-> NoMatch]
    /\ UNCHANGED <<pc, frame, profile, context, illiquid>>

TakeStock(t) ==
    /\ At(t, "idle") /\ todo # {}
    /\ todo' = todo \ {Min(todo)}
    /\ Go(t, "load", Task("screen", Min(todo)))
    /\ UNCHANGED <<profile, context, illiquid, matches>>

\* analyze, for a stock's page, or score_symbol_cached, for one that the snapshot
\* lacks; they differ in what they make of the score.
StartOne(t) ==
    /\ \E s \in Stocks : Begin(t, "load", Task("one", s))
    /\ UNCHANGED engineVars

\* No data: the row, or the analysis, is made up; a cached score is none.
LoadFails(t) ==
    /\ At(t, "load")
    /\ matches' = IF frame[t].op = "screen" THEN [matches EXCEPT ![frame[t].stock] = MockRow(frame[t].stock)] ELSE matches
    /\ Done(t)
    /\ UNCHANGED <<profile, context, illiquid, todo>>

\* _index_context: the first readers find it unread.
Load(t) ==
    /\ At(t, "load")
    /\ IF context = "unread" THEN Go(t, "index", frame[t])
       ELSE Go(t, "score", [frame[t] EXCEPT !.regime = context])
    /\ UNCHANGED engineVars

\* The index's history arrives, or fails; either is kept for good.
ReadIndex(t) ==
    /\ At(t, "index")
    /\ context' \in Regimes
    /\ Go(t, "score", [frame[t] EXCEPT !.regime = context'])
    /\ UNCHANGED <<profile, illiquid, todo, matches>>

\* The frame of the others: who is to read the attribute, reads this one's.
Scored(t) ==
    /\ At(t, "score")
    /\ pc' = [pc EXCEPT ![t] = "build"]
    /\ frame' = [u \in Threads |-> IF At(u, "build") THEN [frame[u] EXCEPT !.contested = TRUE] ELSE frame[u]]
    /\ UNCHANGED <<requests, profile, context, todo, matches>>

\* Fault: the attribute is only ever set.
ScoreKeeping(t) ==
    /\ Scored(t)
    /\ illiquid' = (illiquid \/ Illiquid(profile[frame[t].stock]))

\* _signal_and_score: the score is the worker's, what it says of liquidity the engine's.
Score(t) ==
    /\ Scored(t)
    /\ illiquid' = Illiquid(profile[frame[t].stock])

BuildRow(t) ==
    /\ At(t, "build") /\ frame[t].op = "screen"
    /\ matches' = [matches EXCEPT ![frame[t].stock] = Row(frame[t].stock, frame[t].regime, illiquid, frame[t].contested)]
    /\ Done(t)
    /\ UNCHANGED <<profile, context, illiquid, todo>>

\* score_symbol_cached gives the row away.
BuildOne(t) ==
    /\ At(t, "build") /\ frame[t].op = "one"
    /\ Done(t)
    /\ UNCHANGED engineVars

\* analyze, which may blend in the probability of a model.
Analyze(t) ==
    /\ At(t, "build") /\ frame[t].op = "one"
    /\ \E probability \in {NoData, 9} :
         Go(t, "told", [frame[t] EXCEPT
             !.told = illiquid,
             !.signal = SignalAndScore(MarketContext(frame[t].stock, frame[t].regime), probability).signal])
    /\ UNCHANGED engineVars

Tell(t) == At(t, "told") /\ Done(t) /\ UNCHANGED engineVars

EngineNext ==
    \/ StartRun
    \/ \E t \in Threads :
         \/ TakeStock(t) \/ StartOne(t) \/ Load(t) \/ LoadFails(t) \/ ReadIndex(t) \/ Score(t)
         \/ BuildRow(t) \/ BuildOne(t) \/ Analyze(t) \/ Tell(t)

engineAll == <<pool, engineVars>>
EngineSpec == PoolInit /\ EngineInit /\ [][EngineNext]_engineAll

-----------------------------------------------------------------------------
Screened == {matches[s] : s \in {u \in Stocks : matches[u] # NoMatch}}
Complete == todo = {} /\ \A s \in Stocks : matches[s] # NoMatch

\* Whatever the workers' order, no overlay lifts a stock over what its turnover
\* allows, none that is not investable is a BUY, in a row or on its page, and one
\* that its row calls illiquid keeps its base score.
CappedByTurnover ==
    /\ \A r \in Screened : r.live =>
         LET turnover == ValueTraded(profile[r.at]) IN
         /\ r.score <= r.final /\ r.final <= LiquidityCapFor(turnover)
         /\ Illiquid(profile[r.at]) => r.signal # "BUY"
         /\ r.illiquid => r.final = r.score
    /\ \A t \in Threads : At(t, "told") => ~(Illiquid(profile[frame[t].stock]) /\ frame[t].signal = "BUY")

\* engine.py: "they can't be lifted into the top ranks": the row of a stock that is
\* not investable has a bonus, a ready mark or a swing fit only if another stock was
\* scored before the row read the engine's attribute; so has its page's warning.
LiftedOnlyByRace ==
    /\ \A r \in Screened : r.live /\ ~r.contested =>
         /\ r.illiquid = Illiquid(profile[r.at])
         /\ Illiquid(profile[r.at]) => r.lift = 0 /\ ~r.ready /\ r.swing = 0
    /\ \A t \in Threads : At(t, "told") /\ ~frame[t].contested =>
         frame[t].told = Illiquid(profile[frame[t].stock])

\* A page cut from the snapshot of all is the page that a screen for the request
\* would have computed, as long as no more stocks pass the floor than it holds.
SliceIsRun ==
    Complete => \A floor \in Floors :
        LET all == Finalize(Screened, MaxLimit, 0, {}, floor) IN
        all.total <= MaxLimit =>
            \A limit \in {1, MaxLimit}, minScore \in {P(50), P(70)}, wanted \in {{}, {"accumulation", "pullback"}} :
                Slice(all, limit, minScore, wanted) = Finalize(Screened, limit, minScore, wanted, floor)

=============================================================================
