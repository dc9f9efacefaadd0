--------------------------- MODULE PortfolioAdvice ---------------------------
(***************************************************************************)
(* RebalanceService over PortfolioHealthService: what to do with each      *)
(* holding, and the report of PortfolioManagerService.  One request reads  *)
(* the holdings twice and each name's score twice, once for its quality    *)
(* and once for the decision; trades, prices and the memory of scores may  *)
(* move in between.                                                        *)
(*                                                                         *)
(* Scores are in points, qualities in hundredths of a point, weights in    *)
(* hundredths of a percent and profits in percent.  Requests share         *)
(* nothing: one is followed at a time.                                     *)
(***************************************************************************)
EXTENDS RequestThreads, Scoring, SequencesExt

CONSTANTS
    Names,           \* names that are followed, numbers
    Rest, RestValue, \* number of other holdings, and the value of each
    Holdings,        \* holdings of a name, with value and gain
    Matches,         \* matches of a name, with score, signal, change and volume (its liquidity score)
    Tapes,           \* what is cached of a name's prices: its last, and its pivot lows in order
    Entries,         \* scores with which the journal says a name was bought, 0 if it does not
    Shares,          \* percents of the equity that are cash
    Breadths,        \* advancing and all rows of a market's snapshot, no rows without one
    ProfileCap,      \* PROFILE_MAX_WEIGHT of the profile
    AverageDownMax,  \* AVERAGE_DOWN_MAX
    MaxChanges       \* bound: changes of a holding or a score

ASSUME NamesAssumption == IsFiniteSet(Names) /\ Names \subseteq Nat
ASSUME RestAssumption == Rest \in Nat /\ RestValue \in Nat
ASSUME HoldingsAssumption == Holdings \subseteq [value: Nat \ {0}, gain: Int]

\* A SELL is a score below 50, which may be rounded up to it.
ASSUME MatchesAssumption ==
    \A m \in Matches :
        /\ m \in [score: 0..100, signal: {"BUY", "HOLD", "SELL"}, change: Int, volume: 0..100]
        /\ m.signal = "SELL" => m.score <= 50

VARIABLES
    held,     \* holding of each name, or Nothing
    match,    \* what _symbol_score gives for each name, of mock data too, or Nothing
    regime,   \* _snapshot_regime of the market
    changes   \* changes so far

adviceVars == <<held, match, regime, changes>>

Nothing == [none |-> TRUE]

NoReport == [strong |-> {}, weak |-> {}, crowded |-> {}, level |-> "none", notes |-> {}]

\* Without a snapshot the regime is none of the radar's.
SnapshotRegime(breadth) == IF breadth.rows = 0 THEN "neutral" ELSE RegimeFromBreadth(breadth.advancing, breadth.rows)

AdviceInit ==
    /\ held \in [Names -> Holdings \cup {Nothing}]
    /\ match \in [Names -> Matches \cup {Nothing}]
    /\ regime \in {SnapshotRegime(b) : b \in Breadths}
    /\ changes = 0

-----------------------------------------------------------------------------
\* A table with one more entry.
With(table, n, v) == [m \in {n} \cup DOMAIN table |-> IF m = n THEN v ELSE table[m]]

Bounded(p) == Max({0, Min({100, p})})

\* A red day takes 25 points at most.
AfterDay(change, up, down) == Bounded(50 + (IF change >= 0 THEN change * up ELSE Max({-25, (change * down) \div 10})))

\* _quality_for: of a name without a score, a placeholder.
Quality(m) ==
    LET risk == (6 * m.score + 4 * m.volume) \div 10
    IN IF m = Nothing THEN [quality |-> 5000, lowConfidence |-> TRUE]
       ELSE [lowConfidence |-> FALSE,
             quality |-> 40 * m.score + 20 * AfterDay(m.change, 5, 20) + 15 * AfterDay(m.change, 6, 24)
                         + 10 * m.volume + 15 * Bounded(IF m.signal = "SELL" THEN risk - 25 ELSE risk)]

TargetWeight(score) ==
    Min({ProfileCap, CASE score >= 90 -> 20 [] score \in 80..89 -> 15 [] score \in 70..79 -> 10 [] score < 70 -> 5})

\* Profit over cost, cut to a whole percent.
PnlPercent(holding) ==
    LET cost == holding.value - holding.gain
    IN IF cost <= 0 THEN 0
       ELSE IF holding.gain >= 0 THEN (100 * holding.gain) \div cost
       ELSE -((-100 * holding.gain) \div cost)

\* Pivot lows within 1.5% of the first of them are one level.
Levels(pivots) ==
    FoldLeft(LAMBDA levels, low :
                 IF levels # <<>> /\ 1000 * low <= 1015 * Last(levels)[1]
                 THEN Append(Front(levels), Append(Last(levels), low))
                 ELSE Append(levels, <<low>>),
             <<>>, pivots)

\* _tested_swing_support: the highest level at or below the price that was tested
\* twice; 0 if there is none.
TestedSupport(tape) ==
    LET mean(lows) == FoldLeft(LAMBDA sum, low : sum + low, 0, lows) \div Len(lows)
        tested == {mean(lows) : lows \in {l \in Range(Levels(tape.pivots)) : Len(l) >= 2}}
    IN Max({0} \cup {level \in tested : 1000 * level <= 1015 * tape.price})

\* near is at most 3% above the level, broken 3% below it, which it never is.
SupportContext(tape) ==
    LET level == TestedSupport(tape)
    IN [near |-> level > 0 /\ tape.price \in level..(103 * level) \div 100,
        broken |-> 100 * tape.price < 97 * level]

\* Fault: a loss is enough for a name that is not strong by its score.
ExitOnLoss(x) ==
    {r \in {<<"score", x.real /\ x.score < 45>>,
            <<"sell", x.signal = "SELL">>,
            <<"quality", x.real /\ x.quality < 4000>>,
            <<"loss", x.real /\ x.pnl <= -20 /\ x.score < 75>>} : r[2]}

\* The reasons that there are to exit, or to reduce; x is what is read of the name.
ExitReasons(x) ==
    {r \in {<<"score", x.real /\ x.score < 45>>,
            <<"sell", x.signal = "SELL">>,
            <<"quality", x.real /\ x.quality < 4000>>,
            <<"loss", x.real /\ x.pnl <= -20 /\ x.score < 55>>} : r[2]}

Triggers(x, ceiling) ==
    {r \in {<<"concentration", x.weight > P(30) \/ (x.weight > 2 * x.average /\ x.weight > P(15))>>,
            <<"score", x.score < 65>>,
            <<"quality", x.quality < 6000 /\ x.score < ceiling>>,
            <<"profit", x.pnl >= 30 /\ x.score < 80>>,
            <<"regime", x.bearish /\ x.weight >= x.target - 50 /\ x.weight > 0>>} : r[2]}

Trusted(x, triggers) == {r \in triggers : r[1] \in {"score", "quality", "profit"} => x.real}

\* Faults: a placeholder counts like a score, and a quality whatever the score is.
ReduceOnAnything(x) == Triggers(x, 75)
ReduceOnQuality(x) == Trusted(x, Triggers(x, 101))

ReduceReasons(x) == Trusted(x, Triggers(x, 75))

Add(x) == x.score >= 85 /\ x.quality >= 8000 /\ x.weight < x.target /\ ~x.bearish

AverageDown(x) ==
    /\ x.real /\ x.support.near /\ ~x.support.broken
    /\ x.losing /\ x.score >= 50 /\ x.weight < x.target /\ ~x.bearish

\* _decide, in the order of its returns.
Decide(x) ==
    CASE ExitReasons(x) # {} -> [action |-> "EXIT", reasons |-> ExitReasons(x)]
      [] ExitReasons(x) = {} /\ ReduceReasons(x) # {} -> [action |-> "REDUCE", reasons |-> ReduceReasons(x)]
      [] OTHER ->
           IF Add(x) THEN [action |-> "ADD", reasons |-> {}]
           ELSE IF AverageDown(x) THEN [action |-> "AVERAGE", reasons |-> {}]
           ELSE IF ~x.real /\ x.pnl <= -10 THEN [action |-> "REVIEW", reasons |-> {}]
           ELSE [action |-> "HOLD", reasons |-> {}]

\* The best of those that may average down do; a deeper loss goes first.
CapAverages(advice) ==
    LET averaging == {n \in DOMAIN advice : advice[n].action = "AVERAGE"}
        ahead(n) == {o \in averaging : \/ advice[o].score > advice[n].score
                                       \/ advice[o].score = advice[n].score /\ advice[o].pnl < advice[n].pnl
                                       \/ advice[o].score = advice[n].score /\ advice[o].pnl = advice[n].pnl /\ o < n}
    IN [n \in DOMAIN advice |-> IF n \in averaging /\ Cardinality(ahead(n)) >= AverageDownMax
                                THEN [advice[n] EXCEPT !.action = "HOLD"] ELSE advice[n]]

-----------------------------------------------------------------------------
Owned == {n \in Names : held[n] # Nothing}
NoAdvice == [n \in {} |-> "none"]

\* rebalance and report both ask health first, which reads the holdings,
StartAdvice(t) ==
    /\ \A u \in Threads : At(u, "idle")
    /\ \E op \in {"advice", "report"} :
         Begin(t, "health", [op |-> op, left |-> Owned, qualities |-> NoAdvice, book |-> NoAdvice,
                             advice |-> NoAdvice, report |-> NoReport, steady |-> TRUE])
    /\ UNCHANGED adviceVars

\* and then each one's score.
ReadQuality(t) ==
    /\ At(t, "health") /\ frame[t].left # {}
    /\ LET n == Min(frame[t].left) IN
       Go(t, "health", [frame[t] EXCEPT !.left = @ \ {n}, !.qualities = With(@, n, Quality(match[n]))])
    /\ UNCHANGED adviceVars

\* The holdings once more.
ReadBook(t) ==
    /\ At(t, "health") /\ frame[t].left = {}
    /\ Go(t, IF frame[t].op = "advice" THEN "decide" ELSE "report",
          [frame[t] EXCEPT !.left = Owned, !.book = [n \in Owned |-> held[n]]])
    /\ UNCHANGED adviceVars

Invested(book) ==
    LET value(m) == book[m].value
    IN Rest * RestValue + MapThenSumSet(value, DOMAIN book)

\* Weight of a value in the book.
Weight(value, book) == (P(100) * value) \div Invested(book)

\* _recommendations: of the names whose quality health gave, those that have fallen
\* since they were bought or are low are weak, whether they have a score or not;
\* the largest holding is named when it dominates.
Recommendations(f, entry, cash) ==
    LET names == DOMAIN f.qualities
        quality(n) == f.qualities[n].quality
        fallen == {n \in names : 100 * entry[n] - quality(n) >= 1500}
        largest == Max({RestValue} \cup {f.book[n].value : n \in DOMAIN f.book})
        share == Weight(largest, f.book)
        dominant == {n \in DOMAIN f.book : f.book[n].value = largest}
    IN IF Rest + Cardinality(DOMAIN f.book) = 0 THEN NoReport ELSE
       [weak |-> fallen \cup {n \in names : quality(n) < 6000},
        strong |-> {n \in names \ fallen : quality(n) >= 8000},
        crowded |-> IF share < P(35) \/ largest = RestValue THEN {} ELSE {Min(dominant)},
        level |-> IF share >= P(55) THEN "critical" ELSE IF share >= P(35) THEN "warning" ELSE "none",
        notes |-> {note \in {<<"low cash", cash < 5>>, <<"few holdings", Rest + Cardinality(DOMAIN f.book) < 3>>} : note[2]}]

\* report: the account and the journal are read last.
Report(t) ==
    /\ At(t, "report")
    /\ \E entry \in [DOMAIN frame[t].qualities -> Entries], cash \in Shares :
         Go(t, "advised", [frame[t] EXCEPT !.left = {}, !.report = Recommendations(frame[t], entry, cash)])
    /\ UNCHANGED adviceVars

\* What the decision on name n is taken from: its score is read here, its quality is
\* health's, or that of a name that health has not seen.  A match counts as a score
\* wherever it comes from: a snapshot whose rows are all mock data keeps them, and
\* _symbol_score hands them out as it does real ones.
Considered(f, n, tape) ==
    LET known == n \in DOMAIN f.qualities
        score == IF match[n] = Nothing THEN 50 ELSE match[n].score
    IN [score |-> score,
        signal |-> IF match[n] = Nothing THEN "HOLD" ELSE match[n].signal,
        quality |-> IF known THEN f.qualities[n].quality ELSE 5000,
        real |-> IF known THEN ~f.qualities[n].lowConfidence ELSE match[n] # Nothing,
        weight |-> Weight(f.book[n].value, f.book),
        average |-> P(100) \div (Rest + Cardinality(DOMAIN f.book)),
        bearish |-> regime = "BEAR", target |-> P(TargetWeight(score)),
        pnl |-> PnlPercent(f.book[n]), losing |-> f.book[n].gain < 0, support |-> SupportContext(tape)]

DecideOne(t) ==
    /\ At(t, "decide") /\ frame[t].left # {}
    /\ \E tape \in Tapes :
         LET n == Min(frame[t].left)
             x == Considered(frame[t], n, tape)
             decided == Decide(x)
         IN Go(t, "decide", [frame[t] EXCEPT
                !.left = @ \ {n},
                !.advice = With(@, n, [action |-> decided.action, reasons |-> {r[1] : r \in decided.reasons},
                                       score |-> x.score, signal |-> x.signal, pnl |-> x.pnl,
                                       scored |-> match[n] # Nothing])])
    /\ UNCHANGED adviceVars

Advise(t) ==
    /\ At(t, "decide") /\ frame[t].left = {}
    /\ Go(t, "advised", [frame[t] EXCEPT !.advice = CapAverages(@)])
    /\ UNCHANGED adviceVars

Advised(t) == At(t, "advised") /\ Done(t) /\ UNCHANGED adviceVars

\* A trade or a price, a new snapshot, or a memo that expires when there is none.
Change ==
    /\ changes < MaxChanges
    /\ changes' = changes + 1
    /\ \/ \E n \in Names, h \in Holdings \cup {Nothing} : held' = [held EXCEPT ![n] = h] /\ UNCHANGED <<match, regime>>
       \/ \E n \in Names, m \in Matches \cup {Nothing} : match' = [match EXCEPT ![n] = m] /\ UNCHANGED <<held, regime>>
    /\ frame' = [t \in Threads |-> IF At(t, "idle") THEN frame[t] ELSE [frame[t] EXCEPT !.steady = FALSE]]
    /\ UNCHANGED <<pc, requests>>

AdviceNext ==
    \/ Change
    \/ \E t \in Threads :
         \/ StartAdvice(t) \/ ReadQuality(t) \/ ReadBook(t) \/ DecideOne(t) \/ Advise(t)
         \/ Report(t) \/ Advised(t)

adviceAll == <<pool, adviceVars>>
AdviceSpec == PoolInit /\ AdviceInit /\ [][AdviceNext]_adviceAll

-----------------------------------------------------------------------------
\* What the user is told of the names, when it was all read of one state.
SteadyAdvice == UNION {{frame[t].advice[n] : n \in DOMAIN frame[t].advice} :
                         t \in {u \in Threads : At(u, "advised") /\ frame[u].steady}}

\* rebalance/service.py: "an 'unknown' name is never auto-EXITed / auto-REDUCEd on a
\* fabricated read": a name without a score is told to go only for its weight or the
\* regime, and never to be bought, unless a holding or a score changed while the request ran.
NothingFabricated ==
    \A a \in SteadyAdvice : ~a.scored =>
        a.action \notin {"EXIT", "ADD", "AVERAGE"} /\ (a.action = "REDUCE" => a.reasons \subseteq {"concentration", "regime"})

\* "a strong high-score name whose quality merely dipped after a down day is NOT
\* trimmed on that alone", nor sold: with the same proviso.
StrongNamesStay ==
    \A a \in SteadyAdvice : a.scored /\ a.score >= 75 /\ a.signal # "SELL" =>
        a.action # "EXIT" /\ a.reasons \subseteq {"concentration", "profit", "regime"}

\* The report and the rebalance do not contradict each other on the same holdings and
\* scores ("remains one of the highest-quality positions", "Consider trimming"): what
\* the one calls strong the other does not exit, what it finds too large is told to go
\* at least in part.
PagesAgree ==
    \A t \in {u \in Threads : At(u, "advised") /\ frame[u].op = "report" /\ frame[u].steady}, tape \in Tapes :
        LET action(n) == Decide(Considered(frame[t], n, tape)).action
        IN /\ \A n \in frame[t].report.strong : action(n) # "EXIT"
           /\ \A n \in frame[t].report.crowded : action(n) \in {"EXIT", "REDUCE"}

=============================================================================
