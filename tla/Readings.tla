------------------------------ MODULE Readings ------------------------------
(***************************************************************************)
(* The memories behind Home: one entry each of the news feed (news), of    *)
(* the index quotes, the market condition and the overview (market), of a  *)
(* symbol's score (main), and of the dashboard's sections (snapshots).     *)
(* Each looks under a lock, fetches outside it, and settles what to keep   *)
(* and to answer; they differ in what they do with a fetch that fails, or  *)
(* comes back empty.                                                       *)
(***************************************************************************)
EXTENDS MarketClock, SequencesExt

CONSTANTS
    Ttl,    \* TTL of an entry, in ticks
    Kinds   \* the memories that a behaviour may be about

VARIABLES
    kind,      \* the memory
    reading,   \* its entry, or none
    lastGood,  \* _last_good, of the condition
    building,  \* _building, of the news
    file,      \* the section's file, which a start reads
    known,     \* history: a good reading has been stored since the start
    levels     \* history: levels of the index cached since the start

readingVars == <<kind, reading, lastGood, building, file, known, levels>>

NoReading == [good |-> FALSE, at |-> -Ttl]
NoLevel == "none"

ReadingsInit ==
    /\ kind \in Kinds
    /\ reading = NoReading
    /\ lastGood = FALSE
    /\ building = FALSE
    /\ file = NoReading
    /\ known = FALSE
    /\ levels = <<>>

Cached == reading # NoReading
Young == Cached /\ tick - reading.at < Ttl

\* Of a request: knew says whether a good reading had been stored when the one
\* that it answers with was looked for, level is the yardstick that it has, date the
\* trading date that a condition is for.
Looking == [op |-> "look", knew |-> known, level |-> NoLevel, date |-> 0, good |-> FALSE, fetched |-> NoLevel]

Fetching(t, f) == Begin(t, "fetch", f) /\ UNCHANGED <<clock, readingVars>>
Served(t) ==
    /\ Begin(t, "served", [Looking EXCEPT !.good = reading.good, !.knew = reading.knew])
    /\ UNCHANGED <<clock, readingVars>>

\* The answer of a request that has fetched.
Give(t, good) == Go(t, "served", [frame[t] EXCEPT !.good = good])

\* What is stored; the tick is the one of the store, the date that of the look.
Stored(t, good) ==
    [good |-> good, at |-> tick, knew |-> frame[t].knew, date |-> frame[t].date, level |-> frame[t].fetched]

-----------------------------------------------------------------------------
\* NewsService.feed: the entry, also an old one while another request builds.
LookNews(t) ==
    /\ kind = "news"
    /\ \E force \in BOOLEAN :
         IF Cached /\ ((Young /\ ~force) \/ building) THEN Served(t)
         ELSE /\ Begin(t, "fetch", Looking)
              /\ building' = TRUE
              /\ UNCHANGED <<clock, kind, reading, lastGood, file, known, levels>>

\* A feed is stored as it was built, also an empty one: the fetcher turns every failure
\* of the provider into no items.  Only a build that raises keeps the last feed.
SettleNews(t) ==
    /\ kind = "news" /\ At(t, "settle")
    /\ building' = FALSE
    /\ \/ /\ reading' = Stored(t, frame[t].good)
          /\ known' = (known \/ frame[t].good)
          /\ Give(t, frame[t].good)
       \/ ~frame[t].good /\ Give(t, reading.good) /\ UNCHANGED <<reading, known>>
    /\ UNCHANGED <<clock, kind, lastGood, file, levels>>

\* MarketIndicesService._get_one: the price in the cache is the next yardstick.
LookIndex(t) ==
    /\ kind = "index"
    /\ IF Young THEN Served(t)
       ELSE Fetching(t, [Looking EXCEPT !.level = IF Cached THEN reading.level ELSE NoLevel])

\* _reference_level: the middle one of an odd number of closes of two orders.
Median(closes) ==
    CHOOSE level \in Range(closes) : 2 * Cardinality({i \in DOMAIN closes : closes[i] = level}) > Len(closes)

\* The last close, unless it is of another order than most, or than the one before
\* it when there is no newer tick of its own order.
DailyLevel(closes, newer) ==
    LET daily == Last(closes)
        jumps == newer # daily /\ closes[Len(closes) - 1] # daily
    IN IF daily # Median(closes) \/ jumps THEN NoLevel ELSE daily

\* Fault: the level is not compared with what was trusted before.
QuoteOfItself(closes, newer, yardstick) == DailyLevel(closes, newer)

\* _fetch_quote: a level that is off the yardstick is as good as no quote.
Quote(closes, newer, yardstick) ==
    LET level == DailyLevel(closes, newer)
    IN IF yardstick \in {NoLevel, level} THEN level ELSE NoLevel

\* Fault: an unavailable quote is cached like any other.
SettleIndexAlways(t) ==
    /\ kind = "index" /\ At(t, "settle")
    /\ reading' = Stored(t, frame[t].good)
    /\ known' = (known \/ frame[t].good)
    /\ Give(t, frame[t].good)
    /\ UNCHANGED <<clock, kind, lastGood, building, file, levels>>

SettleIndex(t) ==
    /\ kind = "index" /\ At(t, "settle")
    /\ IF frame[t].good
       THEN /\ reading' = Stored(t, TRUE)
            /\ known' = TRUE
            /\ levels' = Append(levels, [level |-> frame[t].fetched, blind |-> frame[t].level = NoLevel])
            /\ Give(t, TRUE)
       ELSE Give(t, reading.good) /\ UNCHANGED <<reading, known, levels>>
    /\ UNCHANGED <<clock, kind, lastGood, building, file>>

\* MarketConditionService.get: while the market is closed, any entry of the date.
LookCondition(t) ==
    /\ kind = "condition"
    /\ IF Cached /\ (IF Open THEN Young ELSE reading.date = Today) THEN Served(t)
       ELSE Fetching(t, [Looking EXCEPT !.date = Today])

\* The reading that is good is the next one to fall back on,
SettleCondition(t) ==
    /\ kind = "condition" /\ At(t, "settle")
    /\ lastGood' = (lastGood \/ frame[t].good)
    /\ known' = (known \/ frame[t].good)
    /\ Go(t, "keep", [frame[t] EXCEPT !.good = lastGood'])
    /\ UNCHANGED <<clock, kind, reading, building, file, levels>>

\* and whatever came of it is cached, under a lock of its own.
KeepCondition(t) ==
    /\ At(t, "keep")
    /\ reading' = Stored(t, frame[t].good)
    /\ Give(t, frame[t].good)
    /\ UNCHANGED <<clock, kind, lastGood, building, file, known, levels>>

\* MarketOverviewService.get: an entry that the data is newer than is not served;
\* an unavailable one is kept like any other.
LookOverview(t) ==
    /\ kind = "overview"
    /\ \E newer \in BOOLEAN : IF Young /\ ~newer THEN Served(t) ELSE Fetching(t, Looking)

\* _symbol_score: a score, or the lack of one, is remembered as it was found.
LookScore(t) ==
    /\ kind = "score"
    /\ IF Young THEN Served(t) ELSE Fetching(t, Looking)

SettleAnything(t) ==
    /\ kind \in {"overview", "score"} /\ At(t, "settle")
    /\ reading' = Stored(t, frame[t].good)
    /\ known' = (known \/ frame[t].good)
    /\ Give(t, frame[t].good)
    /\ UNCHANGED <<clock, kind, lastGood, building, file, levels>>

\* SnapshotService._section: a request of the app takes an old entry, the scheduler,
\* the publisher and a forced request rebuild.
LookSection(t) ==
    /\ kind = "section"
    /\ \E force, block \in BOOLEAN :
         IF Cached /\ ~force /\ (Young \/ ~block) THEN Served(t) ELSE Fetching(t, Looking)

\* put_guarded: an empty section replaces nothing; the file may fail to be written.
SettleSection(t) ==
    /\ kind = "section" /\ At(t, "settle")
    /\ IF frame[t].good
       THEN /\ reading' = Stored(t, TRUE)
            /\ file' \in {file, reading'}
            /\ known' = TRUE
            /\ Give(t, TRUE)
       ELSE Give(t, reading.good) /\ UNCHANGED <<reading, file, known>>
    /\ UNCHANGED <<clock, kind, lastGood, building, levels>>

-----------------------------------------------------------------------------
\* Closes of an index, as far as they are of the right order of magnitude; a tick of
\* the day after them is another, or there is none.
Magnitudes == {"right", "off"}
Windows == [1..3 -> Magnitudes]
Newer == Magnitudes \cup {NoLevel}

\* classify_multi_horizon of n closes: what of the reading is known.
Conditioned(n) ==
    LET least == [daily |-> 12, weekly |-> 12, monthly |-> 21]
    IN [known |-> n >= 25, horizons |-> {h \in DOMAIN least : n >= least[h]}]

\* _has_signal.
HasSignal(condition) == condition.known /\ condition.horizons # {}

\* What a fetch comes to: a reading that is good, or is not, with its level.
Outcomes(f) ==
    CASE kind = "index" ->
           {[good |-> level # NoLevel, level |-> level] :
              level \in {Quote(closes, newer, f.level) : closes \in Windows, newer \in Newer}}
      [] kind = "condition" -> {[good |-> HasSignal(Conditioned(n)), level |-> NoLevel] : n \in {20, 250}}
      [] OTHER -> {[good |-> TRUE, level |-> NoLevel]}

\* The provider answers, or it fails or has nothing, which makes no good reading.
Fetched(t) ==
    /\ At(t, "fetch")
    /\ \E outcome \in Outcomes(frame[t]) \cup {[good |-> FALSE, level |-> NoLevel]} :
         Go(t, "settle", [frame[t] EXCEPT !.good = outcome.good, !.fetched = outcome.level])
    /\ UNCHANGED <<clock, readingVars>>

Serve(t) == At(t, "served") /\ Done(t) /\ UNCHANGED <<clock, readingVars>>

\* A restart keeps a section's file.
ReadingsRestart ==
    /\ \E t \in Threads : ~At(t, "idle")
    /\ pc' = [t \in Threads |-> "idle"]
    /\ frame' = [t \in Threads |-> NoFrame]
    /\ reading' = file
    /\ known' = file.good
    /\ lastGood' = FALSE
    /\ building' = FALSE
    /\ levels' = <<>>
    /\ UNCHANGED <<requests, clock, kind, file>>

ReadingsNext ==
    \/ Tick /\ UNCHANGED <<pool, readingVars>>
    \/ ReadingsRestart
    \/ \E t \in Threads :
         \/ LookNews(t) \/ LookIndex(t) \/ LookCondition(t) \/ LookOverview(t) \/ LookScore(t) \/ LookSection(t)
         \/ Fetched(t) \/ Serve(t)
         \/ SettleNews(t) \/ SettleIndex(t) \/ SettleCondition(t) \/ KeepCondition(t)
         \/ SettleAnything(t) \/ SettleSection(t)

-----------------------------------------------------------------------------

\* Home does not go blank: an index, the market condition or a section of the dashboard
\* is answered without a good reading only if none had been stored when the one that it
\* shows was looked for.  The news, the overview and the scores do not keep that: they
\* store an empty one for its TTL, the news although its module says that it never goes
\* blank.
GoodReadingsKept ==
    \A t \in Threads : (kind \notin {"news", "overview", "score"} /\ At(t, "served") /\ ~frame[t].good) => ~frame[t].knew

\* A level that is off by a factor gets into the index's cache, and so becomes the
\* yardstick, only by a fetch that began before there was any: each level cached
\* was brought by such a fetch, however slow fetches and restarts interleave.
LevelsComeFirst ==
    \A i \in DOMAIN levels : \E j \in 1..i : levels[j].level = levels[i].level /\ levels[j].blind

=============================================================================
