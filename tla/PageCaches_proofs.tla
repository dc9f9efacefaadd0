------------------------- MODULE PageCaches_proofs -------------------------
(***************************************************************************)
(* Theorems about the caches that the app's pages are served from, for any *)
(* threads, calendar, ages, cooldowns and number of requests: the memories *)
(* behind Home, the screener's cache, the cache layer, and what is         *)
(* published to object storage.                                            *)
(***************************************************************************)
EXTENDS Pages, SequenceTheorems, WellFoundedInduction, TLAPS

-----------------------------------------------------------------------------
(* The request threads. *)

Pool == pc = [t \in Threads |-> pc[t]] /\ frame = [t \in Threads |-> frame[t]]

\* Thread t goes to l with the locals f, the others stay where they are.
Moved(t, l, f) ==
    /\ Pool'
    /\ pc'[t] = l /\ frame'[t] = f
    /\ \A u \in Threads : u # t => pc'[u] = pc[u] /\ frame'[u] = frame[u]

\* A thread that goes on leaves the others where they are.
LEMMA Moves ==
    ASSUME Pool, NEW t \in Threads, NEW l, NEW f, Begin(t, l, f) \/ Go(t, l, f)
    PROVE  Moved(t, l, f)
BY DEF Pool, Moved, Begin, Go

\* So does one that returns.
LEMMA Ends ==
    ASSUME Pool, NEW t \in Threads, Done(t)
    PROVE  Moved(t, "idle", NoFrame)
BY Moves DEF Done

-----------------------------------------------------------------------------
(* Tables in the order of their entries. *)

Ordered(s) == Len(s) \in Nat /\ s = [i \in 1..Len(s) |-> s[i]]

\* An appended entry is the last one, and the others stay where they are.
LEMMA OneMore ==
    ASSUME NEW s, Ordered(s), NEW e
    PROVE  /\ Ordered(Append(s, e)) /\ Len(Append(s, e)) = Len(s) + 1
           /\ \A i \in 1..Len(s) : Append(s, e)[i] = s[i]
           /\ Append(s, e)[Len(s) + 1] = e
<1> DEFINE S == {s[i] : i \in 1..Len(s)} \cup {e}
<1>1. s \in Seq(S)
  <2>1. s \in [1..Len(s) -> S]
    BY DEF Ordered
  <2> HIDE DEF S
  <2> QED
    BY <2>1, SeqDef DEF Ordered
<1>2. e \in S
  OBVIOUS
<1> HIDE DEF S
<1>3. Append(s, e) \in Seq(S)
  BY <1>1, <1>2, AppendProperties
<1>4. Append(s, e) \in [1..Len(Append(s, e)) -> S] /\ Len(Append(s, e)) \in Nat
  BY <1>3, LenProperties
<1>5. Len(Append(s, e)) = Len(s) + 1 /\ Append(s, e)[Len(s) + 1] = e
      /\ \A i \in 1..Len(s) : Append(s, e)[i] = s[i]
  BY <1>1, <1>2, AppendProperties
<1> QED
  BY <1>4, <1>5 DEF Ordered

-----------------------------------------------------------------------------
(* The memories behind Home.  A request that looked when a good reading had  *)
(* been stored finds a good one to fall back on, and an index's yardstick is *)
(* a level that is in its cache.                                             *)

Guarded == kind \notin {"news", "overview", "score"}

IsReading(r) ==
    /\ r = [good |-> r.good, at |-> r.at, knew |-> r.knew, date |-> r.date, level |-> r.level]
    /\ r.good \in BOOLEAN /\ r.knew \in BOOLEAN
Columns(f) == f = [op |-> f.op, knew |-> f.knew, level |-> f.level, date |-> f.date, good |-> f.good, fetched |-> f.fetched]
IsLook(f) == Columns(f) /\ f.good \in BOOLEAN /\ f.knew \in BOOLEAN

\* Level l is one of the levels ls.
Among(l, ls) == \E j \in 1..Len(ls) : ls[j].level = l

\* The locals f that a request may have at l, when kn says that a good reading has
\* been stored and ls are the levels cached.
Looks(l, f, kn, ls) ==
    /\ l \in {"fetch", "settle", "keep", "served"} => IsLook(f)
    /\ l \in {"fetch", "settle"} =>
         /\ f.knew => kn
         /\ f.level # NoLevel => Among(f.level, ls)
    /\ l = "settle" /\ kind = "index" /\ f.good => f.level \in {NoLevel, f.fetched}
    /\ l = "keep" => kind = "condition"
    /\ l \in {"keep", "served"} /\ Guarded => f.good \/ ~f.knew

Lookers == Pool /\ \A t \in Threads : Looks(pc[t], frame[t], known, levels)

\* The entry and what it falls back on.
Memory ==
    /\ known \in BOOLEAN /\ lastGood \in BOOLEAN
    /\ reading = NoReading \/ IsReading(reading)
    /\ Cached /\ Guarded => reading.good \/ ~reading.knew
    /\ kind \in {"index", "section"} => (Cached \/ known => reading.good)
    /\ kind = "condition" => (known => lastGood)
    /\ file = NoReading \/ (kind = "section" /\ IsReading(file) /\ file.good)

Yardsticks ==
    /\ Ordered(levels) /\ LevelsComeFirst
    /\ kind = "index" /\ Cached => Among(reading.level, levels)

ReadingsInv == Lookers /\ Memory /\ Yardsticks

LEMMA ReadingsBegin == PoolInit /\ ReadingsInit => ReadingsInv
<1> SUFFICES ASSUME PoolInit, ReadingsInit PROVE ReadingsInv
  OBVIOUS
<1>1. Lookers
  BY DEF PoolInit, Lookers, Pool, Looks
<1>2. Memory
  BY DEF ReadingsInit, Memory, Cached, NoReading
<1>3. Ordered(<<>>) /\ DOMAIN <<>> = {}
  BY DEF Ordered
<1>4. Yardsticks
  BY <1>3 DEF ReadingsInit, Yardsticks, LevelsComeFirst, Cached, NoReading
<1> QED
  BY <1>1, <1>2, <1>4 DEF ReadingsInv

\* A request that has begun to look knows what was known then.
LEMMA LookingIs ==
    /\ Columns(Looking) /\ Looking.knew = known /\ Looking.level = NoLevel
    /\ Looking.good = FALSE /\ Looking.fetched = NoLevel
BY DEF Looking, Columns

\* A level that is cached stays so, and the others' locals hold on.
LEMMA LookersStay ==
    ASSUME Lookers, NEW t \in Threads, NEW l, NEW f, Moved(t, l, f), kind' = kind,
           known => known', \A x : Among(x, levels) => Among(x, levels'),
           Looks(l, f, known', levels')
    PROVE  Lookers'
<1>1. ASSUME NEW u \in Threads, u # t PROVE Looks(pc[u], frame[u], known', levels')
  BY DEF Lookers, Looks
<1>2. ASSUME NEW u \in Threads PROVE Looks(pc'[u], frame'[u], known', levels')
  BY <1>1 DEF Moved
<1> QED
  BY <1>2 DEF Lookers, Moved, Looks, Guarded

\* A thread that looks finds nothing to show, or an entry.
LEMMA LookFetches ==
    ASSUME ReadingsInv, NEW t \in Threads, NEW f, Begin(t, "fetch", f), Looks("fetch", f, known, levels),
           building' \in {building, TRUE}, UNCHANGED <<kind, reading, lastGood, file, known, levels>>
    PROVE  ReadingsInv'
<1>1. Moved(t, "fetch", f)
  BY Moves DEF ReadingsInv, Lookers
<1>2. Lookers'
  BY <1>1, LookersStay DEF ReadingsInv
<1> QED
  BY <1>2 DEF ReadingsInv, Memory, Guarded, Cached, Yardsticks, Ordered, LevelsComeFirst

\* A request that finds what it looks for in a cache answers from it.
LEMMA LookServes ==
    ASSUME ReadingsInv, NEW t \in Threads, Cached, Served(t)
    PROVE  ReadingsInv'
<1>1. PICK f : f = [Looking EXCEPT !.good = reading.good, !.knew = reading.knew]
  OBVIOUS
<1>2. Columns(f) /\ f.knew = reading.knew /\ f.good = reading.good
  <2>1. PICK g, v, w : g = Looking /\ v = reading.good /\ w = reading.knew
    OBVIOUS
  <2>2. PICK h : h = [g EXCEPT !.good = v]
    OBVIOUS
  <2>3. f = [h EXCEPT !.knew = w]
    BY <1>1, <2>1, <2>2, Zenon
  <2>4. Columns(g)
    BY <2>1, LookingIs
  <2>5. Columns(h) /\ h.good = v
    BY <2>2, <2>4 DEF Columns
  <2>6. Columns(f) /\ f.knew = w /\ f.good = v
    BY <2>3, <2>5 DEF Columns
  <2> QED
    BY <2>1, <2>6
<1>3. Looks("served", f, known, levels)
  BY <1>2 DEF Looks, IsLook, ReadingsInv, Memory, Cached, IsReading
<1>4. Begin(t, "served", f)
  BY <1>1, Zenon DEF Served
<1>5. Moved(t, "served", f)
  BY <1>4, Moves DEF ReadingsInv, Lookers
<1>6. UNCHANGED <<kind, reading, lastGood, file, known, levels>>
  BY DEF Served, readingVars
<1>7. Lookers'
  BY <1>3, <1>5, <1>6, LookersStay DEF ReadingsInv
<1> QED
  BY <1>6, <1>7 DEF ReadingsInv, Memory, Guarded, Cached, Yardsticks, Ordered, LevelsComeFirst

\* The locals of a request that looks.
LEMMA LookingFits ==
    ASSUME ReadingsInv, NEW y, y \in {NoLevel, reading.level}, y = NoLevel \/ (kind = "index" /\ Cached)
    PROVE  Looks("fetch", [Looking EXCEPT !.level = y], known, levels)
<1> DEFINE f == [Looking EXCEPT !.level = y]
<1>1. Columns(f) /\ f.knew = known /\ f.level = y /\ f.good = FALSE
  BY LookingIs DEF Columns
<1> HIDE DEF f
<1> QED
  BY <1>1 DEF f, Looks, IsLook, ReadingsInv, Memory, Yardsticks

LEMMA LookKeeps ==
    ASSUME ReadingsInv, NEW t \in Threads,
           \/ LookNews(t) \/ LookIndex(t) \/ LookCondition(t) \/ LookOverview(t) \/ LookScore(t) \/ LookSection(t)
    PROVE  ReadingsInv'
<1>1. Looks("fetch", Looking, known, levels)
  <2>1. Looking = [Looking EXCEPT !.level = NoLevel]
    BY LookingIs DEF Columns
  <2> QED
    BY <2>1, LookingFits
<1>2. \/ Cached /\ Served(t)
      \/ /\ \E f : Begin(t, "fetch", f) /\ Looks("fetch", f, known, levels)
         /\ building' \in {building, TRUE} /\ UNCHANGED <<kind, reading, lastGood, file, known, levels>>
  <2>1. CASE LookNews(t)
    BY <1>1, <2>1 DEF LookNews
  <2>2. CASE LookIndex(t)
    <3>1. CASE Young
      BY <2>2, <3>1 DEF LookIndex, Young
    <3>2. CASE ~Young
      <4> DEFINE y == IF Cached THEN reading.level ELSE NoLevel
      <4>1. Looks("fetch", [Looking EXCEPT !.level = y], known, levels)
        BY <2>2, LookingFits DEF LookIndex
      <4> QED
        BY <2>2, <3>2, <4>1 DEF LookIndex, Fetching, readingVars
    <3> QED
      BY <3>1, <3>2
  <2>3. CASE LookOverview(t) \/ LookScore(t) \/ LookSection(t)
    BY <1>1, <2>3 DEF LookOverview, LookScore, LookSection, Fetching, Young, readingVars
  <2>4. CASE LookCondition(t)
    <3>1. PICK f : f = [Looking EXCEPT !.date = Today]
      OBVIOUS
    <3>2. Columns(f) /\ f.knew = Looking.knew /\ f.level = Looking.level /\ f.good = Looking.good
      BY <3>1, LookingIs DEF Columns
    <3>3. Looks("fetch", f, known, levels)
      BY <1>1, <3>2 DEF Looks, IsLook
    <3> QED
      BY <2>4, <3>1, <3>3 DEF LookCondition, Fetching, readingVars
  <2> QED
    BY <2>1, <2>2, <2>3, <2>4
<1> QED
  BY <1>2, LookServes, LookFetches


\* What a fetch brings: of an index a level that agrees with the yardstick.
LEMMA FetchKeeps ==
    ASSUME ReadingsInv, NEW t \in Threads, Fetched(t)
    PROVE  ReadingsInv'
<1>1. PICK e, outcome :
         /\ e = frame[t] /\ Columns(e) /\ e.knew \in BOOLEAN
         /\ outcome \in Outcomes(e) \cup {[good |-> FALSE, level |-> NoLevel]}
         /\ Go(t, "settle", [e EXCEPT !.good = outcome.good, !.fetched = outcome.level])
  BY DEF Fetched, At, ReadingsInv, Lookers, Looks, IsLook
<1>2. PICK v, w : v = outcome.good /\ w = outcome.level
  OBVIOUS
<1>3. v \in BOOLEAN /\ (kind = "index" /\ v => e.level \in {NoLevel, w})
  <2>1. CASE outcome \in Outcomes(e) /\ kind = "index"
    <3>1. PICK closes \in Windows, newer \in Newer :
             outcome = [good |-> Quote(closes, newer, e.level) # NoLevel, level |-> Quote(closes, newer, e.level)]
      BY <2>1 DEF Outcomes
    <3>2. v = (w # NoLevel) /\ w = Quote(closes, newer, e.level)
      BY <1>2, <3>1
    <3>3. v => e.level \in {NoLevel, w}
      BY <3>2 DEF Quote
    <3> QED
      BY <3>2, <3>3
  <2>2. CASE outcome \in Outcomes(e) /\ kind = "condition"
    <3>1. PICK n \in {20, 250} : outcome = [good |-> HasSignal(Conditioned(n)), level |-> NoLevel]
      BY <2>2 DEF Outcomes
    <3>2. HasSignal(Conditioned(n)) \in BOOLEAN
      BY DEF HasSignal, Conditioned
    <3> QED
      BY <1>2, <2>2, <3>1, <3>2
  <2>3. CASE outcome \in Outcomes(e) /\ kind \notin {"index", "condition"}
    <3>1. kind # "index" /\ kind # "condition"
      BY <2>3
    <3>2. Outcomes(e) = {[good |-> TRUE, level |-> NoLevel]}
      BY <3>1 DEF Outcomes
    <3>3. outcome = [good |-> TRUE, level |-> NoLevel]
      BY <2>3, <3>2, Zenon
    <3>4. outcome.good = TRUE
      BY <3>3
    <3> QED
      BY <1>2, <3>1, <3>4
  <2>4. CASE outcome = [good |-> FALSE, level |-> NoLevel]
    BY <1>2, <2>4
  <2> QED
    BY <1>1, <2>1, <2>2, <2>3, <2>4
<1>4. PICK h, f : h = [e EXCEPT !.good = v] /\ f = [h EXCEPT !.fetched = w]
  OBVIOUS
<1>5. Go(t, "settle", f)
  BY <1>1, <1>2, <1>4, Zenon
<1>6. Columns(h) /\ h.good = v /\ h.knew = e.knew /\ h.level = e.level
  BY <1>1, <1>4 DEF Columns
<1>7. Columns(f) /\ f.good = v /\ f.knew = e.knew /\ f.level = e.level /\ f.fetched = w
  BY <1>4, <1>6 DEF Columns
<1>8. Looks("settle", f, known, levels)
  BY <1>1, <1>3, <1>7 DEF Looks, IsLook, ReadingsInv, Lookers, Fetched, At
<1>9. Moved(t, "settle", f)
  BY <1>5, Moves DEF ReadingsInv, Lookers
<1>10. UNCHANGED <<kind, reading, lastGood, file, known, levels>>
  BY DEF Fetched, readingVars
<1>11. Lookers'
  BY <1>8, <1>9, <1>10, LookersStay DEF ReadingsInv
<1> QED
  BY <1>10, <1>11 DEF ReadingsInv, Memory, Guarded, Cached, Yardsticks, Ordered, LevelsComeFirst

LEMMA ServeKeeps ==
    ASSUME ReadingsInv, NEW t \in Threads, Serve(t)
    PROVE  ReadingsInv'
<1>1. Moved(t, "idle", NoFrame)
  BY Ends DEF Serve, ReadingsInv, Lookers
<1>2. UNCHANGED <<kind, reading, lastGood, file, known, levels>>
  BY DEF Serve, readingVars
<1>3. Looks("idle", NoFrame, known, levels)
  BY DEF Looks
<1>4. Lookers'
  BY <1>1, <1>2, <1>3, LookersStay DEF ReadingsInv
<1> QED
  BY <1>2, <1>4 DEF ReadingsInv, Memory, Guarded, Cached, Yardsticks, Ordered, LevelsComeFirst

-----------------------------------------------------------------------------
(* What a fetch settles. *)

\* A request that has settled goes to l with what it answers.
LEMMA Settled ==
    ASSUME Lookers, NEW t \in Threads, pc[t] \in {"settle", "keep"}, NEW good \in BOOLEAN, NEW l,
           l = "served" \/ (l = "keep" /\ kind = "condition"), Go(t, l, [frame[t] EXCEPT !.good = good]),
           Guarded => good \/ ~frame[t].knew,
           kind' = kind, known => known', \A x : Among(x, levels) => Among(x, levels')
    PROVE  Lookers'
<1>1. PICK e : e = frame[t] /\ IsLook(e)
  BY DEF Lookers, Looks
<1>2. PICK f : f = [e EXCEPT !.good = good]
  OBVIOUS
<1>3. Columns(f) /\ f.good = good /\ f.knew = e.knew
  BY <1>1, <1>2 DEF Columns, IsLook
<1>4. Looks(l, f, known', levels')
  BY <1>1, <1>3 DEF Looks, IsLook
<1>5. Moved(t, l, f)
  BY <1>1, <1>2, Moves DEF Lookers
<1> QED
  BY <1>4, <1>5, LookersStay

\* What is stored is a reading, with what the request knew and the level it brought.
LEMMA StoredIs ==
    ASSUME NEW t, IsLook(frame[t]), NEW good \in BOOLEAN
    PROVE  /\ IsReading(Stored(t, good)) /\ Stored(t, good).good = good /\ Stored(t, good).knew = frame[t].knew
           /\ Stored(t, good).level = frame[t].fetched /\ Stored(t, good) # NoReading
<1>1. IsReading(Stored(t, good)) /\ Stored(t, good).good = good /\ Stored(t, good).knew = frame[t].knew
      /\ Stored(t, good).level = frame[t].fetched
  BY DEF Stored, IsReading, IsLook
<1>2. "knew" \in DOMAIN Stored(t, good) /\ "knew" \notin DOMAIN NoReading
  BY DEF Stored, NoReading
<1> QED
  BY <1>1, <1>2

\* A thread at settle or keep has what it settles.
LEMMA Settling ==
    ASSUME Lookers, NEW t \in Threads, At(t, "settle") \/ At(t, "keep")
    PROVE  IsLook(frame[t]) /\ pc[t] \in {"settle", "keep"}
BY DEF Lookers, Looks, At

LEMMA GoodIsBoolean ==
    ASSUME Memory
    PROVE  reading.good \in BOOLEAN
<1>1. NoReading.good = FALSE
  BY DEF NoReading
<1> QED
  BY <1>1 DEF Memory, IsReading

LEMMA NewsKeeps ==
    ASSUME ReadingsInv, NEW t \in Threads, SettleNews(t)
    PROVE  ReadingsInv'
<1>1. IsLook(frame[t]) /\ pc[t] \in {"settle", "keep"} /\ frame[t].good \in BOOLEAN /\ (frame[t].knew => known)
      /\ Lookers /\ Memory /\ Yardsticks
  BY Settling DEF SettleNews, ReadingsInv, Lookers, Looks, At, IsLook
<1>2. kind = "news" /\ UNCHANGED <<kind, lastGood, file, levels>>
  BY DEF SettleNews
<1>3. CASE /\ reading' = Stored(t, frame[t].good) /\ known' = (known \/ frame[t].good)
           /\ Go(t, "served", [frame[t] EXCEPT !.good = frame[t].good])
  <2>1. Lookers'
    BY <1>1, <1>2, <1>3, Settled DEF Guarded, Memory
  <2>2. IsReading(reading')
    BY <1>1, <1>3, StoredIs
  <2> QED
    BY <1>1, <1>2, <1>3, <2>1, <2>2 DEF ReadingsInv, Memory, Guarded, Cached, Yardsticks, Ordered, LevelsComeFirst
<1>4. CASE UNCHANGED <<reading, known>> /\ Go(t, "served", [frame[t] EXCEPT !.good = reading.good])
  <2>1. reading.good \in BOOLEAN
    BY <1>1, GoodIsBoolean
  <2>2. Lookers'
    BY <1>1, <1>2, <1>4, <2>1, Settled DEF Guarded
  <2> QED
    BY <1>1, <1>2, <1>4, <2>2 DEF ReadingsInv, Memory, Guarded, Cached, Yardsticks, Ordered, LevelsComeFirst
<1> QED
  BY <1>3, <1>4 DEF SettleNews, Give

LEMMA ConditionKeeps ==
    ASSUME ReadingsInv, NEW t \in Threads, SettleCondition(t)
    PROVE  ReadingsInv'
<1>1. IsLook(frame[t]) /\ pc[t] \in {"settle", "keep"} /\ frame[t].good \in BOOLEAN /\ (frame[t].knew => known)
      /\ Lookers /\ Memory /\ Yardsticks
  BY Settling DEF SettleCondition, ReadingsInv, Lookers, Looks, At, IsLook
<1>2. kind = "condition" /\ UNCHANGED <<kind, reading, file, levels>>
  BY DEF SettleCondition
<1>3. PICK good : good = (lastGood \/ frame[t].good)
  OBVIOUS
<1>4. good \in BOOLEAN /\ lastGood' = good /\ known' = (known \/ frame[t].good)
  BY <1>1, <1>3 DEF SettleCondition, Memory
<1>5. Go(t, "keep", [frame[t] EXCEPT !.good = good])
  BY <1>4, Zenon DEF SettleCondition
<1>6. (known => lastGood) /\ (known' => lastGood') /\ (frame[t].knew => good)
  BY <1>1, <1>2, <1>3, <1>4 DEF Memory
<1>7. Lookers'
  BY <1>1, <1>2, <1>4, <1>5, <1>6, Settled
<1> QED
  BY <1>1, <1>2, <1>4, <1>6, <1>7 DEF ReadingsInv, Memory, Guarded, Cached, Yardsticks, Ordered, LevelsComeFirst

LEMMA KeepKeeps ==
    ASSUME ReadingsInv, NEW t \in Threads, KeepCondition(t)
    PROVE  ReadingsInv'
<1>1. IsLook(frame[t]) /\ pc[t] \in {"settle", "keep"} /\ frame[t].good \in BOOLEAN
      /\ kind = "condition" /\ (frame[t].good \/ ~frame[t].knew) /\ Lookers /\ Memory /\ Yardsticks
  BY Settling DEF KeepCondition, ReadingsInv, Lookers, Looks, At, IsLook, Guarded
<1>2. UNCHANGED <<kind, lastGood, file, known, levels>> /\ reading' = Stored(t, frame[t].good)
      /\ Go(t, "served", [frame[t] EXCEPT !.good = frame[t].good])
  BY DEF KeepCondition, Give
<1>3. Lookers'
  BY <1>1, <1>2, Settled
<1>4. reading'.good = frame[t].good /\ reading'.knew = frame[t].knew /\ IsReading(reading')
  BY <1>1, <1>2, StoredIs
<1> QED
  BY <1>1, <1>2, <1>3, <1>4 DEF ReadingsInv, Memory, Guarded, Cached, Yardsticks, Ordered, LevelsComeFirst

LEMMA AnythingKeeps ==
    ASSUME ReadingsInv, NEW t \in Threads, SettleAnything(t)
    PROVE  ReadingsInv'
<1>1. IsLook(frame[t]) /\ pc[t] \in {"settle", "keep"} /\ frame[t].good \in BOOLEAN
      /\ kind \in {"overview", "score"} /\ Lookers /\ Memory /\ Yardsticks
  BY Settling DEF SettleAnything, ReadingsInv, Lookers, Looks, At, IsLook
<1>2. UNCHANGED <<kind, lastGood, file, levels>> /\ reading' = Stored(t, frame[t].good)
      /\ known' = (known \/ frame[t].good) /\ Go(t, "served", [frame[t] EXCEPT !.good = frame[t].good])
  BY DEF SettleAnything, Give
<1>3. Lookers'
  BY <1>1, <1>2, Settled DEF Guarded, Memory
<1>4. IsReading(reading')
  BY <1>1, <1>2, StoredIs
<1> QED
  BY <1>1, <1>2, <1>3, <1>4 DEF ReadingsInv, Memory, Guarded, Cached, Yardsticks, Ordered, LevelsComeFirst

LEMMA SectionKeeps ==
    ASSUME ReadingsInv, NEW t \in Threads, SettleSection(t)
    PROVE  ReadingsInv'
<1>1. IsLook(frame[t]) /\ pc[t] \in {"settle", "keep"} /\ frame[t].good \in BOOLEAN /\ (frame[t].knew => known)
      /\ Lookers /\ Memory /\ Yardsticks
  BY Settling DEF SettleSection, ReadingsInv, Lookers, Looks, At, IsLook
<1>2. kind = "section" /\ UNCHANGED <<kind, lastGood, levels>>
  BY DEF SettleSection
<1>3. CASE frame[t].good
  <2>1. reading' = Stored(t, TRUE) /\ known' /\ known' = TRUE /\ Go(t, "served", [frame[t] EXCEPT !.good = TRUE])
        /\ file' \in {file, reading'}
    BY <1>3 DEF SettleSection, Give
  <2>2. Lookers'
    BY <1>1, <1>2, <2>1, Settled
  <2>3. reading'.good /\ IsReading(reading')
    BY <1>1, <2>1, StoredIs
  <2> QED
    BY <1>1, <1>2, <2>1, <2>2, <2>3 DEF ReadingsInv, Memory, Guarded, Cached, Yardsticks, Ordered, LevelsComeFirst
<1>4. CASE ~frame[t].good
  <2>1. UNCHANGED <<reading, known, file>> /\ Go(t, "served", [frame[t] EXCEPT !.good = reading.good])
    BY <1>4 DEF SettleSection, Give
  <2>2. reading.good \in BOOLEAN /\ (known => reading.good)
    BY <1>1, <1>2, GoodIsBoolean DEF Memory
  <2>3. Lookers'
    BY <1>1, <1>2, <2>1, <2>2, Settled
  <2> QED
    BY <1>1, <1>2, <2>1, <2>3 DEF ReadingsInv, Memory, Guarded, Cached, Yardsticks, Ordered, LevelsComeFirst
<1> QED
  BY <1>3, <1>4

\* The levels cached, and another one.
LEMMA AnotherLevel ==
    ASSUME Ordered(levels), NEW e, levels' = Append(levels, e)
    PROVE  /\ \A x : Among(x, levels) => Among(x, levels')
           /\ Among(e.level, levels')
<1>1. Ordered(levels') /\ Len(levels') = Len(levels) + 1 /\ levels'[Len(levels) + 1] = e /\ Len(levels) \in Nat
      /\ \A i \in 1..Len(levels) : levels'[i] = levels[i]
  BY OneMore DEF Ordered
<1> QED
  BY <1>1 DEF Among

LEMMA IndexKeeps ==
    ASSUME ReadingsInv, NEW t \in Threads, SettleIndex(t)
    PROVE  ReadingsInv'
<1>1. IsLook(frame[t]) /\ pc[t] \in {"settle", "keep"} /\ frame[t].good \in BOOLEAN /\ (frame[t].knew => known)
      /\ Lookers /\ Memory /\ Yardsticks /\ (frame[t].level # NoLevel => Among(frame[t].level, levels))
      /\ (kind = "index" /\ frame[t].good => frame[t].level \in {NoLevel, frame[t].fetched})
  BY Settling DEF SettleIndex, ReadingsInv, Lookers, Looks, At, IsLook
<1>2. kind = "index" /\ UNCHANGED <<kind, lastGood, file>>
  BY DEF SettleIndex
<1>3. CASE frame[t].good
  <2>1. PICK e : e = [level |-> frame[t].fetched, blind |-> frame[t].level = NoLevel] /\ levels' = Append(levels, e)
    BY <1>3 DEF SettleIndex
  <2>2. reading' = Stored(t, TRUE) /\ known' /\ known' = TRUE /\ Go(t, "served", [frame[t] EXCEPT !.good = TRUE])
    BY <1>3 DEF SettleIndex, Give
  <2>3. Ordered(levels) /\ LevelsComeFirst
    BY <1>1 DEF Yardsticks
  <2>4. (\A x : Among(x, levels) => Among(x, levels')) /\ Among(e.level, levels')
    BY <2>1, <2>3, AnotherLevel
  <2>5. Lookers'
    BY <1>1, <1>2, <2>2, <2>4, Settled
  <2>6. reading'.good /\ IsReading(reading') /\ reading'.level = e.level
    BY <1>1, <2>1, <2>2, StoredIs
  <2>7. Memory'
    BY <1>1, <1>2, <2>2, <2>6 DEF Memory, Guarded, Cached
  <2>8. LevelsComeFirst'
    <3>1. Ordered(levels') /\ Len(levels) \in Nat /\ DOMAIN levels = 1..Len(levels)
          /\ DOMAIN levels' = 1..(Len(levels) + 1) /\ levels'[Len(levels) + 1] = e
          /\ \A i \in 1..Len(levels) : levels'[i] = levels[i]
      BY <2>1, <2>3, OneMore DEF Ordered
    <3>2. ASSUME NEW i \in 1..Len(levels)
          PROVE  \E j \in 1..i : levels'[j].level = levels'[i].level /\ levels'[j].blind
      BY <2>3, <3>1 DEF LevelsComeFirst
    <3>3. \E j \in 1..(Len(levels) + 1) : levels'[j].level = e.level /\ levels'[j].blind
      <4>1. CASE frame[t].level = NoLevel
        <5>1. e.blind
          BY <2>1, <4>1
        <5> QED
          BY <3>1, <5>1
      <4>2. CASE frame[t].level # NoLevel
        <5>1. PICK i \in 1..Len(levels) : levels[i].level = frame[t].level
          BY <1>1, <4>2 DEF Among
        <5>2. e.level = frame[t].level
          BY <1>1, <1>2, <1>3, <2>1, <4>2
        <5> QED
          BY <3>1, <3>2, <5>1, <5>2
      <4> QED
        BY <4>1, <4>2
    <3> QED
      BY <3>1, <3>2, <3>3 DEF LevelsComeFirst
  <2>9. Ordered(levels')
    BY <2>1, <2>3, OneMore
  <2> QED
    BY <2>4, <2>5, <2>6, <2>7, <2>8, <2>9 DEF ReadingsInv, Yardsticks
<1>4. CASE ~frame[t].good
  <2>1. UNCHANGED <<reading, known, levels>> /\ Go(t, "served", [frame[t] EXCEPT !.good = reading.good])
    BY <1>4 DEF SettleIndex, Give
  <2>2. reading.good \in BOOLEAN /\ (known => reading.good)
    BY <1>1, <1>2, GoodIsBoolean DEF Memory
  <2>3. Lookers'
    BY <1>1, <1>2, <2>1, <2>2, Settled
  <2> QED
    BY <1>1, <1>2, <2>1, <2>3 DEF ReadingsInv, Memory, Guarded, Cached, Yardsticks, Ordered, LevelsComeFirst
<1> QED
  BY <1>3, <1>4

LEMMA RestartKeeps ==
    ASSUME ReadingsInv, ReadingsRestart
    PROVE  ReadingsInv'
<1>1. Ordered(<<>>) /\ DOMAIN <<>> = {}
  BY DEF Ordered
<1>2. pc' = [u \in Threads |-> "idle"] /\ frame' = [u \in Threads |-> NoFrame] /\ reading' = file
      /\ known' = file.good /\ lastGood' = FALSE /\ levels' = <<>> /\ UNCHANGED <<kind, file>>
  BY DEF ReadingsRestart
<1>3. Lookers'
  BY <1>2 DEF Lookers, Pool, Looks
<1>4. CASE file = NoReading
  <2>1. known' = FALSE
    BY <1>2, <1>4 DEF NoReading
  <2> QED
    BY <1>1, <1>2, <1>3, <1>4, <2>1 DEF ReadingsInv, Memory, Yardsticks, LevelsComeFirst, Guarded, Cached
<1>5. CASE kind = "section" /\ IsReading(file) /\ file.good
  BY <1>1, <1>2, <1>3, <1>5 DEF ReadingsInv, Memory, Yardsticks, LevelsComeFirst, Guarded, Cached, IsReading
<1> QED
  BY <1>4, <1>5 DEF ReadingsInv, Memory

LEMMA ReadingsStay ==
    ASSUME ReadingsInv, UNCHANGED <<pool, readingVars>>
    PROVE  ReadingsInv'
BY DEF ReadingsInv, Lookers, Pool, Looks, Memory, Yardsticks, LevelsComeFirst, Guarded, Cached, pool, readingVars, Ordered

LEMMA ReadingsSteps ==
    ASSUME ReadingsInv, ReadingsNext
    PROVE  ReadingsInv'
BY LookKeeps, FetchKeeps, ServeKeeps, NewsKeeps, IndexKeeps, ConditionKeeps, KeepKeeps, AnythingKeeps, SectionKeeps,
   RestartKeeps, ReadingsStay DEF ReadingsNext

LEMMA ReadingsShow == ReadingsInv => LevelsComeFirst /\ GoodReadingsKept
BY DEF ReadingsInv, Yardsticks, Lookers, Looks, Guarded, GoodReadingsKept, At

-----------------------------------------------------------------------------
(* Numbers. *)

\* A set of numbers has a least one,
LEMMA Least ==
    ASSUME NEW T, T \subseteq Nat, T # {}
    PROVE  \E x \in T : \A y \in T : x <= y
<1> DEFINE R == OpToRel(<, Nat)
<1>1. IsWellFoundedOn(R, Nat)
  BY NatLessThanWellFounded
<1>2. \A x, y \in Nat : y < x => <<y, x>> \in R
  BY DEF OpToRel
<1> HIDE DEF R
<1>3. PICK x \in T : \A y \in T : ~ (<<y, x>> \in R)
  BY <1>1, WFMin
<1>4. \A y \in T : x \in Nat /\ y \in Nat /\ ~(y < x)
  BY <1>2, <1>3
<1>5. \A y \in T : x <= y
  BY <1>4
<1> QED
  BY <1>5

\* and one that is bounded a greatest.
LEMMA Greatest ==
    ASSUME NEW n \in Nat, NEW T, T \subseteq 1..n, T # {}
    PROVE  Max(T) \in T /\ \A y \in T : Max(T) >= y
<1> DEFINE U == {k \in Nat : \E x \in T : k = n - x}
<1>1. PICK z \in T : TRUE
  OBVIOUS
<1>2. z \in 1..n
  BY <1>1
<1>3. n - z \in Nat
  BY <1>2
<1>4. U \subseteq Nat /\ U # {}
  BY <1>1, <1>3
<1>5. PICK u \in U : \A v \in U : u <= v
  <2> HIDE DEF U
  <2> QED
    BY <1>4, Least
<1>6. PICK x \in T : u = n - x
  BY <1>5
<1>7. ASSUME NEW y \in T PROVE x >= y
  <2>1. x \in 1..n /\ y \in 1..n
    BY <1>6, <1>7
  <2>2. n - y \in Nat
    BY <2>1
  <2>3. n - y \in U
    BY <2>2
  <2>4. n - x <= n - y
    BY <1>5, <1>6, <2>3
  <2> QED
    BY <2>1, <2>4
<1>8. \E m \in T : \A y \in T : m >= y
  BY <1>6, <1>7
<1> QED
  BY <1>8 DEF Max

-----------------------------------------------------------------------------
(* The clock. *)

Instants == [day : Nat, phase : Phases]
ClockOk == tick \in Nat /\ now \in Instants

LEMMA ClockBegins == ClockInit => ClockOk
BY OpeningAssumption DEF ClockInit, ClockOk, Instants

\* Trading dates are numbers.
LEMMA Dates ==
    ASSUME NEW n \in Instants
    PROVE  TradingDate(n) \in Int /\ LatestBar(n) \in Int
BY DEF Instants, TradingDate, LatestBar, PreviousWeekday

\* Time goes on, and the daily bars with it.
LEMMA Advances ==
    ASSUME NEW n \in Instants
    PROVE  Advance(n) \in Instants /\ LatestBar(Advance(n)) >= LatestBar(n)
<1> DEFINE d == n.day
           p == n.phase
<1>1. d \in Nat /\ p \in Phases
  BY DEF Instants
<1>2. CASE p = "LATE" \/ ~IsWeekday(d)
  <2>1. PICK m : m = [day |-> d + 1, phase |-> "EARLY"]
    OBVIOUS
  <2>2. Advance(n) = m /\ m.day = d + 1 /\ m.phase = "EARLY" /\ m \in Instants
    BY <1>1, <1>2, <2>1 DEF Advance, Instants, Phases
  <2>3. LatestBar(m) = PreviousWeekday(d + 1)
    BY <2>2 DEF LatestBar
  <2>4. PreviousWeekday(d + 1) = IF IsWeekday(d) THEN d ELSE PreviousWeekday(d)
    BY <1>1 DEF PreviousWeekday, IsWeekday
  <2>5. PreviousWeekday(d) <= d /\ PreviousWeekday(d) \in Int
    BY <1>1 DEF PreviousWeekday
  <2> QED
    BY <1>1, <2>2, <2>3, <2>4, <2>5 DEF LatestBar
<1>3. CASE p # "LATE" /\ IsWeekday(d)
  <2>1. PICK m : m = [day |-> d, phase |-> NextPhase[p]]
    OBVIOUS
  <2>2. Advance(n) = m /\ m.day = d /\ m.phase = NextPhase[p]
    BY <1>3, <2>1 DEF Advance
  <2>3. NextPhase[p] \in Phases /\ (p \in {"OPEN", "POST"} => NextPhase[p] \in {"POST", "LATE"})
    BY <1>1 DEF NextPhase, Phases
  <2>4. m \in Instants
    BY <1>1, <2>1, <2>3 DEF Instants
  <2>5. PreviousWeekday(d) <= d /\ PreviousWeekday(d) \in Int
    BY <1>1 DEF PreviousWeekday
  <2>6. LatestBar(m) >= LatestBar(n)
    BY <1>1, <1>3, <2>2, <2>3, <2>5 DEF LatestBar
  <2> QED
    BY <2>2, <2>4, <2>6
<1> QED
  BY <1>2, <1>3

\* The clock goes forward, and the date of the latest bar with it.
LEMMA Ticks ==
    ASSUME ClockOk, Tick
    PROVE  ClockOk' /\ tick' >= tick /\ LatestBar(now') >= LatestBar(now)
<1>1. now' \in Instants /\ LatestBar(now') >= LatestBar(now)
  BY Advances, Dates DEF ClockOk, Tick
<1> QED
  BY <1>1 DEF ClockOk, Tick

-----------------------------------------------------------------------------
(* The screener's cache.  An edition that a snapshot does not know was       *)
(* written in its tick, or later; the memo of the probes holds the newest    *)
(* write unless a write crossed it; and one thread at a time has the lock    *)
(* that snapshots are made under, with what calls for its run.               *)

IsRequest(f) ==
    /\ f = [op |-> f.op, force |-> f.force, today |-> f.today, row |-> f.row, found |-> f.found,
            crossed |-> f.crossed, seen |-> f.seen, cool |-> f.cool, held |-> f.held, saw |-> f.saw]
    /\ f.force \in BOOLEAN /\ f.held \in BOOLEAN /\ f.today \in Int

\* The writes of the data.
WritesOk ==
    /\ Ordered(writes)
    /\ \A i \in 1..Edition :
         /\ writes[i].at \in Nat /\ writes[i].at <= tick
         /\ writes[i].bar \in Int /\ writes[i].bar <= LatestBar(now)

\* A snapshot, and the editions that it does not know.
RowOk(row) ==
    /\ "made" \in DOMAIN row /\ row.date \in Int /\ row.saw \in Nat /\ row.known \in Nat /\ row.made \in Nat
    /\ row.saw <= row.known /\ row.known <= Edition /\ row.made <= tick
    /\ \A n \in 1..Edition : n > row.known => writes[n].at >= row.made

RowsOk == Ordered(rows) /\ \A i \in 1..Len(rows) : RowOk(rows[i])

\* What a probe can have found.
Findable(found) == found \in Int /\ found <= Written
MemoOk ==
    /\ memo.until \in Int /\ Findable(memo.found)
    /\ memo.until > tick /\ ~memo.crossed => memo.found = Written

\* The newest snapshot is of the date.
LastOf(date) == Len(rows) # 0 /\ rows[Len(rows)].date = date

\* What calls for a run that was not asked for, if the date has a snapshot.
Called(date) ==
    LastOf(date) =>
        /\ Edition # 0
        /\ \/ writes[Edition].at > rows[Len(rows)].made
           \/ writes[Edition].bar > rows[Len(rows)].date

\* What an answer that hides a write owes to.
Reasoned(f) ==
    /\ f.row.saw \in Nat /\ f.row.known \in Nat /\ f.seen \in Nat /\ f.seen <= Edition
    /\ f.seen > f.row.saw =>
         f.row.known > f.row.saw \/ writes[f.seen].at = f.row.made \/ f.crossed \/ f.cool

\* The locals f that thread t may have at l.
Screens(t, l, f) ==
    /\ l \in {"probe", "memo", "lock", "run", "save", "warm"} => IsRequest(f)
    /\ l \in {"probe", "memo"} =>
         /\ RowOk(f.row)
         /\ f.held => runLock = t /\ (LastOf(f.today) => f.row = rows[Len(rows)])
    /\ l = "memo" => Findable(f.found)
    /\ l \in {"run", "save"} => f.held /\ runLock = t /\ (f.force \/ Called(f.today))
    /\ l = "save" => f.saw \in Nat /\ f.saw <= Edition
    /\ l = "answer" => Reasoned(f)

Screeners == Pool /\ \A t \in Threads : Screens(t, pc[t], frame[t])

ScreenInv == ClockOk /\ WritesOk /\ RowsOk /\ MemoOk /\ RunsAnswerWrites /\ Screeners

\* What the writes, the clock and the snapshots may do while thread t holds the lock.
Onward ==
    /\ tick \in Nat /\ tick' \in Nat /\ tick <= tick'
    /\ Edition \in Nat /\ Edition' \in Nat /\ Edition <= Edition'
    /\ \A i \in 1..Edition : writes'[i] = writes[i] /\ writes[i].at \in Nat /\ writes[i].bar \in Int
    /\ \A i \in 1..Edition' : i > Edition => writes'[i].at >= tick
    /\ Written \in Int /\ Written' \in Int /\ Written <= Written'
    /\ \A i \in 1..Edition' : writes'[i].at \in Nat /\ writes'[i].bar \in Int
    /\ Edition # 0 => writes'[Edition'].at >= writes[Edition].at /\ writes'[Edition'].bar >= writes[Edition].bar

LEMMA NeverIs == Never \in Int /\ Never <= 0
BY ScreenerAssumption DEF Never

\* When the OHLCV data was last written: at no tick to come, or never.
LEMMA WrittenIs ==
    ASSUME ClockOk, WritesOk
    PROVE  /\ Edition \in Nat /\ Written \in Int /\ Written >= Never /\ Written <= tick
           /\ Edition # 0 => Written = writes[Edition].at
           /\ Edition = 0 => Written = Never
<1>1. Edition \in Nat /\ writes = [i \in 1..Edition |-> writes[i]] /\ tick \in Nat
  BY DEF WritesOk, Ordered, Edition, ClockOk
<1>2. CASE writes = <<>>
  <2>1. Edition = 0
    BY <1>2 DEF Edition
  <2> QED
    BY <1>1, <1>2, <2>1, NeverIs DEF Written
<1>3. CASE writes # <<>>
  <2>1. Edition # 0
    <3>1. Edition = 0 => writes = <<>>
      BY <1>1
    <3> QED
      BY <1>3, <3>1
  <2>2. writes[Edition].at \in Nat /\ writes[Edition].at <= tick
    BY <1>1, <2>1 DEF WritesOk
  <2> QED
    BY <1>1, <1>3, <2>1, <2>2, NeverIs DEF Written
<1> QED
  BY <1>2, <1>3

\* A snapshot, a finding, a call and a reason outlast what comes after them.
LEMMA RowLasts ==
    ASSUME Onward, NEW row, RowOk(row)
    PROVE  RowOk(row)'
BY DEF Onward, RowOk

\* What was found of the writes is never newer than the last one.
LEMMA FindingLasts ==
    ASSUME Onward, NEW found, Findable(found)
    PROVE  Findable(found)'
BY DEF Onward, Findable

\* What called for a run goes on to have called for it.
LEMMA CallLasts ==
    ASSUME Onward, NEW date, Called(date), rows' = rows, \A i \in 1..Len(rows) : rows[i].made \in Int /\ rows[i].date \in Int,
           Len(rows) \in Nat
    PROVE  Called(date)'
<1>1. SUFFICES ASSUME LastOf(date) PROVE Called(date)'
  BY DEF Called, LastOf
<1>2. Edition # 0 /\ (writes[Edition].at > rows[Len(rows)].made \/ writes[Edition].bar > rows[Len(rows)].date)
  BY <1>1 DEF Called
<1>3. rows[Len(rows)].made \in Int /\ rows[Len(rows)].date \in Int
  BY <1>1 DEF LastOf
<1>4. Edition' # 0 /\ Edition \in 1..Edition /\ Edition' \in 1..Edition'
  BY <1>2 DEF Onward
<1>5. writes[Edition].at \in Int /\ writes[Edition].bar \in Int /\ writes'[Edition'].at \in Int /\ writes'[Edition'].bar \in Int
  BY <1>4 DEF Onward
<1>6. writes'[Edition'].at >= writes[Edition].at /\ writes'[Edition'].bar >= writes[Edition].bar
  BY <1>2 DEF Onward
<1>7. writes'[Edition'].at > rows[Len(rows)].made \/ writes'[Edition'].bar > rows[Len(rows)].date
  BY <1>2, <1>3, <1>5, <1>6
<1> QED
  BY <1>4, <1>7 DEF Called

\* A reason to serve a stale snapshot stays one.
LEMMA ReasonLasts ==
    ASSUME Onward, NEW f, Reasoned(f)
    PROVE  Reasoned(f)'
BY DEF Onward, Reasoned

\* Thread u stays where it is, unless the lock and the snapshots move under its hand.
LEMMA ScreensOn ==
    ASSUME Onward, NEW u, NEW l, NEW f, Screens(u, l, f), RowsOk,
           runLock = u => runLock' = u /\ rows' = rows
    PROVE  Screens(u, l, f)'
<1>1. Len(rows) \in Nat /\ \A i \in 1..Len(rows) : rows[i].made \in Int /\ rows[i].date \in Int
  BY DEF RowsOk, Ordered, RowOk
<1>2. l \in {"probe", "memo"} => RowOk(f.row)'
  BY RowLasts DEF Screens
<1>3. l = "memo" => Findable(f.found)'
  BY FindingLasts DEF Screens
<1>4. l \in {"run", "save"} => f.force \/ Called(f.today)'
  BY <1>1, CallLasts DEF Screens
<1>5. l = "answer" => Reasoned(f)'
  BY ReasonLasts DEF Screens
<1>6. l = "save" => f.saw \in Nat /\ f.saw <= Edition'
  BY DEF Screens, Onward
<1> QED
  BY <1>2, <1>3, <1>4, <1>5, <1>6 DEF Screens, LastOf

\* What comes after: nothing,
LEMMA Stands ==
    ASSUME ClockOk, WritesOk, UNCHANGED <<tick, now, writes>>
    PROVE  ClockOk' /\ WritesOk' /\ Onward
<1>1. Edition \in Nat /\ Written \in Int /\ UNCHANGED Written /\ UNCHANGED Edition
  BY WrittenIs DEF Written, Edition
<1>2. ClockOk' /\ WritesOk'
  BY <1>1 DEF ClockOk, WritesOk, Ordered
<1>3. \A i \in 1..Edition : writes[i].at \in Nat /\ writes[i].bar \in Int
  BY DEF WritesOk
<1>4. Edition # 0 => Edition \in 1..Edition
  BY <1>1
<1> QED
  BY <1>1, <1>2, <1>3, <1>4 DEF Onward, ClockOk

\* a tick,
LEMMA TickGoesOn ==
    ASSUME ClockOk, WritesOk, MemoOk, Tick, UNCHANGED <<writes, memo>>
    PROVE  ClockOk' /\ WritesOk' /\ MemoOk' /\ Onward
<1>1. ClockOk' /\ tick' >= tick /\ LatestBar(now') >= LatestBar(now) /\ tick \in Nat /\ tick' \in Nat
      /\ LatestBar(now) \in Int /\ LatestBar(now') \in Int
  BY Ticks, Dates DEF ClockOk
<1>2. Edition \in Nat /\ Written \in Int /\ UNCHANGED Written /\ UNCHANGED Edition
  BY WrittenIs DEF Written, Edition
<1>3. \A i \in 1..Edition : writes[i].at \in Nat /\ writes[i].bar \in Int
  BY DEF WritesOk
<1>4. WritesOk'
  BY <1>1, <1>2 DEF WritesOk, Ordered
<1>5. Edition # 0 => Edition \in 1..Edition
  BY <1>2
<1>6. Onward
  BY <1>1, <1>2, <1>3, <1>5 DEF Onward
<1>7. MemoOk'
  BY <1>1, <1>2 DEF MemoOk, Findable
<1> QED
  BY <1>1, <1>4, <1>6, <1>7

\* or a write, which drops the memo.
LEMMA WriteGoesOn ==
    ASSUME ClockOk, WritesOk, Rewrite, UNCHANGED clock
    PROVE  ClockOk' /\ WritesOk' /\ MemoOk' /\ Onward
<1> DEFINE e == [at |-> tick, bar |-> LatestBar(now)]
<1>1. tick \in Nat /\ LatestBar(now) \in Int /\ UNCHANGED <<tick, now>> /\ ClockOk'
  BY Dates DEF ClockOk, clock
<1>2. e.at = tick /\ e.bar = LatestBar(now)
  OBVIOUS
<1>3. writes' = Append(writes, e) /\ memo' = [until |-> Never, found |-> Never, crossed |-> FALSE]
  BY DEF Rewrite
<1> HIDE DEF e
<1>4. Ordered(writes') /\ Edition' = Edition + 1 /\ writes'[Edition + 1] = e /\ Edition \in Nat
      /\ \A i \in 1..Edition : writes'[i] = writes[i]
  BY <1>3, OneMore DEF WritesOk, Edition, Ordered
<1>5. \A i \in 1..Edition : writes[i].at \in Nat /\ writes[i].bar \in Int /\ writes[i].at <= tick /\ writes[i].bar <= LatestBar(now)
  BY DEF WritesOk
<1>6. WritesOk'
  BY <1>1, <1>2, <1>4, <1>5 DEF WritesOk
<1>7. Written' \in Int /\ Written' = tick /\ Written \in Int /\ Written <= tick
  <2>1. Written' = writes'[Edition'].at
    BY <1>1, <1>4, <1>6, WrittenIs DEF Written, Edition, Ordered
  <2> QED
    BY <2>1, <1>1, <1>2, <1>4, WrittenIs
<1>8. Edition # 0 => Edition \in 1..Edition
  BY <1>4
<1>9. Onward
  BY <1>1, <1>2, <1>4, <1>5, <1>7, <1>8 DEF Onward
<1>10. memo'.until = Never /\ memo'.found = Never
  BY <1>3
<1>11. MemoOk'
  BY <1>1, <1>7, <1>10, NeverIs DEF MemoOk, Findable
<1> QED
  BY <1>1, <1>6, <1>9, <1>11

\* What is known of the snapshots holds while none is added.
LEMMA RowsLast ==
    ASSUME Onward, RowsOk, RunsAnswerWrites, rows' = rows
    PROVE  RowsOk' /\ RunsAnswerWrites'
<1>1. Ordered(rows) /\ \A i \in 1..Len(rows) : RowOk(rows[i])
  BY DEF RowsOk
<1>2. ASSUME NEW i \in 1..Len(rows) PROVE RowOk(rows[i])'
  <2>1. PICK r : r = rows[i]
    OBVIOUS
  <2>2. RowOk(r)'
    BY <1>1, <2>1, RowLasts
  <2> QED
    BY <2>1, <2>2
<1>3. RowsOk'
  BY <1>1, <1>2 DEF RowsOk, Ordered
<1>4. ASSUME NEW j \in 1..Len(rows), rows[j].known # 0 PROVE writes'[rows[j].known] = writes[rows[j].known]
  BY <1>1, <1>4 DEF RowOk, Onward
<1>5. DOMAIN rows = 1..Len(rows)
  BY <1>1 DEF Ordered
<1> QED
  BY <1>3, <1>4, <1>5 DEF RunsAnswerWrites

\* Thread t moves, the lock is its own or stays where it is.
LEMMA Forward ==
    ASSUME ScreenInv, ClockOk', WritesOk', MemoOk', Onward, rows' = rows,
           NEW t \in Threads, NEW l, NEW f, Moved(t, l, f), Screens(t, l, f)',
           runLock' = runLock \/ runLock \in {t, Free}
    PROVE  ScreenInv'
<1>1. RowsOk' /\ RunsAnswerWrites'
  BY RowsLast DEF ScreenInv
<1>2. ASSUME NEW u \in Threads, u # t PROVE Screens(u, pc[u], frame[u])'
  <2>1. PICK m, g : m = pc[u] /\ g = frame[u] /\ Screens(u, m, g)
    BY DEF ScreenInv, Screeners
  <2>2. runLock = u => runLock' = u
    BY <1>2, FreeAssumption
  <2>3. Screens(u, m, g)'
    BY <2>1, <2>2, ScreensOn DEF ScreenInv
  <2>4. pc'[u] = m /\ frame'[u] = g
    BY <1>2, <2>1 DEF Moved
  <2> QED
    BY <2>3, <2>4
<1>3. Screens(t, pc[t], frame[t])'
  BY DEF Moved
<1>4. Screeners'
  BY <1>2, <1>3 DEF Screeners, Moved
<1> QED
  BY <1>1, <1>4 DEF ScreenInv

\* No thread moves.
LEMMA PoolWaits ==
    ASSUME ScreenInv, ClockOk', WritesOk', MemoOk', Onward, UNCHANGED <<rows, pool, runLock>>
    PROVE  ScreenInv'
<1>1. RowsOk' /\ RunsAnswerWrites'
  BY RowsLast DEF ScreenInv
<1>2. ASSUME NEW u \in Threads PROVE Screens(u, pc[u], frame[u])'
  <2>1. PICK m, g : m = pc[u] /\ g = frame[u] /\ Screens(u, m, g)
    BY DEF ScreenInv, Screeners
  <2>2. Screens(u, m, g)'
    BY <2>1, ScreensOn DEF ScreenInv
  <2> QED
    BY <2>1, <2>2 DEF pool
<1>3. Screeners'
  BY <1>2 DEF Screeners, Pool, pool, ScreenInv
<1> QED
  BY <1>1, <1>3 DEF ScreenInv

\* What the clock and the data do around the requests.
LEMMA TimeKeeps ==
    ASSUME ScreenInv, Tick, UNCHANGED <<pool, screenVars>>
    PROVE  ScreenInv'
BY TickGoesOn, PoolWaits DEF ScreenInv, screenVars

LEMMA DataKeeps ==
    ASSUME ScreenInv, Fetch
    PROVE  ScreenInv'
BY WriteGoesOn, PoolWaits DEF ScreenInv, Fetch

LEMMA NothingKeeps ==
    ASSUME ScreenInv, UNCHANGED <<pool, clock, screenVars>>
    PROVE  ScreenInv'
<1>1. MemoOk'
  BY DEF ScreenInv, MemoOk, Findable, Written, Edition, screenVars, clock
<1> QED
  BY <1>1, Stands, PoolWaits DEF ScreenInv, screenVars, clock

LEMMA ScreenBegins ==
    ASSUME PoolInit, ClockInit, ScreenInit
    PROVE  ScreenInv
<1>1. ClockOk /\ tick = 0 /\ LatestBar(now) \in Int
  BY ClockBegins, Dates DEF ClockOk, ClockInit
<1>2. Ordered(<<>>) /\ Len(<<>>) = 0
  BY DEF Ordered
<1>3. WritesOk
  <2>1. CASE writes = <<>>
    BY <1>2, <2>1 DEF WritesOk, Edition
  <2>2. CASE writes # <<>>
    <3>1. PICK e : e = [at |-> 0, bar |-> LatestBar(now)] /\ writes = <<e>>
      BY <2>2 DEF ScreenInit
    <3>2. Ordered(<<e>>) /\ Len(<<e>>) = 1 /\ <<e>>[1] = e
      BY DEF Ordered
    <3>3. e.at = 0 /\ e.bar = LatestBar(now)
      BY <3>1
    <3> QED
      BY <1>1, <3>1, <3>2, <3>3 DEF WritesOk, Edition
  <2> QED
    BY <2>1, <2>2
<1>4. rows = <<>> /\ memo.until = Never /\ memo.found = Never
  BY DEF ScreenInit
<1>5. MemoOk
  BY <1>1, <1>3, <1>4, WrittenIs, NeverIs DEF MemoOk, Findable
<1>6. RowsOk /\ RunsAnswerWrites
  BY <1>2, <1>4 DEF RowsOk, RunsAnswerWrites
<1>7. Screeners
  BY DEF PoolInit, Screeners, Pool, Screens
<1> QED
  BY <1>1, <1>3, <1>5, <1>6, <1>7 DEF ScreenInv

LEMMA ScreenRestartKeeps ==
    ASSUME ScreenInv, ScreenRestart
    PROVE  ScreenInv'
<1>1. ClockOk' /\ WritesOk' /\ Onward /\ tick' = tick /\ tick \in Nat
  BY Stands DEF ScreenInv, ScreenRestart, clock, ClockOk
<1>2. RowsOk' /\ RunsAnswerWrites'
  BY <1>1, RowsLast DEF ScreenInv, ScreenRestart
<1>3. memo'.until = Never /\ memo'.found = Never
  BY DEF ScreenRestart
<1>4. Written' \in Int /\ Written' >= Never
  BY <1>1, WrittenIs DEF ScreenInv, Onward, ScreenRestart, Written, Edition
<1>5. MemoOk'
  BY <1>1, <1>3, <1>4, NeverIs DEF MemoOk, Findable
<1>6. Screeners'
  BY DEF ScreenRestart, Screeners, Pool, Screens
<1> QED
  BY <1>1, <1>2, <1>5, <1>6 DEF ScreenInv

-----------------------------------------------------------------------------
(* Requests to the screener. *)

\* The newest snapshot of a date, if it has one.
LEMMA RowForIs ==
    ASSUME RowsOk, NEW date
    PROVE  /\ RowFor(date) # NoRow => RowOk(RowFor(date))
           /\ LastOf(date) => RowFor(date) = rows[Len(rows)] /\ RowFor(date) # NoRow
<1> DEFINE of == {i \in DOMAIN rows : rows[i].date = date}
<1>1. Len(rows) \in Nat /\ DOMAIN rows = 1..Len(rows) /\ \A i \in 1..Len(rows) : RowOk(rows[i])
  BY DEF RowsOk, Ordered
<1>2. of \subseteq 1..Len(rows)
  BY <1>1
<1>3. RowFor(date) = IF of = {} THEN NoRow ELSE rows[Max(of)]
  BY DEF RowFor
<1>4. ASSUME of # {} PROVE Max(of) \in of /\ \A i \in of : Max(of) >= i
  <2> HIDE DEF of
  <2> QED
    BY <1>1, <1>2, <1>4, Greatest
<1>5. ASSUME RowFor(date) # NoRow PROVE RowOk(RowFor(date))
  BY <1>1, <1>3, <1>4, <1>5
<1>6. ASSUME LastOf(date) PROVE RowFor(date) = rows[Len(rows)] /\ RowFor(date) # NoRow
  <2>1. Len(rows) \in of
    BY <1>1, <1>6 DEF LastOf
  <2>2. Max(of) >= Len(rows) /\ Max(of) \in 1..Len(rows)
    BY <1>2, <1>4, <2>1
  <2>3. Max(of) = Len(rows)
    BY <1>1, <2>2
  <2>4. RowFor(date) = rows[Len(rows)] /\ "made" \in DOMAIN rows[Len(rows)]
    BY <1>1, <1>3, <2>1, <2>3 DEF RowOk
  <2>5. "made" \notin DOMAIN NoRow
    BY DEF NoRow
  <2> QED
    BY <2>4, <2>5
<1> QED
  BY <1>5, <1>6

\* The locals of a request, when it begins.
LEMMA RequestIs ==
    ASSUME NEW op, NEW force \in BOOLEAN, NEW today \in Int, NEW locked \in BOOLEAN
    PROVE  LET f == Request(op, force, today, locked) IN
           IsRequest(f) /\ f.force = force /\ f.today = today /\ f.held = locked
BY DEF Request, IsRequest

\* The same request, when it asks the probe again.
LEMMA AskingIs ==
    ASSUME NEW f, IsRequest(f)
    PROVE  IsRequest(Asking(f)) /\ Asking(f).force = f.force /\ Asking(f).today = f.today /\ Asking(f).held = f.held
BY RequestIs DEF Asking, IsRequest

\* Where a request goes.
LEMMA ArrivalIs ==
    ASSUME NEW f, f.force \in BOOLEAN
    PROVE  /\ Arrival(f) \in {"live", "serve", "lock", "probe"}
           /\ Arrival(f) = "probe" => ~f.force /\ RowFor(f.today) # NoRow
<1>1. CASE Open
  BY <1>1 DEF Arrival
<1>2. CASE ~Open /\ (f.force \/ NeedsRun(f))
  BY <1>2 DEF Arrival
<1>3. CASE ~Open /\ ~(f.force \/ NeedsRun(f))
  BY <1>3 DEF Arrival, NeedsRun
<1> QED
  BY <1>1, <1>2, <1>3

\* A thread begins, or goes on, while clock, data and snapshots wait.
LEMMA GoesOn ==
    ASSUME ScreenInv, NEW t \in Threads, NEW l, NEW f, Begin(t, l, f) \/ Go(t, l, f),
           UNCHANGED <<clock, writes, rows, memo>>, runLock' = runLock \/ runLock \in {t, Free},
           Screens(t, l, f)'
    PROVE  ScreenInv'
<1>1. ClockOk' /\ WritesOk' /\ Onward
  BY Stands DEF ScreenInv, clock
<1>2. MemoOk'
  BY DEF ScreenInv, MemoOk, Findable, Written, Edition, clock
<1>3. Moved(t, l, f)
  BY Moves DEF ScreenInv, Screeners
<1> QED
  BY <1>1, <1>2, <1>3, Forward

LEMMA StartKeeps ==
    ASSUME ScreenInv, NEW t \in Threads, StartScreen(t)
    PROVE  ScreenInv'
<1>1. PICK force, f, g :
         /\ force \in BOOLEAN /\ f = Request("screen", force, Today, FALSE)
         /\ g = IF Arrival(f) = "probe" THEN [f EXCEPT !.row = RowFor(Today)] ELSE f
         /\ Ask(t, Arrival(f), g)
  BY DEF StartScreen
<1>2. IsRequest(f) /\ f.force \in BOOLEAN /\ f.today = Today /\ f.held = FALSE
  BY <1>1, RequestIs, Dates DEF ScreenInv, ClockOk, Today
<1>3. Arrival(f) \in {"live", "serve", "lock", "probe"} /\ (Arrival(f) = "probe" => RowFor(Today) # NoRow)
  BY <1>2, ArrivalIs
<1>4. UNCHANGED <<clock, writes, rows, memo, runLock>> /\ Begin(t, Arrival(f), g)
  BY <1>1 DEF Ask, screenVars
<1>5. CASE Arrival(f) = "probe"
  <2>1. PICK row : row = RowFor(Today) /\ RowOk(row)
    BY <1>3, <1>5, RowForIs DEF ScreenInv
  <2>2. g = [f EXCEPT !.row = row]
    BY <1>1, <1>5, <2>1
  <2>3. IsRequest(g) /\ g.row = row /\ g.held = FALSE
    BY <1>2, <2>2 DEF IsRequest
  <2>4. RowOk(row)'
    BY <1>4, <2>1, RowLasts, Stands DEF ScreenInv, clock
  <2>5. Screens(t, "probe", g)'
    BY <2>3, <2>4 DEF Screens
  <2> QED
    BY <1>4, <1>5, <2>5, GoesOn
<1>6. CASE Arrival(f) # "probe"
  <2>1. g = f
    BY <1>1, <1>6
  <2>2. PICK l : l = Arrival(f) /\ l \in {"live", "serve", "lock"}
    BY <1>3, <1>6
  <2>3. Screens(t, l, f)'
    BY <1>2, <2>2 DEF Screens
  <2> QED
    BY <1>4, <2>1, <2>2, <2>3, GoesOn
<1> QED
  BY <1>5, <1>6

LEMMA OpenKeeps ==
    ASSUME ScreenInv, NEW t \in Threads, ServeOpen(t) \/ Answer(t)
    PROVE  ScreenInv'
<1>1. Go(t, "idle", NoFrame) /\ UNCHANGED <<clock, writes, rows, memo, runLock>>
  BY DEF ServeOpen, Answer, Done, screenVars
<1>2. Screens(t, "idle", NoFrame)'
  BY DEF Screens
<1> QED
  BY <1>1, <1>2, GoesOn

-----------------------------------------------------------------------------
(* What a probe leads to. *)

\* What request f does with what its probe found.
LEMMA JudgeKeeps ==
    ASSUME ScreenInv, NEW t \in Threads, NEW f, IsRequest(f), RowOk(f.row), Findable(f.found),
           f.held => runLock = t /\ (LastOf(f.today) => f.row = rows[Len(rows)]),
           f.crossed \/ f.found = Written, Judge(t, f), UNCHANGED <<clock, writes, rows>>, MemoOk'
    PROVE  ScreenInv'
<1>1. ClockOk' /\ WritesOk' /\ Onward
  BY Stands DEF ScreenInv, clock
<1>2. ASSUME NEW l, NEW g, Go(t, l, g), Screens(t, l, g)', runLock' = runLock \/ runLock \in {t, Free}
      PROVE  ScreenInv'
  <2>1. Moved(t, l, g)
    BY <1>2, Moves DEF ScreenInv, Screeners
  <2> QED
    BY <1>1, <1>2, <2>1, Forward
<1>3. f.held \in BOOLEAN /\ f.force \in BOOLEAN /\ f.today \in Int
  BY DEF IsRequest
<1>4. /\ Edition \in Nat /\ Written \in Int /\ f.found \in Int /\ f.found <= Written
      /\ f.row.made \in Nat /\ f.row.saw \in Nat /\ f.row.known \in Nat /\ f.row.saw <= f.row.known
      /\ \A n \in 1..Edition : n > f.row.known => writes[n].at >= f.row.made
      /\ Edition # 0 => Written = writes[Edition].at /\ Edition \in 1..Edition
      /\ Edition = 0 => Written <= 0
  BY WrittenIs, NeverIs DEF ScreenInv, Findable, RowOk
<1> DEFINE cool == RebuiltRecently(f.today)
           late == WrittenAfter(f.row, f.found)
<1>5. late <=> f.found > f.row.made
  BY DEF WrittenAfter
<1>6. PICK h, g : h = [f EXCEPT !.seen = Edition] /\ g = [h EXCEPT !.cool = cool]
  OBVIOUS
<1>7. IsRequest(h) /\ h.row = f.row /\ h.seen = Edition /\ h.crossed = f.crossed
  BY <1>6 DEF IsRequest
<1>8. g.row = f.row /\ g.seen = Edition /\ g.crossed = f.crossed /\ g.cool = cool
  BY <1>6, <1>7 DEF IsRequest
<1>9. g = [f EXCEPT !.seen = Edition, !.cool = cool]
  BY <1>6, Zenon
<1>10. [f EXCEPT !.seen = Edition, !.cool = RebuiltRecently(f.today)].cool = cool
  BY <1>8, <1>9
<1>11. CASE ~late \/ (~f.held /\ cool)
  <2>1. Go(t, "answer", g) /\ runLock' = IF f.held THEN Free ELSE runLock
    BY <1>11, <1>9, <1>10, Zenon DEF Judge
  <2>2. Edition > f.row.saw => f.row.known > f.row.saw \/ writes[Edition].at = f.row.made \/ f.crossed \/ cool
    <3>1. SUFFICES ASSUME Edition > f.row.saw, ~(f.row.known > f.row.saw), ~f.crossed, ~cool
                   PROVE  writes[Edition].at = f.row.made
      OBVIOUS
    <3>2. f.found = Written /\ f.found <= f.row.made
      BY <1>4, <1>5, <1>11, <3>1
    <3>3. Edition > f.row.known /\ Edition # 0
      BY <1>4, <3>1
    <3> QED
      BY <1>4, <3>2, <3>3
  <2>3. Reasoned(g)
    BY <1>4, <1>8, <2>2 DEF Reasoned
  <2>4. Screens(t, "answer", g)'
    BY <1>1, <2>3, ReasonLasts DEF Screens
  <2>5. runLock' = runLock \/ runLock \in {t, Free}
    BY <1>3, <2>1
  <2> QED
    BY <1>2, <2>1, <2>4, <2>5
<1>12. CASE f.held /\ late
  <2>1. PICK a : a = Asking(f)
    OBVIOUS
  <2>2. Go(t, "run", a) /\ runLock' = runLock
    BY <1>12, <2>1, Zenon DEF Judge
  <2>3. IsRequest(a) /\ a.held /\ a.today = f.today
    BY <1>12, <2>1, AskingIs
  <2>4. Called(a.today)
    <3>1. Edition # 0 /\ writes[Edition].at > f.row.made
      BY <1>4, <1>5, <1>12
    <3> QED
      BY <1>12, <2>3, <3>1 DEF Called
  <2>5. Called(a.today)'
    <3>1. Len(rows) \in Nat /\ \A i \in 1..Len(rows) : rows[i].made \in Int /\ rows[i].date \in Int
      BY DEF ScreenInv, RowsOk, Ordered, RowOk
    <3> QED
      BY <1>1, <2>4, <3>1, CallLasts
  <2>6. Screens(t, "run", a)'
    BY <1>12, <2>2, <2>3, <2>5 DEF Screens
  <2> QED
    BY <1>2, <2>2, <2>6
<1>13. CASE late /\ ~f.held /\ ~cool
  <2>1. PICK a : a = Asking(f)
    OBVIOUS
  <2>2. Go(t, "lock", a) /\ runLock' = runLock
    BY <1>13, <1>10, <2>1, Zenon DEF Judge
  <2>3. Screens(t, "lock", a)'
    BY <2>1, AskingIs DEF Screens
  <2> QED
    BY <1>2, <2>2, <2>3
<1> QED
  BY <1>3, <1>11, <1>12, <1>13

\* A request at a probe, or at its memo.
LEMMA Probing ==
    ASSUME ScreenInv, NEW t \in Threads, At(t, "probe") \/ At(t, "memo")
    PROVE  /\ IsRequest(frame[t]) /\ RowOk(frame[t].row)
           /\ frame[t].held => runLock = t /\ (LastOf(frame[t].today) => frame[t].row = rows[Len(rows)])
           /\ At(t, "memo") => Findable(frame[t].found)
BY DEF ScreenInv, Screeners, Screens, At

LEMMA ProbeMemoKeeps ==
    ASSUME ScreenInv, NEW t \in Threads, ProbeMemo(t)
    PROVE  ScreenInv'
<1>1. PICK e, found, crossed : e = frame[t] /\ found = memo.found /\ crossed = memo.crossed
  OBVIOUS
<1>2. PICK h, f : h = [e EXCEPT !.found = found] /\ f = [h EXCEPT !.crossed = crossed]
  OBVIOUS
<1>3. Judge(t, f)
  <2>1. f = [frame[t] EXCEPT !.found = memo.found, !.crossed = memo.crossed]
    BY <1>1, <1>2, Zenon
  <2> QED
    BY <2>1, Zenon DEF ProbeMemo
<1>4. IsRequest(e) /\ RowOk(e.row) /\ (e.held => runLock = t /\ (LastOf(e.today) => e.row = rows[Len(rows)]))
  BY <1>1, Probing DEF ProbeMemo
<1>5. IsRequest(h) /\ h.row = e.row /\ h.held = e.held /\ h.today = e.today /\ h.found = found
  BY <1>2, <1>4 DEF IsRequest
<1>6. IsRequest(f) /\ f.row = e.row /\ f.held = e.held /\ f.today = e.today /\ f.found = found /\ f.crossed = crossed
  BY <1>2, <1>5 DEF IsRequest
<1>7. Findable(found) /\ (crossed \/ found = Written) /\ UNCHANGED <<clock, writes, rows, memo>>
  BY <1>1 DEF ProbeMemo, ScreenInv, MemoOk
<1>8. MemoOk'
  BY <1>7 DEF ScreenInv, MemoOk, Findable, Written, Edition, clock
<1> QED
  BY <1>3, <1>4, <1>6, <1>7, <1>8, JudgeKeeps

LEMMA ProbeIndexKeeps ==
    ASSUME ScreenInv, NEW t \in Threads, ProbeIndex(t)
    PROVE  ScreenInv'
<1>1. PICK e : e = frame[t] /\ IsRequest(e) /\ RowOk(e.row)
               /\ (e.held => runLock = t /\ (LastOf(e.today) => e.row = rows[Len(rows)]))
  BY Probing DEF ProbeIndex
<1>2. PICK f : f = [e EXCEPT !.found = Written]
  OBVIOUS
<1>3. Go(t, "memo", f) /\ UNCHANGED <<clock, writes, rows, memo, runLock>>
  BY <1>1, <1>2 DEF ProbeIndex, Step, screenVars
<1>4. IsRequest(f) /\ f.row = e.row /\ f.held = e.held /\ f.today = e.today /\ f.found = Written
  BY <1>1, <1>2 DEF IsRequest
<1>5. Findable(f.found)
  BY <1>4, WrittenIs DEF Findable, ScreenInv
<1>6. Screens(t, "memo", f)
  BY <1>1, <1>4, <1>5 DEF Screens
<1>7. Screens(t, "memo", f)'
  BY <1>3, <1>6, ScreensOn, Stands DEF ScreenInv, clock
<1> QED
  BY <1>3, <1>7, GoesOn

LEMMA KeepProbeKeeps ==
    ASSUME ScreenInv, NEW t \in Threads, KeepProbe(t)
    PROVE  ScreenInv'
<1>1. PICK e, crossed : e = frame[t] /\ crossed = (frame[t].found # Written)
  OBVIOUS
<1>2. PICK f : f = [e EXCEPT !.crossed = crossed]
  OBVIOUS
<1>3. Judge(t, f) /\ UNCHANGED <<clock, writes, rows>> /\ memo' = [until |-> tick + ProbeTtl, found |-> e.found, crossed |-> crossed]
  BY <1>1, <1>2, Zenon DEF KeepProbe
<1>4. IsRequest(e) /\ RowOk(e.row) /\ (e.held => runLock = t /\ (LastOf(e.today) => e.row = rows[Len(rows)]))
      /\ Findable(e.found)
  BY <1>1, Probing DEF KeepProbe
<1>5. IsRequest(f) /\ f.row = e.row /\ f.held = e.held /\ f.today = e.today /\ f.found = e.found /\ f.crossed = crossed
  BY <1>2, <1>4 DEF IsRequest
<1>6. crossed \/ e.found = Written
  BY <1>1
<1>7. memo'.until = tick + ProbeTtl /\ memo'.found = e.found /\ memo'.crossed = crossed
  BY <1>3
<1>8. UNCHANGED <<Written, tick>> /\ tick + ProbeTtl \in Int
  BY <1>3, ScreenerAssumption DEF Written, Edition, clock, ScreenInv, ClockOk
<1>9. MemoOk'
  BY <1>4, <1>6, <1>7, <1>8 DEF MemoOk, Findable
<1> QED
  BY <1>3, <1>4, <1>5, <1>6, <1>9, JudgeKeeps

-----------------------------------------------------------------------------
(* The run lock. *)

\* Who takes the lock runs, or looks again.
LEMMA LockKeeps ==
    ASSUME ScreenInv, NEW t \in Threads, LockRun(t)
    PROVE  ScreenInv'
<1>1. PICK e, f : e = frame[t] /\ f = [e EXCEPT !.held = TRUE]
  OBVIOUS
<1>2. IsRequest(e)
  BY <1>1 DEF LockRun, At, ScreenInv, Screeners, Screens
<1>3. IsRequest(f) /\ f.held /\ f.today = e.today /\ f.force \in BOOLEAN /\ f.today \in Int
  BY <1>1, <1>2 DEF IsRequest
<1>4. /\ runLock = Free /\ runLock' = t /\ UNCHANGED <<clock, writes, rows, memo>>
      /\ IF f.force \/ NeedsRun(f) THEN Go(t, "run", f) ELSE Go(t, "probe", [f EXCEPT !.row = RowFor(f.today)])
  BY <1>1, Zenon DEF LockRun
<1>5. ClockOk' /\ WritesOk' /\ Onward /\ RowsOk
  BY <1>4, Stands DEF ScreenInv, clock
<1>6. CASE f.force \/ NeedsRun(f)
  <2>1. Go(t, "run", f)
    BY <1>4, <1>6
  <2>2. ASSUME ~f.force PROVE Called(f.today)
    <3>1. SUFFICES ASSUME LastOf(f.today) PROVE Called(f.today)
      BY DEF Called
    <3>2. RowFor(f.today) = rows[Len(rows)] /\ RowFor(f.today) # NoRow
      BY <1>5, <3>1, RowForIs
    <3>3. writes # <<>> /\ writes[Edition].bar > rows[Len(rows)].date
      BY <1>6, <2>2, <3>2 DEF NeedsRun, BarIsLater
    <3>4. Edition # 0
      <4>1. writes = [i \in 1..Edition |-> writes[i]]
        BY DEF ScreenInv, WritesOk, Ordered, Edition
      <4>2. Edition = 0 => writes = <<>>
        BY <4>1
      <4> QED
        BY <3>3, <4>2
    <3> QED
      BY <3>3, <3>4 DEF Called
  <2>3. Called(f.today) => Called(f.today)'
    <3>1. Len(rows) \in Nat /\ \A i \in 1..Len(rows) : rows[i].made \in Int /\ rows[i].date \in Int
      BY <1>5 DEF RowsOk, Ordered, RowOk
    <3> QED
      BY <1>4, <1>5, <3>1, CallLasts
  <2>4. Screens(t, "run", f)'
    BY <1>3, <1>4, <2>2, <2>3 DEF Screens
  <2> QED
    BY <1>4, <2>1, <2>4, GoesOn
<1>7. CASE ~(f.force \/ NeedsRun(f))
  <2>1. PICK row : row = RowFor(f.today) /\ RowOk(row) /\ (LastOf(f.today) => row = rows[Len(rows)])
    BY <1>5, <1>7, RowForIs DEF NeedsRun
  <2>2. PICK g : g = [f EXCEPT !.row = row]
    OBVIOUS
  <2>3. Go(t, "probe", g)
    BY <1>4, <1>7, <2>1, <2>2
  <2>4. IsRequest(g) /\ g.row = row /\ g.held /\ g.today = f.today
    BY <1>3, <2>2 DEF IsRequest
  <2>5. RowOk(row)'
    BY <1>5, <2>1, RowLasts
  <2>6. Screens(t, "probe", g)'
    BY <1>4, <2>1, <2>4, <2>5 DEF Screens, LastOf
  <2> QED
    BY <1>4, <2>3, <2>6, GoesOn
<1> QED
  BY <1>6, <1>7

LEMMA RunKeeps ==
    ASSUME ScreenInv, NEW t \in Threads, RunEngine(t)
    PROVE  ScreenInv'
<1>1. PICK e : e = frame[t] /\ IsRequest(e) /\ e.held /\ runLock = t /\ (e.force \/ Called(e.today))
  BY DEF RunEngine, At, ScreenInv, Screeners, Screens
<1>2. CASE Step(t, "save", [frame[t] EXCEPT !.saw = Edition])
  <2>1. PICK f : f = [e EXCEPT !.saw = Edition]
    OBVIOUS
  <2>2. Go(t, "save", f) /\ UNCHANGED <<clock, writes, rows, memo, runLock>>
    BY <1>1, <1>2, <2>1 DEF Step, screenVars
  <2>3. IsRequest(f) /\ f.held /\ f.force = e.force /\ f.today = e.today /\ f.saw = Edition
    BY <1>1, <2>1 DEF IsRequest
  <2>4. Edition \in Nat
    BY WrittenIs DEF ScreenInv
  <2>5. Screens(t, "save", f)
    BY <1>1, <2>3, <2>4 DEF Screens
  <2>6. Screens(t, "save", f)'
    BY <2>2, <2>5, ScreensOn, Stands DEF ScreenInv, clock
  <2> QED
    BY <2>2, <2>6, GoesOn
<1>3. CASE Done(t) /\ runLock' = Free /\ UNCHANGED <<clock, writes, rows, memo, rebuilt, warmed, archived>>
  <2>1. Screens(t, "idle", NoFrame)'
    BY DEF Screens
  <2> QED
    BY <1>1, <1>3, <2>1, GoesOn DEF Done
<1> QED
  BY <1>2, <1>3 DEF RunEngine

\* The last entries of a table.
LEMMA LastOnes ==
    ASSUME NEW s, Ordered(s), NEW k \in 1..Len(s)
    PROVE  LET r == SubSeq(s, k, Len(s)) IN
           /\ Ordered(r) /\ Len(r) = Len(s) - k + 1
           /\ \A i \in 1..Len(r) : r[i] = s[i + k - 1]
<1> DEFINE S == {s[i] : i \in 1..Len(s)}
           r == SubSeq(s, k, Len(s))
<1>1. s \in Seq(S)
  <2>1. s \in [1..Len(s) -> S]
    BY DEF Ordered
  <2> HIDE DEF S
  <2> QED
    BY <2>1, SeqDef DEF Ordered
<1> HIDE DEF S
<1>2. Len(s) \in Nat /\ k \in 1..(Len(s) + 1) /\ Len(s) \in (k - 1)..Len(s)
  BY DEF Ordered
<1>3. r \in Seq(S) /\ Len(r) = Len(s) - k + 1 /\ \A i \in 1..(Len(s) - k + 1) : r[i] = s[k + i - 1]
  BY <1>1, <1>2, SubSeqProperties
<1>4. r \in [1..Len(r) -> S] /\ Len(r) \in Nat
  BY <1>3, LenProperties
<1> QED
  BY <1>2, <1>3, <1>4 DEF Ordered

\* A run that was not asked for is saved when the data called for it, and the run
\* before it is the one that the data was called newer than.
LEMMA SaveKeeps ==
    ASSUME ScreenInv, NEW t \in Threads, SaveRow(t)
    PROVE  ScreenInv'
<1>1. PICK f : f = frame[t] /\ IsRequest(f) /\ runLock = t /\ f.saw \in Nat /\ f.saw <= Edition
               /\ (f.force \/ Called(f.today)) /\ f.today \in Int /\ f.force \in BOOLEAN
  BY DEF SaveRow, At, ScreenInv, Screeners, Screens, IsRequest
<1> DEFINE row == [date |-> f.today, made |-> tick, forced |-> f.force, saw |-> f.saw, known |-> Edition]
           all == Append(rows, row)
           k == Max({1, Len(all) - KeepPerKey + 1})
<1>2. rows' = SubSeq(all, k, Len(all)) /\ runLock' = Free /\ Go(t, "idle", NoFrame) /\ UNCHANGED <<clock, writes, memo>>
  BY <1>1, Zenon DEF SaveRow, Done
<1>3. /\ "made" \in DOMAIN row /\ row.date = f.today /\ row.made = tick /\ row.forced = f.force
      /\ row.saw = f.saw /\ row.known = Edition
  OBVIOUS
<1>4. Edition \in Nat /\ tick \in Nat /\ Ordered(rows) /\ Len(rows) \in Nat
  BY WrittenIs DEF ScreenInv, ClockOk, RowsOk, Ordered
<1>5. RowOk(row)
  <2> HIDE DEF row
  <2> QED
    BY <1>1, <1>3, <1>4 DEF RowOk
<1>6. Ordered(all) /\ Len(all) = Len(rows) + 1 /\ all[Len(all)] = row /\ \A i \in 1..Len(rows) : all[i] = rows[i]
  <2> HIDE DEF row
  <2> QED
    BY <1>4, OneMore
<1> HIDE DEF row
<1>7. k \in 1..Len(all)
  <2>1. KeepPerKey \in Nat /\ KeepPerKey >= 1 /\ Len(all) \in Nat /\ Len(all) >= 1
    BY <1>4, <1>6, ScreenerAssumption
  <2> HIDE DEF all
  <2>2. PICK m : m = Len(all) - KeepPerKey + 1 /\ m \in Int /\ m <= Len(all)
    BY <2>1
  <2>3. Max({1, m}) \in {1, m} /\ \A i \in {1, m} : Max({1, m}) >= i
    <3>1. \E x \in {1, m} : \A i \in {1, m} : x >= i
      BY <2>2
    <3> QED
      BY <3>1 DEF Max
  <2>4. k = Max({1, m})
    BY <2>2
  <2> QED
    BY <2>1, <2>2, <2>3, <2>4
<1>8. /\ Ordered(rows') /\ Len(rows') = Len(all) - k + 1
      /\ \A i \in 1..Len(rows') : rows'[i] = all[i + k - 1] /\ i + k - 1 \in 1..Len(all)
  <2> HIDE DEF k, all
  <2>1. Ordered(rows') /\ Len(rows') = Len(all) - k + 1 /\ \A i \in 1..Len(rows') : rows'[i] = all[i + k - 1]
    BY <1>2, <1>6, <1>7, LastOnes
  <2>2. \A i \in 1..Len(rows') : i + k - 1 \in 1..Len(all)
    BY <1>6, <1>7, <2>1 DEF Ordered
  <2> QED
    BY <2>1, <2>2
<1>9. \A i \in 1..Len(all) : RowOk(all[i])
  <2> HIDE DEF k
  <2> QED
    BY <1>4, <1>5, <1>6 DEF ScreenInv, RowsOk
<1>10. ClockOk' /\ WritesOk' /\ Onward
  BY <1>2, Stands DEF ScreenInv, clock
<1>11. MemoOk'
  BY <1>2 DEF ScreenInv, MemoOk, Findable, Written, Edition, clock
<1>12. RowsOk'
  <2> HIDE DEF all, k
  <2>1. \A i \in 1..Len(rows') : RowOk(rows'[i])
    BY <1>8, <1>9
  <2> QED
    BY <1>2, <1>8, <2>1 DEF RowsOk, RowOk, Edition, clock
\* Two rows that follow each other in the table, with the new one.
<1>13. ASSUME NEW i \in 1..Len(rows), all[i].date = all[i + 1].date, ~all[i + 1].forced
       PROVE  /\ all[i + 1].known # 0
              /\ \/ writes[all[i + 1].known].at > all[i].made
                 \/ writes[all[i + 1].known].bar > all[i + 1].date
  <2>1. CASE i = Len(rows)
    <3>1. all[i + 1] = row /\ all[i] = rows[Len(rows)] /\ LastOf(f.today) /\ ~f.force
      BY <1>3, <1>6, <1>13, <2>1 DEF LastOf
    <3> HIDE DEF all
    <3>2. Called(f.today)
      BY <1>1, <3>1
    <3> QED
      BY <1>3, <3>1, <3>2 DEF Called, LastOf
  <2>2. CASE i # Len(rows)
    <3>1. i \in DOMAIN rows /\ i + 1 \in DOMAIN rows /\ all[i + 1] = rows[i + 1] /\ all[i] = rows[i]
      BY <1>4, <1>6, <2>2 DEF Ordered
    <3> HIDE DEF all
    <3> QED
      BY <1>13, <3>1 DEF ScreenInv, RunsAnswerWrites
  <2> QED
    BY <2>1, <2>2
<1>14. RunsAnswerWrites'
  <2> HIDE DEF all, k
  <2>1. DOMAIN rows' = 1..Len(rows') /\ writes' = writes /\ Len(rows) \in Nat /\ Len(rows') \in Int
    <3>1. Ordered(rows')
      BY <1>8
    <3>2. rows' = [i \in 1..Len(rows') |-> rows'[i]] /\ Len(rows') \in Nat
      BY <3>1, Zenon DEF Ordered
    <3>3. DOMAIN rows' = 1..Len(rows')
      BY <3>2, Zenon
    <3>4. writes' = writes
      BY <1>2
    <3> QED
      BY <1>4, <3>2, <3>3, <3>4
  <2>2. ASSUME NEW i \in 1..Len(rows'), NEW j \in 1..Len(rows'), j = i + 1
        PROVE  \E n \in 1..Len(rows) : rows'[i] = all[n] /\ rows'[j] = all[n + 1]
    <3>1. i + k - 1 \in 1..Len(all) /\ j + k - 1 \in 1..Len(all) /\ k \in Nat /\ i \in Nat
      BY <1>7, <1>8
    <3>2. j + k - 1 = (i + k - 1) + 1 /\ i + k - 1 \in 1..Len(rows)
      BY <1>4, <1>6, <2>2, <3>1
    <3> QED
      BY <1>8, <2>2, <3>2
  <2> QED
    BY <1>13, <2>1, <2>2 DEF RunsAnswerWrites
<1>15. Screeners'
  <2>1. Moved(t, "idle", NoFrame)
    BY <1>2, Moves DEF ScreenInv, Screeners
  <2>2. ASSUME NEW u \in Threads, u # t PROVE Screens(u, pc[u], frame[u])'
    <3>1. PICK l, g : l = pc[u] /\ g = frame[u] /\ Screens(u, l, g)
      BY DEF ScreenInv, Screeners
    <3>2. Screens(u, l, g)'
      BY <1>1, <1>10, <2>2, <3>1, ScreensOn DEF ScreenInv
    <3> QED
      BY <2>1, <2>2, <3>1, <3>2 DEF Moved
  <2>3. Screens(t, pc[t], frame[t])'
    BY <2>1 DEF Moved, Screens
  <2> QED
    BY <2>1, <2>2, <2>3 DEF Screeners, Moved
<1> QED
  BY <1>10, <1>11, <1>12, <1>14, <1>15 DEF ScreenInv

-----------------------------------------------------------------------------
(* The warmer. *)

LEMMA StartWarmKeeps ==
    ASSUME ScreenInv, NEW t \in Threads, StartWarm(t)
    PROVE  ScreenInv'
<1>1. PICK f : f = Request("warm", TRUE, Today, FALSE) /\ Begin(t, "warm", f) /\ UNCHANGED <<clock, writes, rows, memo, runLock>>
  BY DEF StartWarm, Ask, screenVars
<1>2. IsRequest(f)
  BY <1>1, RequestIs, Dates DEF ScreenInv, ClockOk, Today
<1>3. Screens(t, "warm", f)'
  BY <1>2 DEF Screens
<1> QED
  BY <1>1, <1>3, GoesOn

\* The data that it writes, and the screen that follows.
LEMMA WarmKeeps ==
    ASSUME ScreenInv, NEW t \in Threads, Warm(t)
    PROVE  ScreenInv'
<1>1. PICK f : f = Request("warm", TRUE, Today, FALSE) /\ Go(t, Arrival(f), f)
  BY DEF Warm, Prewarm
<1>2. IsRequest(f) /\ f.force = TRUE
  BY <1>1, RequestIs, Dates DEF ScreenInv, ClockOk, Today
<1>3. PICK l : l = Arrival(f) /\ l \in {"live", "serve", "lock"}
  <2>1. f.force \in BOOLEAN
    BY <1>2
  <2>2. Arrival(f) \in {"live", "serve", "lock", "probe"} /\ Arrival(f) # "probe"
    BY <1>2, <2>1, ArrivalIs
  <2> QED
    BY <2>2
<1>4. UNCHANGED <<clock, rows, runLock>> /\ (Rewrite \/ UNCHANGED <<writes, memo>>)
  BY DEF Warm, WarmMarket
<1>5. ClockOk' /\ WritesOk' /\ MemoOk' /\ Onward
  <2>1. CASE Rewrite
    BY <1>4, <2>1, WriteGoesOn DEF ScreenInv
  <2>2. CASE UNCHANGED <<writes, memo>>
    BY <1>4, <2>2, Stands DEF ScreenInv, clock, MemoOk, Findable, Written, Edition
  <2> QED
    BY <1>4, <2>1, <2>2
<1>6. Moved(t, l, f)
  BY <1>1, <1>3, Moves DEF ScreenInv, Screeners
<1>7. Screens(t, l, f)'
  BY <1>2, <1>3 DEF Screens
<1> QED
  BY <1>4, <1>5, <1>6, <1>7, Forward

LEMMA ScreenSteps ==
    ASSUME ScreenInv, ScreenNext
    PROVE  ScreenInv'
BY TimeKeeps, DataKeeps, ScreenRestartKeeps, StartKeeps, OpenKeeps, ProbeMemoKeeps, ProbeIndexKeeps, KeepProbeKeeps,
   LockKeeps, RunKeeps, SaveKeeps, StartWarmKeeps, WarmKeeps DEF ScreenNext

LEMMA ScreenShows == ScreenInv => RunsAnswerWrites /\ StaleForAReason
BY DEF ScreenInv, Screeners, Screens, Reasoned, StaleForAReason, At

-----------------------------------------------------------------------------
(* The inductive invariant.  That a page never goes back speaks of requests *)
(* that have their answer.  It rests on the one that is about to change it: *)
(* builds of the key take turns, so a build that reads its data now stores  *)
(* something at least as new as all that is stored or about to be shown.    *)

IsRead(f) ==
    /\ f = [op |-> f.op, force |-> f.force, since |-> f.since, edition |-> f.edition]
    /\ f.since \in Nat /\ f.edition \in Nat

PagesTyped ==
    /\ pc = [t \in Threads |-> pc[t]]
    /\ frame = [t \in Threads |-> frame[t]]
    /\ \A t \in Threads : ~At(t, "idle") => IsRead(frame[t])
    /\ source \in Nat /\ newest \in Nat /\ entry.edition \in Nat

Building(t) == At(t, "build") \/ At(t, "store")

\* Who builds holds the lock.
BuildsTakeTurns == \A t \in Threads : Building(t) => keyLock = t

\* Nothing is newer than the data, and no request began later than now.
EditionsBounded ==
    /\ newest <= source /\ entry.edition <= source
    /\ \A t \in Threads : ~At(t, "idle") => frame[t].edition <= source /\ frame[t].since <= newest

\* Whatever is shown is no newer than edition e.
NoNewerThan(e) ==
    /\ newest <= e
    /\ \A u \in Threads : At(u, "shown") => frame[u].edition <= e

\* The entry, and the one to be stored, are the newest so far.
EditionsOrdered ==
    /\ entry # NoEntry => NoNewerThan(entry.edition)
    /\ \A t \in Threads : At(t, "store") => NoNewerThan(frame[t].edition) /\ entry.edition <= frame[t].edition

\* What a build that fails may show is the entry that it was to replace, or was.
FallbackOrdered ==
    \A t \in Threads : (At(t, "build") /\ frame[t].edition # 0) =>
        /\ NoNewerThan(frame[t].edition)
        /\ entry # NoEntry => entry.edition = frame[t].edition

LayerInv ==
    PagesTyped /\ BuildsTakeTurns /\ EditionsBounded /\ EditionsOrdered /\ FallbackOrdered /\ PagesGoForward

-----------------------------------------------------------------------------

LEMMA LayerBegins == PoolInit /\ LayerInit => LayerInv
BY DEF PoolInit, LayerInit, LayerInv, PagesTyped, BuildsTakeTurns, EditionsBounded, EditionsOrdered, FallbackOrdered,
       NoNewerThan, PagesGoForward, Building, At, NoEntry

\* What is good to show is there.
LEMMA FreshIsThere == \A e : Fresh(e) => e # NoEntry
BY DEF Fresh

LEMMA DisplayableIsThere == \A e : Displayable(e) => e # NoEntry
BY DEF Displayable

\* The entry that is shown is the one that is stored, if any.
LEMMA LiveIsEntry == Live \in {entry, NoEntry}
BY DEF Live

LEMMA PageMoves ==
    ASSUME PagesTyped, NEW t \in Threads, NEW l, NEW f,
           pc' = [pc EXCEPT ![t] = l], frame' = [frame EXCEPT ![t] = f]
    PROVE  Moved(t, l, f)
BY DEF PagesTyped, Moved, Pool

\* A request that finds the entry fresh goes to show it.
LEMMA ShowsEntry ==
    ASSUME LayerInv, NEW t \in Threads, NEW f,
           pc' = [pc EXCEPT ![t] = "shown"], frame' = [frame EXCEPT ![t] = f], IsRead(f),
           ~Building(t), f.since <= newest, f.edition = entry.edition, entry # NoEntry,
           UNCHANGED <<source, entry, newest, keyLock>>
    PROVE  LayerInv'
<1>1. Moved(t, "shown", f)
  BY PageMoves DEF LayerInv
<1>5. PagesTyped'
  BY <1>1 DEF LayerInv, PagesTyped, Moved, Pool, At, IsRead
<1>6. BuildsTakeTurns'
  BY <1>1 DEF LayerInv, BuildsTakeTurns, Building, Moved, Pool, At
<1>7. EditionsBounded'
  BY <1>1 DEF LayerInv, PagesTyped, EditionsBounded, Moved, Pool, At, IsRead
<1>8. EditionsOrdered'
  <2>1. ASSUME entry' # NoEntry, NEW u \in Threads, At(u, "shown")'
        PROVE  frame'[u].edition <= entry'.edition
    <3>1. CASE u = t
      BY <2>1, <3>1, <1>1 DEF Moved, Pool, At, IsRead
    <3>2. CASE u # t
      <4>1. At(u, "shown") /\ frame'[u] = frame[u] /\ entry # NoEntry /\ entry' = entry
        BY <2>1, <3>2, <1>1 DEF Moved, Pool, At
      <4> QED
        BY <4>1 DEF LayerInv, EditionsOrdered, NoNewerThan
    <3> QED
      BY <3>1, <3>2
  <2>2. entry' # NoEntry => newest' <= entry'.edition
    BY <1>1 DEF LayerInv, PagesTyped, BuildsTakeTurns, Building, EditionsBounded, EditionsOrdered, NoNewerThan, Moved, Pool, At, IsRead
  <2>3. ASSUME NEW u \in Threads, At(u, "store")'
        PROVE  /\ u # t /\ At(u, "store") /\ frame'[u] = frame[u]
               /\ newest' <= frame'[u].edition /\ entry'.edition <= frame'[u].edition
    BY <2>3, <1>1 DEF LayerInv, PagesTyped, BuildsTakeTurns, Building, EditionsBounded, EditionsOrdered, NoNewerThan, Moved, Pool, At, IsRead
  <2>4. ASSUME NEW u \in Threads, At(u, "store")', NEW v \in Threads, At(v, "shown")'
        PROVE  frame'[v].edition <= frame'[u].edition
    BY <2>3, <2>4, <1>1 DEF LayerInv, PagesTyped, BuildsTakeTurns, Building, EditionsBounded, EditionsOrdered, NoNewerThan, Moved, Pool, At, IsRead
  <2> QED
    BY <2>1, <2>2, <2>3, <2>4 DEF EditionsOrdered, NoNewerThan, At
<1>9. PagesGoForward'
  BY <1>1 DEF LayerInv, PagesTyped, EditionsBounded, EditionsOrdered, NoNewerThan, PagesGoForward, Moved, Pool, At, IsRead
<1>10. FallbackOrdered'
  BY <1>1 DEF LayerInv, PagesTyped, BuildsTakeTurns, Building, EditionsBounded, EditionsOrdered, FallbackOrdered, NoNewerThan, Moved, Pool, At, IsRead
<1> QED
  BY <1>5, <1>6, <1>7, <1>8, <1>9, <1>10 DEF LayerInv

\* A request that waits changes nothing, though the entry may be gone.
LEMMA Waits ==
    ASSUME LayerInv, NEW t \in Threads, NEW f,
           pc' = [pc EXCEPT ![t] = "wait"], frame' = [frame EXCEPT ![t] = f], IsRead(f),
           ~Building(t), f.since <= newest, f.edition = 0,
           entry' \in {entry, NoEntry}, UNCHANGED <<source, newest, keyLock>>
    PROVE  LayerInv'
<1>1. Moved(t, "wait", f)
  BY PageMoves DEF LayerInv
<1>2. entry' = entry \/ (entry' = NoEntry /\ entry'.edition = 0)
  BY DEF NoEntry
<1>5. PagesTyped'
  BY <1>1, <1>2 DEF LayerInv, PagesTyped, Moved, Pool, At, IsRead
<1>6. BuildsTakeTurns'
  BY <1>1, <1>2 DEF LayerInv, BuildsTakeTurns, Building, Moved, Pool, At
<1>7. EditionsBounded'
  BY <1>1, <1>2 DEF LayerInv, PagesTyped, EditionsBounded, Moved, Pool, At, IsRead
<1>8. EditionsOrdered'
  <2>1. ASSUME entry' # NoEntry, NEW u \in Threads, At(u, "shown")'
        PROVE  frame'[u].edition <= entry'.edition
    <3>1. CASE u = t
      BY <2>1, <3>1, <1>1, <1>2 DEF Moved, Pool, At, IsRead
    <3>2. CASE u # t
      <4>1. At(u, "shown") /\ frame'[u] = frame[u] /\ entry # NoEntry /\ entry' = entry
        BY <2>1, <3>2, <1>1, <1>2 DEF Moved, Pool, At
      <4> QED
        BY <4>1 DEF LayerInv, EditionsOrdered, NoNewerThan
    <3> QED
      BY <3>1, <3>2
  <2>2. entry' # NoEntry => newest' <= entry'.edition
    BY <1>1, <1>2 DEF LayerInv, EditionsOrdered, NoNewerThan
  <2>3. ASSUME NEW u \in Threads, At(u, "store")'
        PROVE  /\ u # t /\ At(u, "store") /\ frame'[u] = frame[u]
               /\ newest' <= frame'[u].edition /\ entry'.edition <= frame'[u].edition
    <3>1. u # t /\ At(u, "store") /\ frame'[u] = frame[u]
      BY <2>3, <1>1 DEF Moved, Pool, At
    <3>2. newest <= frame[u].edition /\ entry.edition <= frame[u].edition /\ frame[u].edition \in Nat
      BY <3>1 DEF LayerInv, PagesTyped, EditionsOrdered, NoNewerThan, At, IsRead
    <3> QED
      BY <3>1, <3>2, <1>2
  <2>4. ASSUME NEW u \in Threads, At(u, "store")', NEW v \in Threads, At(v, "shown")'
        PROVE  frame'[v].edition <= frame'[u].edition
    BY <2>3, <2>4, <1>1, <1>2 DEF LayerInv, PagesTyped, BuildsTakeTurns, Building, EditionsBounded, EditionsOrdered, NoNewerThan, Moved, Pool, At, IsRead
  <2> QED
    BY <2>1, <2>2, <2>3, <2>4 DEF EditionsOrdered, NoNewerThan, At
<1>9. PagesGoForward'
  BY <1>1, <1>2 DEF LayerInv, PagesTyped, EditionsBounded, EditionsOrdered, NoNewerThan, PagesGoForward, Moved, Pool, At, IsRead
<1>10. FallbackOrdered'
  BY <1>1, <1>2 DEF LayerInv, PagesTyped, BuildsTakeTurns, Building, EditionsBounded, EditionsOrdered, FallbackOrdered, NoNewerThan, Moved, Pool, At, IsRead
<1> QED
  BY <1>5, <1>6, <1>7, <1>8, <1>9, <1>10 DEF LayerInv

\* A request that builds is the only one, and keeps the entry for its fallback, or nothing.
LEMMA TakesLock ==
    ASSUME LayerInv, NEW t \in Threads, NEW f, keyLock = Nobody, keyLock' = t,
           pc' = [pc EXCEPT ![t] = "build"], frame' = [frame EXCEPT ![t] = f], IsRead(f), f.since <= newest,
           f.edition = 0 \/ (entry # NoEntry /\ f.edition = entry.edition),
           ~At(t, "idle"),
           entry' \in {entry, NoEntry}, UNCHANGED <<source, newest>>
    PROVE  LayerInv'
<1>1. Moved(t, "build", f) /\ IsRead(f)
  BY PageMoves DEF LayerInv
<1>2. entry' = entry \/ (entry' = NoEntry /\ entry'.edition = 0)
  BY DEF NoEntry
<1>3. \A u \in Threads : ~Building(u)
  BY NobodyAssumption DEF LayerInv, BuildsTakeTurns
<1>5. PagesTyped'
  BY <1>1, <1>2, <1>3 DEF LayerInv, PagesTyped, Moved, Pool, At, IsRead
<1>6. BuildsTakeTurns'
  BY <1>1, <1>2, <1>3 DEF LayerInv, BuildsTakeTurns, Building, Moved, Pool, At
<1>7. EditionsBounded'
  BY <1>1, <1>2, <1>3 DEF LayerInv, PagesTyped, EditionsBounded, Moved, Pool, At, IsRead
<1>8. EditionsOrdered'
  BY <1>1, <1>2, <1>3 DEF LayerInv, PagesTyped, BuildsTakeTurns, Building, EditionsBounded, EditionsOrdered, NoNewerThan, Moved, Pool, At, IsRead
<1>9. PagesGoForward'
  BY <1>1, <1>2, <1>3 DEF LayerInv, PagesTyped, EditionsBounded, EditionsOrdered, NoNewerThan, PagesGoForward, Moved, Pool, At, IsRead
<1>10. FallbackOrdered'
  BY <1>1, <1>2, <1>3 DEF LayerInv, PagesTyped, BuildsTakeTurns, Building, EditionsBounded, EditionsOrdered, FallbackOrdered, NoNewerThan, Moved, Pool, At, IsRead
<1> QED
  BY <1>5, <1>6, <1>7, <1>8, <1>9, <1>10 DEF LayerInv

\* A build reads the newest data.
LEMMA Builds ==
    ASSUME LayerInv, NEW t \in Threads, BuildPage(t)
    PROVE  LayerInv'
<1> DEFINE f == [frame[t] EXCEPT !.edition = source]
<1>1. Moved(t, "store", f) /\ IsRead(f) /\ f.edition = source /\ f.since = frame[t].since
  <2>1. IsRead(frame[t]) /\ source \in Nat
    BY DEF BuildPage, LayerInv, PagesTyped, At
  <2>2. IsRead(f) /\ f.edition = source /\ f.since = frame[t].since
    BY <2>1 DEF IsRead
  <2>3. pc' = [pc EXCEPT ![t] = "store"] /\ frame' = [frame EXCEPT ![t] = f]
    BY DEF BuildPage, Go
  <2> HIDE DEF f
  <2>4. Moved(t, "store", f)
    BY <2>3, PageMoves DEF LayerInv
  <2> QED
    BY <2>2, <2>4
<1> HIDE DEF f
<1>2. At(t, "build") /\ UNCHANGED <<source, entry, newest, keyLock>>
  BY DEF BuildPage, layerVars
<1>5. PagesTyped'
  BY <1>1, <1>2 DEF LayerInv, PagesTyped, Moved, Pool, At, IsRead
<1>6. BuildsTakeTurns'
  BY <1>1, <1>2 DEF LayerInv, BuildsTakeTurns, Building, Moved, Pool, At
<1>7. EditionsBounded'
  BY <1>1, <1>2 DEF LayerInv, PagesTyped, EditionsBounded, Moved, Pool, At, IsRead
<1>8. EditionsOrdered'
  BY <1>1, <1>2 DEF LayerInv, PagesTyped, BuildsTakeTurns, Building, EditionsBounded, EditionsOrdered, NoNewerThan, Moved, Pool, At, IsRead
<1>9. PagesGoForward'
  BY <1>1, <1>2 DEF LayerInv, PagesTyped, EditionsBounded, EditionsOrdered, NoNewerThan, PagesGoForward, Moved, Pool, At, IsRead
<1>10. FallbackOrdered'
  BY <1>1, <1>2 DEF LayerInv, PagesTyped, BuildsTakeTurns, Building, EditionsBounded, EditionsOrdered, FallbackOrdered, NoNewerThan, Moved, Pool, At, IsRead
<1> QED
  BY <1>5, <1>6, <1>7, <1>8, <1>9, <1>10 DEF LayerInv

\* What it stores is no older than what is there.
LEMMA Stores ==
    ASSUME LayerInv, NEW t \in Threads, StorePage(t)
    PROVE  LayerInv'
<1>1. Moved(t, "shown", frame[t]) /\ IsRead(frame[t])
  BY PageMoves DEF StorePage, Go, LayerInv, PagesTyped, At
<1>2. At(t, "store") /\ keyLock' = Nobody /\ UNCHANGED <<source, newest>>
  BY DEF StorePage
<1>3. entry'.edition = frame[t].edition
  BY DEF StorePage
<1>4. \A u \in Threads : Building(u) => u = t
  BY <1>2 DEF LayerInv, BuildsTakeTurns, Building
<1>5. PagesTyped'
  BY <1>1, <1>2, <1>3, <1>4 DEF LayerInv, PagesTyped, Moved, Pool, At, IsRead
<1>6. BuildsTakeTurns'
  BY <1>1, <1>2, <1>3, <1>4 DEF LayerInv, BuildsTakeTurns, Building, Moved, Pool, At
<1>7. EditionsBounded'
  BY <1>1, <1>2, <1>3, <1>4 DEF LayerInv, PagesTyped, EditionsBounded, Moved, Pool, At, IsRead
<1>8. EditionsOrdered'
  BY <1>1, <1>2, <1>3, <1>4 DEF LayerInv, PagesTyped, BuildsTakeTurns, Building, EditionsBounded, EditionsOrdered, NoNewerThan, Moved, Pool, At, IsRead
<1>9. PagesGoForward'
  BY <1>1, <1>2, <1>3, <1>4 DEF LayerInv, PagesTyped, EditionsBounded, EditionsOrdered, NoNewerThan, PagesGoForward, Moved, Pool, At, IsRead
<1>10. FallbackOrdered'
  BY <1>1, <1>2, <1>3, <1>4 DEF LayerInv, PagesTyped, BuildsTakeTurns, Building, EditionsBounded, EditionsOrdered, FallbackOrdered, NoNewerThan, Moved, Pool, At, IsRead
<1> QED
  BY <1>5, <1>6, <1>7, <1>8, <1>9, <1>10 DEF LayerInv

\* A build that fails shows the entry that it was to replace, or nothing.
LEMMA Fails ==
    ASSUME LayerInv, NEW t \in Threads, BuildFails(t)
    PROVE  LayerInv'
<1>1. At(t, "build") /\ keyLock' = Nobody /\ UNCHANGED <<source, entry, newest>>
  BY DEF BuildFails
<1>2. Go(t, "shown", frame[t])
  BY DEF BuildFails
<1>3. Moved(t, "shown", frame[t]) /\ IsRead(frame[t])
  BY <1>1, <1>2, PageMoves DEF Go, LayerInv, PagesTyped, At
<1>4. \A u \in Threads : Building(u) => u = t
  BY <1>1 DEF LayerInv, BuildsTakeTurns, Building
<1>5. PagesTyped'
  BY <1>1, <1>2, <1>3, <1>4 DEF LayerInv, PagesTyped, Moved, Pool, At, IsRead
<1>6. BuildsTakeTurns'
  BY <1>1, <1>2, <1>3, <1>4 DEF LayerInv, BuildsTakeTurns, Building, Moved, Pool, At
<1>7. EditionsBounded'
  BY <1>1, <1>2, <1>3, <1>4 DEF LayerInv, PagesTyped, EditionsBounded, Moved, Pool, At, IsRead
<1>8. EditionsOrdered'
  BY <1>1, <1>2, <1>3, <1>4 DEF LayerInv, PagesTyped, BuildsTakeTurns, Building, EditionsBounded, EditionsOrdered, FallbackOrdered, NoNewerThan, Moved, Pool, At, IsRead
<1>9. PagesGoForward'
  BY <1>1, <1>2, <1>3, <1>4 DEF LayerInv, PagesTyped, EditionsBounded, EditionsOrdered, FallbackOrdered, NoNewerThan, PagesGoForward, Moved, Pool, At, IsRead
<1>10. FallbackOrdered'
  BY <1>1, <1>2, <1>3, <1>4 DEF LayerInv, PagesTyped, BuildsTakeTurns, Building, EditionsBounded, EditionsOrdered, FallbackOrdered, NoNewerThan, Moved, Pool, At, IsRead
<1> QED
  BY <1>5, <1>6, <1>7, <1>8, <1>9, <1>10 DEF LayerInv

\* A request that ends leaves its edition in the history.
LEMMA ShowsEnd ==
    ASSUME LayerInv, NEW t \in Threads, ShowPage(t)
    PROVE  LayerInv'
<1>1. Moved(t, "idle", NoFrame)
  BY PageMoves DEF ShowPage, Done, Go, LayerInv
<1>2. At(t, "shown") /\ IsRead(frame[t]) /\ UNCHANGED <<source, entry, keyLock>>
  BY DEF ShowPage, LayerInv, PagesTyped, At
<1>3. newest' = IF frame[t].edition > newest THEN frame[t].edition ELSE newest
  BY DEF ShowPage
<1>5. PagesTyped'
  BY <1>1, <1>2, <1>3 DEF LayerInv, PagesTyped, Moved, Pool, At, IsRead
<1>6. BuildsTakeTurns'
  BY <1>1, <1>2, <1>3 DEF LayerInv, BuildsTakeTurns, Building, Moved, Pool, At
<1>7. EditionsBounded'
  BY <1>1, <1>2, <1>3 DEF LayerInv, PagesTyped, EditionsBounded, Moved, Pool, At, IsRead
<1>8. EditionsOrdered'
  BY <1>1, <1>2, <1>3 DEF LayerInv, PagesTyped, BuildsTakeTurns, Building, EditionsBounded, EditionsOrdered, NoNewerThan, Moved, Pool, At, IsRead
<1>9. PagesGoForward'
  BY <1>1, <1>2, <1>3 DEF LayerInv, PagesTyped, EditionsBounded, EditionsOrdered, NoNewerThan, PagesGoForward, Moved, Pool, At, IsRead
<1>10. FallbackOrdered'
  BY <1>1, <1>2, <1>3 DEF LayerInv, PagesTyped, BuildsTakeTurns, Building, EditionsBounded, EditionsOrdered, FallbackOrdered, NoNewerThan, Moved, Pool, At, IsRead
<1> QED
  BY <1>5, <1>6, <1>7, <1>8, <1>9, <1>10 DEF LayerInv

LEMMA LayerSteps == LayerInv /\ [LayerNext]_layerAll => LayerInv'
<1> SUFFICES ASSUME LayerInv, [LayerNext]_layerAll PROVE LayerInv'
  OBVIOUS
<1>1. CASE UNCHANGED layerAll \/ (Tick /\ UNCHANGED <<pool, layerVars>>)
  BY <1>1 DEF layerAll, pool, layerVars, IsRead, LayerInv, PagesTyped, BuildsTakeTurns, EditionsBounded, EditionsOrdered,
              FallbackOrdered, NoNewerThan, PagesGoForward, Building, At
<1>2. CASE MoveOn
  BY <1>2 DEF MoveOn, pool, IsRead, LayerInv, PagesTyped, BuildsTakeTurns, EditionsBounded, EditionsOrdered,
              FallbackOrdered, NoNewerThan, PagesGoForward, Building, At
<1>3. ASSUME NEW t \in Threads, StartPage(t) PROVE LayerInv'
  <2>1. PICK force \in BOOLEAN, e \in {entry, NoEntry} :
          /\ entry' = e
          /\ IF Fresh(e) THEN Begin(t, "shown", [Read(force) EXCEPT !.edition = e.edition])
             ELSE Begin(t, "wait", Read(force))
          /\ UNCHANGED <<clock, source, keyLock, newest>>
    BY <1>3, LiveIsEntry DEF StartPage
  <2>2. ~Building(t) /\ newest \in Nat /\ entry.edition \in Nat
    BY <2>1 DEF Begin, At, Building, LayerInv, PagesTyped
  <2>3. CASE Fresh(e)
    <3> DEFINE f == [Read(force) EXCEPT !.edition = e.edition]
    <3>1. e = entry /\ entry # NoEntry
      BY <2>1, <2>3, FreshIsThere
    <3>2. f = [op |-> "page", force |-> force, since |-> newest, edition |-> entry.edition]
      BY <3>1 DEF Read
    <3>3. pc' = [pc EXCEPT ![t] = "shown"] /\ frame' = [frame EXCEPT ![t] = f]
      BY <2>1, <2>3 DEF Begin
    <3> HIDE DEF f
    <3>4. IsRead(f) /\ f.since <= newest /\ f.edition = entry.edition
      BY <2>2, <3>2 DEF IsRead
    <3> QED
      BY <2>1, <2>2, <3>1, <3>3, <3>4, ShowsEntry
  <2>4. CASE ~Fresh(e)
    <3> DEFINE f == Read(force)
    <3>1. pc' = [pc EXCEPT ![t] = "wait"] /\ frame' = [frame EXCEPT ![t] = f]
      BY <2>1, <2>4 DEF Begin
    <3>2. IsRead(f) /\ f.since <= newest /\ f.edition = 0
      BY <2>2 DEF Read, IsRead
    <3> HIDE DEF f
    <3> QED
      BY <2>1, <2>2, <3>1, <3>2, Waits
  <2> QED
    BY <2>3, <2>4
<1>4. ASSUME NEW t \in Threads, LockKey(t) PROVE LayerInv'
  <2>1. /\ At(t, "wait") /\ keyLock = Nobody /\ entry' \in {entry, NoEntry}
        /\ UNCHANGED <<source, newest>> /\ ~At(t, "idle") /\ ~Building(t)
    BY <1>4, LiveIsEntry DEF LockKey, At, Building
  <2>2. CASE Fresh(Live)
    <3>1. Return(t, entry.edition) /\ entry' = entry /\ entry # NoEntry /\ UNCHANGED keyLock
      BY <1>4, <2>2, FreshIsThere, LiveIsEntry DEF LockKey
    <3>2. IsRead(frame[t]) /\ frame[t].since <= newest /\ entry.edition \in Nat
      BY <2>1 DEF LayerInv, PagesTyped, EditionsBounded
    <3> DEFINE f == [frame[t] EXCEPT !.edition = entry.edition]
    <3>3. IsRead(f) /\ f.since <= newest /\ f.edition = entry.edition
      BY <3>2 DEF IsRead
    <3>4. pc' = [pc EXCEPT ![t] = "shown"] /\ frame' = [frame EXCEPT ![t] = f]
      BY <3>1 DEF Return, Go
    <3> HIDE DEF f
    <3> QED
      BY <2>1, <3>1, <3>3, <3>4, ShowsEntry
  <2>3. CASE ~Fresh(Live)
    <3>1. PICK e : /\ Go(t, "build", [frame[t] EXCEPT !.edition = e]) /\ keyLock' = t
                   /\ e = IF Displayable(Live) THEN Live.edition ELSE 0
      BY <1>4, <2>3 DEF LockKey
    <3>2. e = 0 \/ (entry # NoEntry /\ e = entry.edition)
      BY <3>1, LiveIsEntry, DisplayableIsThere
    <3>3. IsRead(frame[t]) /\ frame[t].since <= newest /\ e \in Nat
      BY <2>1, <3>2 DEF LayerInv, PagesTyped, EditionsBounded
    <3> DEFINE f == [frame[t] EXCEPT !.edition = e]
    <3>4. IsRead(f) /\ f.since <= newest /\ f.edition = e
      BY <3>3 DEF IsRead
    <3>5. pc' = [pc EXCEPT ![t] = "build"] /\ frame' = [frame EXCEPT ![t] = f]
      BY <3>1 DEF Go
    <3> HIDE DEF f
    <3> QED
      BY <2>1, <3>1, <3>2, <3>4, <3>5, TakesLock
  <2> QED
    BY <2>2, <2>3
<1> QED
  BY <1>1, <1>2, <1>3, <1>4, Builds, Stores, Fails, ShowsEnd DEF LayerNext

\* What a request shows is at least as new as what any request had shown when it
\* began: cache_layer's per-key lock, with the second look at the entry inside it,
\* is enough for any number of readers, forced reads, expiries and failed builds.
THEOREM PagesNeverGoBack == LayerSpec => []PagesGoForward
<1>1. PoolInit /\ LayerInit => LayerInv
  BY LayerBegins
<1>2. LayerInv /\ [LayerNext]_layerAll => LayerInv'
  BY LayerSteps
<1>3. LayerInv => PagesGoForward
  BY DEF LayerInv
<1> QED
  BY <1>1, <1>2, <1>3, PTL DEF LayerSpec

-----------------------------------------------------------------------------
(* The inductive invariant.  A manifest is written from the locals of a     *)
(* publish: of the objects behind it, each has a name that was stored, or   *)
(* is the previous manifest's, or is kept for want of one; of the objects   *)
(* before it, each has the name of what is to be uploaded.                  *)

\* A name that a manifest may give object k.
Known(k, c) == c \in ever[k] \/ <<k, c>> \in unsent

KnownManifest(m) == m # NoManifest => \A k \in DOMAIN Keys : Known(k, m[k])

IsPublish(f) ==
    /\ f = [op |-> f.op, content |-> f.content, names |-> f.names, previous |-> f.previous,
            key |-> f.key, kept |-> f.kept]
    /\ f.names = [k \in DOMAIN Keys |-> f.names[k]]
    /\ f.key \in Nat \ {0}
    /\ \A k \in DOMAIN Keys : f.content[k] # Missing

\* The locals of a publish.
Named(f) ==
    /\ IsPublish(f)
    /\ KnownManifest(f.previous)
    /\ \A k \in DOMAIN Keys :
         /\ k < f.key => Known(k, f.names[k]) \/ <<k, f.names[k]>> \in f.kept
         /\ k >= f.key => f.names[k] = f.content[k]

Storage ==
    /\ sections \in [DOMAIN Keys -> Empty..MaxContents]
    /\ objects = [k \in DOMAIN Keys |-> objects[k]]
    /\ ever = [k \in DOMAIN Keys |-> ever[k]]

Publishing ==
    /\ pc = [t \in Threads |-> pc[t]]
    /\ frame = [t \in Threads |-> frame[t]]
    /\ \A t \in Threads : At(t, "manifest") \/ At(t, "upload") => Named(frame[t])

CdnInv == Storage /\ Publishing /\ KnownManifest(remote)

-----------------------------------------------------------------------------

LEMMA CdnBegins == PoolInit /\ CdnInit => CdnInv
BY KeysAssumption DEF PoolInit, CdnInit, CdnInv, Storage, Publishing, KnownManifest, At, Empty

\* The same of the next state.
KnownNext(k, c) == c \in ever'[k] \/ <<k, c>> \in unsent'
KnownManifestNext(m) == m # NoManifest => \A k \in DOMAIN Keys : KnownNext(k, m[k])
NamedNext(f) ==
    /\ IsPublish(f)
    /\ KnownManifestNext(f.previous)
    /\ \A k \in DOMAIN Keys :
         /\ k < f.key => KnownNext(k, f.names[k]) \/ <<k, f.names[k]>> \in f.kept
         /\ k >= f.key => f.names[k] = f.content[k]

\* What is known stays known.
Grows ==
    /\ \A k \in DOMAIN Keys : ever[k] \subseteq ever'[k]
    /\ unsent \subseteq unsent'

\* What a manifest may name, it may name later on.
LEMMA NamedStays == ASSUME Grows, NEW f, Named(f) PROVE NamedNext(f)
BY DEF Grows, Named, NamedNext, Known, KnownNext, KnownManifest, KnownManifestNext

\* So a manifest that was in order stays so.
LEMMA ManifestStays == ASSUME Grows, NEW m, KnownManifest(m) PROVE KnownManifestNext(m)
BY DEF Grows, Known, KnownNext, KnownManifest, KnownManifestNext

\* One thread goes to l with locals f, that name what is known; the others stay.
LEMMA CdnMoves ==
    ASSUME CdnInv, Grows, NEW t \in Threads, NEW l, NEW f,
           pc' = [pc EXCEPT ![t] = l], frame' = [frame EXCEPT ![t] = f],
           l \in {"manifest", "upload"} => NamedNext(f)
    PROVE  Publishing'
<1>1. /\ pc' = [u \in Threads |-> pc'[u]] /\ frame' = [u \in Threads |-> frame'[u]]
      /\ pc'[t] = l /\ frame'[t] = f
      /\ \A u \in Threads : u # t => pc'[u] = pc[u] /\ frame'[u] = frame[u]
  BY DEF CdnInv, Publishing
<1>2. ASSUME NEW u \in Threads, (At(u, "manifest") \/ At(u, "upload"))'
      PROVE  NamedNext(frame'[u])
  <2>1. CASE u = t
    BY <1>1, <1>2, <2>1 DEF At
  <2>2. CASE u # t
    <3>1. Named(frame[u]) /\ frame'[u] = frame[u]
      BY <1>1, <1>2, <2>2 DEF CdnInv, Publishing, At
    <3> QED
      BY <3>1, NamedStays
  <2> QED
    BY <2>1, <2>2
<1>3. ASSUME NEW u \in Threads, (At(u, "manifest") \/ At(u, "upload"))'
      PROVE  Named(frame[u])'
  BY <1>2, <1>3 DEF Named, NamedNext, Known, KnownNext, KnownManifest, KnownManifestNext, IsPublish
<1> QED
  BY <1>1, <1>3 DEF Publishing

\* A step that leaves the storage alone.
LEMMA NothingStored ==
    ASSUME CdnInv, UNCHANGED <<ever, unsent>>
    PROVE  Grows
BY DEF Grows

\* And the one in object storage does.
LEMMA RemoteStays ==
    ASSUME CdnInv, Grows, UNCHANGED remote
    PROVE  KnownManifest(remote)'
BY DEF Grows, CdnInv, Known, KnownManifest

\* PreviousName gives the object a name that is known, or keeps its own.
LEMMA PreviousNameNamed ==
    ASSUME NEW f, NamedNext(f), f.key \in DOMAIN Keys
    PROVE  NamedNext(PreviousName(f))
<1>1. f.key \in Nat \ {0} /\ DOMAIN Keys \subseteq Nat
  BY KeysAssumption DEF NamedNext, IsPublish
<1>2. CASE f.previous = NoManifest
  <2> DEFINE g == PreviousName(f)
  <2>1. g = [op |-> f.op, content |-> f.content, names |-> f.names, previous |-> f.previous,
             key |-> f.key + 1, kept |-> f.kept \cup {<<f.key, f.names[f.key]>>}]
    <3> DEFINE h == [f EXCEPT !.key = f.key + 1]
    <3>1. h = [op |-> f.op, content |-> f.content, names |-> f.names, previous |-> f.previous,
               key |-> f.key + 1, kept |-> f.kept]
      BY DEF NamedNext, IsPublish
    <3>2. g = [h EXCEPT !.kept = h.kept \cup {<<f.key, f.names[f.key]>>}]
      BY <1>2, <3>1, Zenon DEF PreviousName
    <3> HIDE DEF g, h
    <3> QED
      BY <3>1, <3>2
  <2> HIDE DEF g
  <2>2. IsPublish(g)
    BY <1>1, <2>1 DEF NamedNext, IsPublish
  <2>3. NamedNext(g)
    BY <1>1, <2>1, <2>2 DEF NamedNext
  <2> QED
    BY <2>3 DEF g
<1>3. CASE f.previous # NoManifest
  <2> DEFINE g == PreviousName(f)
  <2> DEFINE names == [f.names EXCEPT ![f.key] = f.previous[f.key]]
  <2>1. g = [op |-> f.op, content |-> f.content, names |-> names, previous |-> f.previous,
             key |-> f.key + 1, kept |-> f.kept]
    <3> DEFINE h == [f EXCEPT !.key = f.key + 1]
    <3> HIDE DEF names
    <3>1. h = [op |-> f.op, content |-> f.content, names |-> f.names, previous |-> f.previous,
               key |-> f.key + 1, kept |-> f.kept]
      BY DEF NamedNext, IsPublish
    <3>2. g = [h EXCEPT !.names = names]
      BY <1>3, <3>1, Zenon DEF PreviousName, names
    <3> HIDE DEF g, h
    <3> QED
      BY <3>1, <3>2
  <2>2. /\ names = [k \in DOMAIN Keys |-> names[k]]
        /\ names[f.key] = f.previous[f.key]
        /\ \A k \in DOMAIN Keys : k # f.key => names[k] = f.names[k]
    BY DEF NamedNext, IsPublish
  <2>3. KnownNext(f.key, f.previous[f.key])
    BY <1>3 DEF NamedNext, KnownManifestNext
  <2> HIDE DEF g, names
  <2>4. IsPublish(g)
    BY <1>1, <2>1, <2>2 DEF NamedNext, IsPublish
  <2>5. NamedNext(g)
    BY <1>1, <2>1, <2>2, <2>3, <2>4 DEF NamedNext
  <2> QED
    BY <2>5 DEF g
<1> QED
  BY <1>2, <1>3

\* The next object, when the name of this one is known.
LEMMA NextNamed ==
    ASSUME NEW f, NamedNext(f), f.key \in DOMAIN Keys, KnownNext(f.key, f.content[f.key])
    PROVE  NamedNext([f EXCEPT !.key = f.key + 1])
<1>1. f.key \in Nat \ {0} /\ DOMAIN Keys \subseteq Nat
  BY KeysAssumption DEF NamedNext, IsPublish
<1> DEFINE g == [f EXCEPT !.key = f.key + 1]
<1>2. g = [op |-> f.op, content |-> f.content, names |-> f.names, previous |-> f.previous,
           key |-> f.key + 1, kept |-> f.kept]
  BY DEF NamedNext, IsPublish
<1> HIDE DEF g
<1>3. IsPublish(g)
  BY <1>1, <1>2 DEF NamedNext, IsPublish
<1>4. f.names[f.key] = f.content[f.key]
  <2>1. f.key >= f.key
    BY <1>1
  <2> QED
    BY <2>1 DEF NamedNext
<1>5. NamedNext(g)
  BY <1>1, <1>2, <1>3, <1>4 DEF NamedNext
<1> QED
  BY <1>5 DEF g

-----------------------------------------------------------------------------

LEMMA StartPublishInv ==
    ASSUME CdnInv, NEW t \in Threads, StartPublish(t)
    PROVE  CdnInv'
<1> DEFINE f == [op |-> "publish", content |-> sections, names |-> sections,
                 previous |-> NoManifest, key |-> 1, kept |-> {}]
<1>1. Grows /\ Storage' /\ KnownManifest(remote)'
  BY DEF StartPublish, cdnVars, Grows, CdnInv, Storage, KnownManifest, Known
<1>2. Missing \notin Empty..MaxContents
  BY KeysAssumption DEF Missing, Empty
<1>3. NamedNext(f)
  BY <1>2, KeysAssumption DEF NamedNext, IsPublish, KnownManifestNext, CdnInv, Storage
<1>4. Publishing'
  BY <1>1, <1>3, CdnMoves DEF StartPublish, Begin
<1> QED
  BY <1>1, <1>4 DEF CdnInv

LEMMA ReadManifestInv ==
    ASSUME CdnInv, NEW t \in Threads, ReadManifest(t)
    PROVE  CdnInv'
<1>1. Grows /\ Storage' /\ KnownManifest(remote)'
  BY DEF ReadManifest, cdnVars, Grows, CdnInv, Storage, KnownManifest, Known
<1>2. PICK m \in {remote, NoManifest} : Go(t, "upload", [frame[t] EXCEPT !.previous = m])
  BY DEF ReadManifest
<1> DEFINE f == frame[t]
           g == [f EXCEPT !.previous = m]
<1>3. NamedNext(f) /\ KnownManifestNext(m)
  BY <1>1, NamedStays, ManifestStays DEF ReadManifest, CdnInv, Publishing, KnownManifestNext
<1>4. g = [op |-> f.op, content |-> f.content, names |-> f.names, previous |-> m,
           key |-> f.key, kept |-> f.kept]
  BY <1>3 DEF NamedNext, IsPublish
<1>5. pc' = [pc EXCEPT ![t] = "upload"] /\ frame' = [frame EXCEPT ![t] = g]
  BY <1>2 DEF Go
<1> HIDE DEF f, g
<1>6. NamedNext(g)
  BY <1>3, <1>4 DEF NamedNext, IsPublish
<1>7. Publishing'
  BY <1>1, <1>5, <1>6, CdnMoves
<1> QED
  BY <1>1, <1>7 DEF CdnInv

LEMMA UploadInv ==
    ASSUME CdnInv, NEW t \in Threads, Upload(t)
    PROVE  CdnInv'
<1> DEFINE f == frame[t]
           next == [f EXCEPT !.key = f.key + 1]
<1>1. At(t, "upload") /\ Named(f)
  BY DEF Upload, CdnInv, Publishing
<1>2. f.key \in DOMAIN Keys
  BY <1>1, KeysAssumption DEF Upload, Named, IsPublish
<1>3. UNCHANGED <<sections, remote, unsent>>
  BY DEF Upload
<1>4. UNCHANGED <<objects, ever>> \/ Put(f.key, f.content[f.key])
  BY DEF Upload
<1>5. Grows /\ Storage'
  BY <1>2, <1>3, <1>4 DEF Put, Grows, CdnInv, Storage
<1>6. NamedNext(f)
  BY <1>1, <1>5, NamedStays
<1>7. \/ Go(t, "upload", PreviousName(f))
      \/ Unchanged(f) /\ Go(t, "upload", next)
      \/ Put(f.key, f.content[f.key]) /\ objects'[f.key] = f.content[f.key] /\ Go(t, "upload", next)
  BY DEF Upload
<1>8. ASSUME KnownNext(f.key, f.content[f.key]), Go(t, "upload", next) PROVE Publishing'
  <2>1. NamedNext(next)
    BY <1>2, <1>6, <1>8, NextNamed
  <2> HIDE DEF f, next
  <2> QED
    BY <1>5, <1>8, <2>1, CdnMoves DEF Go
<1> HIDE DEF f, next
<1>9. ASSUME Go(t, "upload", PreviousName(f)) PROVE Publishing'
  <2>1. NamedNext(PreviousName(f))
    BY <1>2, <1>6, PreviousNameNamed
  <2> QED
    BY <1>5, <1>9, <2>1, CdnMoves DEF Go
<1>10. ASSUME Unchanged(f) /\ Go(t, "upload", next) PROVE Publishing'
  <2>1. KnownNext(f.key, f.content[f.key])
    BY <1>2, <1>6, <1>10 DEF Unchanged, NamedNext, KnownManifestNext
  <2> QED
    BY <1>8, <1>10, <2>1
<1>11. ASSUME /\ Put(f.key, f.content[f.key]) /\ objects'[f.key] = f.content[f.key]
              /\ Go(t, "upload", next)
       PROVE  Publishing'
  <2>1. f.content[f.key] # Missing
    BY <1>1, <1>2 DEF Named, IsPublish
  <2>2. f.content[f.key] \in ever'[f.key]
    BY <1>2, <1>11, <2>1 DEF Put, CdnInv, Storage
  <2> QED
    BY <1>8, <1>11, <2>2 DEF KnownNext
<1>12. Publishing'
  BY <1>7, <1>9, <1>10, <1>11
<1> QED
  BY <1>3, <1>5, <1>12, RemoteStays DEF CdnInv

LEMMA PutManifestInv ==
    ASSUME CdnInv, NEW t \in Threads, PutManifest(t)
    PROVE  CdnInv'
<1>1. Grows /\ Storage'
  BY DEF PutManifest, Grows, CdnInv, Storage
<1>2. Publishing'
  BY <1>1, CdnMoves DEF PutManifest, Done, Go
<1>3. CASE UNCHANGED <<remote, unsent>>
  BY <1>1, <1>2, <1>3, RemoteStays DEF CdnInv
<1>4. CASE remote' = frame[t].names /\ unsent' = unsent \cup frame[t].kept
  <2> DEFINE f == frame[t]
  <2>1. NamedNext(f) /\ f.key > Len(Keys)
    BY <1>1, NamedStays DEF PutManifest, CdnInv, Publishing
  <2>2. \A k \in DOMAIN Keys : k < f.key
    BY <2>1, KeysAssumption DEF NamedNext, IsPublish
  <2>3. \A k \in DOMAIN Keys : KnownNext(k, f.names[k])
    BY <1>4, <2>1, <2>2 DEF NamedNext, KnownNext
  <2>4. KnownManifest(remote)'
    BY <1>4, <2>3 DEF KnownManifest, Known, KnownNext
  <2> QED
    BY <1>1, <1>2, <2>4 DEF CdnInv
<1> QED
  BY <1>3, <1>4 DEF PutManifest

LEMMA CdnSteps == CdnInv /\ [CdnNext]_cdnAll => CdnInv'
<1> SUFFICES ASSUME CdnInv, [CdnNext]_cdnAll PROVE CdnInv'
  OBVIOUS
<1>1. CASE UNCHANGED cdnAll
  BY <1>1 DEF cdnAll, cdnVars, pool, CdnInv, Storage, Publishing, KnownManifest, Known, Named, IsPublish, At
<1>2. CASE Refresh
  <2>1. Storage'
    BY <1>2, KeysAssumption DEF Refresh, CdnInv, Storage, Empty
  <2>2. Publishing' /\ KnownManifest(remote)'
    BY <1>2 DEF Refresh, pool, CdnInv, Publishing, KnownManifest, Known, Named, IsPublish, At
  <2> QED
    BY <2>1, <2>2 DEF CdnInv
<1>3. CASE CdnRestart
  <2>1. Storage' /\ Grows
    BY <1>3 DEF CdnRestart, CdnInv, Storage, Grows
  <2>2. Publishing'
    BY <1>3 DEF CdnRestart, Publishing, At
  <2> QED
    BY <1>3, <2>1, <2>2, RemoteStays DEF CdnInv, CdnRestart
<1> QED
  BY <1>1, <1>2, <1>3, StartPublishInv, ReadManifestInv, UploadInv, PutManifestInv DEF CdnNext

\* publisher.py puts the manifest last, and gives an object that was not uploaded
\* its previous name: so whatever fails and wherever a publish is cut off, apps are
\* sent only for contents that have been stored, unless there was no manifest to
\* take the previous name from.
THEOREM ManifestNamesWhatWasStored == CdnSpec => []NamedWasStored
<1>1. PoolInit /\ CdnInit => CdnInv
  BY CdnBegins
<1>2. CdnInv /\ [CdnNext]_cdnAll => CdnInv'
  BY CdnSteps
<1>3. CdnInv => NamedWasStored
  BY DEF CdnInv, KnownManifest, Known, NamedWasStored
<1> QED
  BY <1>1, <1>2, <1>3, PTL DEF CdnSpec

-----------------------------------------------------------------------------
(* The pages, served by one process.  A behaviour's requests are for one of  *)
(* the services; those of the others say nothing of it, since no two of them *)
(* have a label in common.                                                   *)

\* Threads go to the labels L, or stay.
Reaches(L) == Pool' /\ \A t \in Threads : pc'[t] = pc[t] \/ pc'[t] \in L

\* Where one thread goes to a place of a part, every thread is where it was or in that part.
LEMMA Goes ==
    ASSUME Pool, NEW t \in Threads, NEW L, NEW l \in L, NEW f, Begin(t, l, f) \/ Go(t, l, f)
    PROVE  Reaches(L)
BY Moves DEF Moved, Reaches

\* So it is where none moves.
LEMMA PoolReaches ==
    ASSUME Pool, NEW L, UNCHANGED pool
    PROVE  Reaches(L)
BY DEF Reaches, Pool, pool

ScreenLabels == {"idle", "live", "serve", "probe", "memo", "lock", "run", "save", "answer", "warm"}

LEMMA ScreenReaches ==
    ASSUME ScreenInv, ScreenNext
    PROVE  Reaches(ScreenLabels)
<1>1. Pool
  BY DEF ScreenInv, Screeners
<1>2. CASE UNCHANGED pool
  BY <1>1, <1>2, PoolReaches
<1>3. CASE ScreenRestart
  BY <1>3 DEF ScreenRestart, Reaches, Pool, ScreenLabels
<1>4. ASSUME NEW t \in Threads, NEW l \in ScreenLabels, NEW f, Begin(t, l, f) \/ Go(t, l, f)
      PROVE  Reaches(ScreenLabels)
  BY <1>1, <1>4, Goes
<1>5. Today \in Int
  BY Dates DEF ScreenInv, ClockOk, Today
<1>6. ASSUME NEW t \in Threads, StartScreen(t) PROVE Reaches(ScreenLabels)
  <2>1. PICK force \in BOOLEAN : \E f : f = Request("screen", force, Today, FALSE) /\ \E g : Begin(t, Arrival(f), g)
    BY <1>6 DEF StartScreen, Ask
  <2>2. PICK f, g : f = Request("screen", force, Today, FALSE) /\ Begin(t, Arrival(f), g)
    BY <2>1
  <2>3. f.force \in BOOLEAN
    BY <1>5, <2>2, RequestIs
  <2>4. Arrival(f) \in ScreenLabels
    BY <2>3, ArrivalIs DEF ScreenLabels
  <2> QED
    BY <1>4, <2>2, <2>4
<1>7. ASSUME NEW t \in Threads, Warm(t) PROVE Reaches(ScreenLabels)
  <2>1. PICK f : f = Request("warm", TRUE, Today, FALSE) /\ Go(t, Arrival(f), f)
    BY <1>7 DEF Warm, Prewarm
  <2>2. f.force \in BOOLEAN
    BY <1>5, <2>1, RequestIs
  <2>3. Arrival(f) \in ScreenLabels
    BY <2>2, ArrivalIs DEF ScreenLabels
  <2> QED
    BY <1>4, <2>1, <2>3
<1>8. ASSUME NEW t \in Threads, NEW f, Judge(t, f) PROVE Reaches(ScreenLabels)
  <2>1. \E l \in {"answer", "run", "lock"} : \E g : Go(t, l, g)
    BY <1>8 DEF Judge
  <2> QED
    BY <1>4, <2>1 DEF ScreenLabels
<1>9. ASSUME NEW t \in Threads, ProbeMemo(t) \/ KeepProbe(t) PROVE Reaches(ScreenLabels)
  BY <1>8, <1>9 DEF ProbeMemo, KeepProbe
<1>10. ASSUME NEW t \in Threads, LockRun(t) PROVE Reaches(ScreenLabels)
  <2>1. \E l \in {"run", "probe"} : \E g : Go(t, l, g)
    BY <1>10 DEF LockRun
  <2> QED
    BY <1>4, <2>1 DEF ScreenLabels
<1>11. ASSUME NEW t \in Threads, ServeOpen(t) \/ Answer(t) \/ RunEngine(t) \/ SaveRow(t) \/ ProbeIndex(t) \/ StartWarm(t)
       PROVE  Reaches(ScreenLabels)
  <2>1. \E l \in {"idle", "save", "memo", "warm"} : \E g : Begin(t, l, g) \/ Go(t, l, g)
    BY <1>11 DEF ServeOpen, Answer, RunEngine, SaveRow, ProbeIndex, StartWarm, Done, Step, Ask
  <2> QED
    BY <1>4, <2>1 DEF ScreenLabels
<1> QED
  BY <1>2, <1>3, <1>6, <1>7, <1>9, <1>10, <1>11 DEF ScreenNext, Fetch

LayerLabels == {"idle", "wait", "build", "store", "shown"}

LEMMA LayerReaches ==
    ASSUME Pool, LayerNext
    PROVE  Reaches(LayerLabels)
<1>1. CASE UNCHANGED pool
  BY <1>1, PoolReaches
<1>2. ASSUME NEW t \in Threads,
             StartPage(t) \/ LockKey(t) \/ BuildPage(t) \/ StorePage(t) \/ BuildFails(t) \/ ShowPage(t)
      PROVE  Reaches(LayerLabels)
  <2>1. \E l \in LayerLabels : \E f : Begin(t, l, f) \/ Go(t, l, f)
    <3>1. CASE StartPage(t)
      <4>1. \E l \in {"shown", "wait"} : \E f : Begin(t, l, f)
        BY <3>1 DEF StartPage
      <4> QED
        BY <4>1 DEF LayerLabels
    <3>2. CASE LockKey(t)
      <4>1. \E l \in {"shown", "build"} : \E f : Go(t, l, f)
        BY <3>2 DEF LockKey, Return
      <4> QED
        BY <4>1 DEF LayerLabels
    <3>3. CASE BuildPage(t) \/ StorePage(t) \/ BuildFails(t) \/ ShowPage(t)
      <4>1. \E l \in {"store", "shown", "idle"} : \E f : Go(t, l, f)
        BY <3>3 DEF BuildPage, StorePage, BuildFails, ShowPage, Return, Done
      <4> QED
        BY <4>1 DEF LayerLabels
    <3> QED
      BY <1>2, <3>1, <3>2, <3>3
  <2> QED
    BY <2>1, Goes
<1> QED
  BY <1>1, <1>2 DEF LayerNext, MoveOn

ReadingsLabels == {"idle", "fetch", "settle", "keep", "served"}

LEMMA ReadingsReaches ==
    ASSUME Pool, ReadingsNext
    PROVE  Reaches(ReadingsLabels)
<1>1. CASE UNCHANGED pool
  BY <1>1, PoolReaches
<1>2. CASE ReadingsRestart
  BY <1>2 DEF ReadingsRestart, Reaches, Pool, ReadingsLabels
<1>3. ASSUME NEW t \in Threads, NEW l \in {"idle", "fetch", "settle", "keep", "served"}, NEW f, Begin(t, l, f) \/ Go(t, l, f)
      PROVE  Reaches(ReadingsLabels)
  BY <1>3, Goes DEF ReadingsLabels
<1>4. ASSUME NEW t \in Threads, NEW f, Fetching(t, f) PROVE Reaches(ReadingsLabels)
  BY <1>3, <1>4 DEF Fetching
<1>5. ASSUME NEW t \in Threads, Served(t) PROVE Reaches(ReadingsLabels)
  BY <1>3, <1>5 DEF Served
<1>6. ASSUME NEW t \in Threads, NEW good, Give(t, good) PROVE Reaches(ReadingsLabels)
  BY <1>3, <1>6 DEF Give
<1>7. ASSUME NEW t \in Threads,
             LookNews(t) \/ LookIndex(t) \/ LookCondition(t) \/ LookOverview(t) \/ LookScore(t) \/ LookSection(t)
      PROVE  Reaches(ReadingsLabels)
  <2>1. Served(t) \/ \E f : Begin(t, "fetch", f)
    BY <1>7 DEF LookNews, LookIndex, LookCondition, LookOverview, LookScore, LookSection, Fetching
  <2> QED
    BY <1>3, <1>5, <2>1
<1>8. ASSUME NEW t \in Threads, Fetched(t) \/ Serve(t) \/ SettleCondition(t) PROVE Reaches(ReadingsLabels)
  <2>1. \E l \in {"idle", "settle", "keep"} : \E f : Go(t, l, f)
    BY <1>8 DEF Fetched, Serve, SettleCondition, Done
  <2> QED
    BY <1>3, <2>1
<1>9. ASSUME NEW t \in Threads,
             SettleNews(t) \/ SettleIndex(t) \/ KeepCondition(t) \/ SettleAnything(t) \/ SettleSection(t)
      PROVE  Reaches(ReadingsLabels)
  <2>1. \E good : Give(t, good)
    BY <1>9 DEF SettleNews, SettleIndex, KeepCondition, SettleAnything, SettleSection
  <2> QED
    BY <1>6, <2>1
<1> QED
  BY <1>1, <1>2, <1>7, <1>8, <1>9 DEF ReadingsNext

CdnLabels == {"idle", "manifest", "upload"}

LEMMA CdnReaches ==
    ASSUME Pool, CdnNext
    PROVE  Reaches(CdnLabels)
<1>1. CASE Refresh
  BY <1>1, PoolReaches DEF Refresh
<1>2. CASE CdnRestart
  BY <1>2 DEF CdnRestart, Reaches, Pool, CdnLabels
<1>3. ASSUME NEW t \in Threads, StartPublish(t) \/ ReadManifest(t) \/ Upload(t) \/ PutManifest(t)
      PROVE  Reaches(CdnLabels)
  <2>1. \E l \in {"idle", "manifest", "upload"} : \E f : Begin(t, l, f) \/ Go(t, l, f)
    BY <1>3 DEF StartPublish, ReadManifest, Upload, PutManifest, Done
  <2> QED
    BY <2>1, Goes DEF CdnLabels
<1> QED
  BY <1>1, <1>2, <1>3 DEF CdnNext

EngineLabels == {"idle", "load", "index", "score", "build", "told"}

LEMMA EngineReaches ==
    ASSUME Pool, EngineNext
    PROVE  Reaches(EngineLabels)
<1>1. CASE StartRun
  BY <1>1 DEF StartRun, Reaches, Pool
<1>2. ASSUME NEW t \in Threads, Score(t) PROVE Reaches(EngineLabels)
  BY <1>2 DEF Score, Scored, Reaches, Pool, EngineLabels
<1>3. ASSUME NEW t \in Threads,
             TakeStock(t) \/ StartOne(t) \/ Load(t) \/ LoadFails(t) \/ ReadIndex(t) \/ BuildRow(t) \/ BuildOne(t)
               \/ Analyze(t) \/ Tell(t)
      PROVE  Reaches(EngineLabels)
  <2>1. \E l \in {"idle", "load", "index", "score", "told"} : \E f : Begin(t, l, f) \/ Go(t, l, f)
    BY <1>3 DEF TakeStock, StartOne, Load, LoadFails, ReadIndex, BuildRow, BuildOne, Analyze, Tell, Done
  <2> QED
    BY <2>1, Goes DEF EngineLabels
<1> QED
  BY <1>1, <1>2, <1>3 DEF EngineNext

AdviceLabels == {"idle", "health", "decide", "report", "advised"}

LEMMA AdviceReaches ==
    ASSUME Pool, AdviceNext
    PROVE  Reaches(AdviceLabels)
<1>1. CASE Change
  BY <1>1 DEF Change, Reaches, Pool
<1>2. ASSUME NEW t \in Threads,
             StartAdvice(t) \/ ReadQuality(t) \/ ReadBook(t) \/ DecideOne(t) \/ Advise(t) \/ Report(t) \/ Advised(t)
      PROVE  Reaches(AdviceLabels)
  <2>1. \E l \in {"idle", "health", "decide", "report", "advised"} : \E f : Begin(t, l, f) \/ Go(t, l, f)
    BY <1>2 DEF StartAdvice, ReadQuality, ReadBook, DecideOne, Advise, Report, Advised, Done
  <2> QED
    BY <2>1, Goes DEF AdviceLabels
<1> QED
  BY <1>1, <1>2 DEF AdviceNext

\* No thread is at l.
NoneAt(l) == \A t \in Threads : pc[t] # l

\* The part that requests are for keeps its invariant, the others are as they began.
PagesInv ==
    /\ Pool
    /\ IF focus = "screener" THEN ScreenInv ELSE rows = <<>> /\ NoneAt("answer")
    /\ IF focus = "layer" THEN LayerInv ELSE NoneAt("shown")
    /\ IF focus = "readings" THEN ReadingsInv ELSE levels = <<>> /\ NoneAt("served")
    /\ IF focus = "cdn" THEN CdnInv ELSE remote = NoManifest

LEMMA PagesBegin == PagesInit => PagesInv
<1> SUFFICES ASSUME PagesInit PROVE PagesInv
  OBVIOUS
<1>1. PoolInit /\ ClockInit /\ ScreenInit /\ LayerInit /\ ReadingsInit /\ CdnInit
  BY DEF PagesInit
<1>2. ScreenInv /\ LayerInv /\ ReadingsInv /\ CdnInv
  BY <1>1, ScreenBegins, LayerBegins, ReadingsBegin, CdnBegins
<1>3. Pool /\ NoneAt("answer") /\ NoneAt("shown") /\ NoneAt("served")
  BY <1>1 DEF PoolInit, Pool, NoneAt
<1>4. rows = <<>> /\ levels = <<>> /\ remote = NoManifest
  BY <1>1 DEF ScreenInit, ReadingsInit, CdnInit
<1> QED
  BY <1>2, <1>3, <1>4 DEF PagesInv

LEMMA PagesStep ==
    ASSUME PagesInv, [PagesNext]_pagesVars
    PROVE  PagesInv'
<1>1. CASE ScreenerStep /\ UNCHANGED focus
  <2>1. focus = "screener" /\ ScreenInv /\ ScreenNext /\ UNCHANGED <<levels, remote>>
    BY <1>1 DEF ScreenerStep, PagesInv, readingVars, cdnVars
  <2>2. Reaches(ScreenLabels) /\ ScreenInv'
    BY <2>1, ScreenReaches, ScreenSteps
  <2> QED
    BY <1>1, <2>1, <2>2 DEF PagesInv, Reaches, ScreenLabels, NoneAt
<1>2. CASE LayerStep /\ UNCHANGED focus
  <2>1. focus = "layer" /\ LayerInv /\ LayerNext /\ UNCHANGED <<levels, remote, rows>>
    BY <1>2 DEF LayerStep, PagesInv, readingVars, cdnVars, screenVars
  <2>2. Reaches(LayerLabels) /\ LayerInv'
    BY <2>1, LayerReaches, LayerSteps DEF PagesInv
  <2> QED
    BY <1>2, <2>1, <2>2 DEF PagesInv, Reaches, LayerLabels, NoneAt
<1>3. CASE ReadingsStep /\ UNCHANGED focus
  <2>1. focus = "readings" /\ ReadingsInv /\ ReadingsNext /\ UNCHANGED <<remote, rows>>
    BY <1>3 DEF ReadingsStep, PagesInv, cdnVars, screenVars
  <2>2. Reaches(ReadingsLabels) /\ ReadingsInv'
    BY <2>1, ReadingsReaches, ReadingsSteps DEF PagesInv
  <2> QED
    BY <1>3, <2>1, <2>2 DEF PagesInv, Reaches, ReadingsLabels, NoneAt
<1>4. CASE CdnStep /\ UNCHANGED focus
  <2>1. focus = "cdn" /\ CdnInv /\ CdnNext /\ UNCHANGED <<levels, rows>>
    BY <1>4 DEF CdnStep, PagesInv, PageVars, readingVars, screenVars
  <2>2. Reaches(CdnLabels) /\ CdnInv'
    BY <2>1, CdnReaches, CdnSteps DEF PagesInv
  <2> QED
    BY <1>4, <2>1, <2>2 DEF PagesInv, Reaches, CdnLabels, NoneAt
<1>5. CASE EngineStep /\ UNCHANGED focus
  <2>1. focus = "engine" /\ EngineNext /\ UNCHANGED <<levels, rows, remote>>
    BY <1>5 DEF EngineStep, PageVars, readingVars, screenVars, cdnVars
  <2>2. Reaches(EngineLabels)
    BY <2>1, EngineReaches DEF PagesInv
  <2> QED
    BY <1>5, <2>1, <2>2 DEF PagesInv, Reaches, EngineLabels, NoneAt
<1>6. CASE AdviceStep /\ UNCHANGED focus
  <2>1. focus = "advice" /\ AdviceNext /\ UNCHANGED <<levels, rows, remote>>
    BY <1>6 DEF AdviceStep, PageVars, readingVars, screenVars, cdnVars
  <2>2. Reaches(AdviceLabels)
    BY <2>1, AdviceReaches DEF PagesInv
  <2> QED
    BY <1>6, <2>1, <2>2 DEF PagesInv, Reaches, AdviceLabels, NoneAt
<1>7. CASE UNCHANGED pagesVars
  <2>1. UNCHANGED <<pool, clock, screenVars, layerVars, readingVars, cdnVars, focus>>
    BY <1>7 DEF pagesVars
  <2>2. UNCHANGED <<pc, rows, levels, remote>>
    BY <2>1 DEF pool, screenVars, readingVars, cdnVars
  <2>3. ScreenInv => ScreenInv'
    BY <2>1, NothingKeeps
  <2>4. LayerInv => LayerInv'
    BY <2>1, LayerSteps DEF layerAll
  <2>5. ReadingsInv => ReadingsInv'
    BY <2>1, ReadingsStay
  <2>6. CdnInv => CdnInv'
    BY <2>1, CdnSteps DEF cdnAll
  <2> QED
    BY <2>1, <2>2, <2>3, <2>4, <2>5, <2>6 DEF PagesInv, Pool, NoneAt, pool
<1> QED
  BY <1>1, <1>2, <1>3, <1>4, <1>5, <1>6, <1>7 DEF PagesNext

LEMMA PagesInvariance == PagesSpec => []PagesInv
BY PagesBegin, PagesStep, PTL DEF PagesSpec

\* However many requests wait for the run lock, whatever the probes remember and
\* however runs fail, the engine runs unasked for a date that has a snapshot only
\* when the data was written after that snapshot was made: _run_and_save's second
\* look under the lock is enough.
THEOREM RunsAreCalledFor == PagesSpec => []RunsAnswerWrites
<1>1. PagesInv => RunsAnswerWrites
  <2>1. CASE focus = "screener"
    BY <2>1, ScreenShows DEF PagesInv
  <2>2. CASE focus # "screener"
    BY <2>2 DEF PagesInv, RunsAnswerWrites
  <2> QED
    BY <2>1, <2>2
<1> QED
  BY <1>1, PagesInvariance, PTL

\* A closed market's answer hides a write only for a write into the run itself or
\* its tick, a memo kept across the write, or the cooldown of rebuilds: there is no
\* fifth way, for any ages, cooldown, calendar and number of requests.
THEOREM StaleOnlyForAReason == PagesSpec => []StaleForAReason
<1>1. PagesInv => StaleForAReason
  <2>1. CASE focus = "screener"
    BY <2>1, ScreenShows DEF PagesInv
  <2>2. CASE focus # "screener"
    BY <2>2 DEF PagesInv, StaleForAReason, NoneAt, At
  <2> QED
    BY <2>1, <2>2
<1> QED
  BY <1>1, PagesInvariance, PTL

\* Home's readings do not go blank: the memories of the indices, of the conditions
\* and of the sections never answer with an empty reading when a good one had been
\* stored, however slow or failing the providers, and whatever restarts and other
\* requests come between.  Of the news, the overview and the scores nothing like it
\* is claimed: an empty feed of news replaces a good one.
THEOREM HomeDoesNotGoBlank == PagesSpec => []GoodReadingsKept
<1>1. PagesInv => GoodReadingsKept
  <2>1. CASE focus = "readings"
    BY <2>1, ReadingsShow DEF PagesInv
  <2>2. CASE focus # "readings"
    BY <2>2 DEF PagesInv, GoodReadingsKept, NoneAt, At
  <2> QED
    BY <2>1, <2>2
<1> QED
  BY <1>1, PagesInvariance, PTL

\* A level of the wrong magnitude enters the index's cache, and becomes the
\* yardstick for the next one, only by a fetch that had no yardstick.
THEOREM YardsticksComeFirst == PagesSpec => []LevelsComeFirst
<1>1. PagesInv => LevelsComeFirst
  <2>1. CASE focus = "readings"
    BY <2>1, ReadingsShow DEF PagesInv
  <2>2. CASE focus # "readings"
    BY <2>2 DEF PagesInv, LevelsComeFirst
  <2> QED
    BY <2>1, <2>2
<1> QED
  BY <1>1, PagesInvariance, PTL

-----------------------------------------------------------------------------
(* The parts in the process. *)

\* Requests for the cache layer, the publisher, the engine or the advice find that part
\* behaving as by itself: what is proved of its own specification holds in the process.
THEOREM PagesKeepTheirParts ==
    PagesSpec => /\ focus = "layer" => LayerSpec
                 /\ focus = "cdn" => CdnSpec
                 /\ focus = "engine" => EngineSpec
                 /\ focus = "advice" => AdviceSpec
<1>1. PagesInit => PoolInit /\ ClockInit /\ LayerInit /\ CdnInit /\ EngineInit /\ AdviceInit
  BY DEF PagesInit
<1>2. focus = "layer" /\ [PagesNext]_pagesVars => (focus = "layer")' /\ [LayerNext]_layerAll
  BY DEF PagesNext, ScreenerStep, LayerStep, ReadingsStep, CdnStep, EngineStep, AdviceStep, pagesVars, layerAll
<1>3. focus = "cdn" /\ [PagesNext]_pagesVars => (focus = "cdn")' /\ [CdnNext]_cdnAll
  BY DEF PagesNext, ScreenerStep, LayerStep, ReadingsStep, CdnStep, EngineStep, AdviceStep, pagesVars, cdnAll
<1>4. focus = "engine" /\ [PagesNext]_pagesVars => (focus = "engine")' /\ [EngineNext]_engineAll
  BY DEF PagesNext, ScreenerStep, LayerStep, ReadingsStep, CdnStep, EngineStep, AdviceStep, pagesVars, engineAll
<1>5. focus = "advice" /\ [PagesNext]_pagesVars => (focus = "advice")' /\ [AdviceNext]_adviceAll
  BY DEF PagesNext, ScreenerStep, LayerStep, ReadingsStep, CdnStep, EngineStep, AdviceStep, pagesVars, adviceAll
<1> QED
  BY <1>1, <1>2, <1>3, <1>4, <1>5, PTL DEF PagesSpec, LayerSpec, CdnSpec, EngineSpec, AdviceSpec
=============================================================================
