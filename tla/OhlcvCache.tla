----------------------------- MODULE OhlcvCache -----------------------------
(***************************************************************************)
(* One entry of the OHLCV cache (backend/app/cache.py): a CSV file, its    *)
(* .meta.json sidecar, the per-key lock that makes fetches single-flight,  *)
(* and the in-memory index of write times that the screener's staleness    *)
(* check reads.                                                            *)
(*                                                                         *)
(* A step of a thread is one file operation, one lock operation or one     *)
(* answer of the provider.  The files are opened for writing in place, so  *)
(* a reader, which takes no lock on the fast path, can meet them           *)
(* truncated; clear() unlinks them without any lock.                       *)
(*                                                                         *)
(* The provider's series is an edition number, which stands for the        *)
(* content fingerprint, and the day of its last settled close.             *)
(***************************************************************************)
EXTENDS Integers, FiniteSets

CONSTANTS
    Threads,     \* threads that call get
    TtlOpen,     \* age at which an entry expires while some market is open,
    TtlClosed,   \* and while all are closed
    LagMin,      \* _LAG_REFETCH_MIN_S
    FaultKinds,  \* what may go wrong, a subset of Faults
    MaxFaults,   \* bound: faults in a behaviour
    MaxTime,     \* bound: clock
    MaxDay,      \* bound: trading dates
    MaxEdition   \* bound: editions of the provider's series

Faults == {"provider", "disk", "crash"}

ASSUME AgesAssumption ==
    /\ {TtlOpen, TtlClosed, LagMin} \subseteq Nat \ {0}
    /\ TtlOpen <= TtlClosed
ASSUME FaultsAssumption == FaultKinds \subseteq Faults /\ MaxFaults \in Nat
ASSUME BoundsAssumption == {MaxTime, MaxDay, MaxEdition} \subseteq Nat \ {0}

Times == 1..MaxTime
Days == 1..MaxDay
Editions == 1..MaxEdition

\* A series as fetched; day is history, the trading day it was fetched on.
Frames == [edition : Editions, settled : Days \cup {0}, day : Days]
\* The sidecar: fetched_at, trading_date, settled_date and content_fp.
Metas == [fetched : Times, tag : Days, settled : Days \cup {0}, edition : Editions]

NoFile == [file |-> "none"]   \* there is no such file
Partial == [file |-> "partial"]  \* opened for writing and not written to the end

Labels == {"idle", "fast", "read", "lock", "check", "reread", "fetch",
           "csv", "csv2", "meta", "meta2", "index"}
\* What a call of get that was served from the disk asked for and got.
NoAnswer == [asked |-> 0, day |-> 0]
Answers == [asked : Days \cup {0}, day : Days \cup {0}]

VARIABLES
    csv, meta,      \* the two files
    holders,        \* threads that hold the key's lock
    built,          \* _fresh_built
    scanning,       \* somebody is inside _ensure_fresh_index
    index,          \* write time in the index, 0 for none
    now, today,     \* wall clock and current trading date
    open,           \* some market is in session
    provider,       \* the series the provider would answer
    pc,             \* where each thread is
    date,           \* its trading_date, read as the call starts
    df,             \* the series it has fetched
    stamp,          \* the fetched_at it is about to record
    answer,         \* what its last call was served from the disk
    faults,         \* faults so far
    missed          \* history: a write fell into the building of the index

files == <<csv, meta>>
indexing == <<built, scanning, index>>
world == <<now, today, open, provider>>
request == <<date, df, stamp>>
threads == <<pc, request, answer>>
vars == <<files, holders, indexing, world, threads, faults, missed>>

NoFrame == [edition |-> 0]

-----------------------------------------------------------------------------
(* The pure parts.                                                         *)

Age(m) == now - m.fetched

\* _dynamic_cache_ttl.
Ttl == IF open THEN TtlOpen ELSE TtlClosed

\* The freshness test of _try_read_fresh for a call that asks for date d.
Reason(m, d, ttl) ==
    IF m \notin Metas THEN "absent"
    ELSE IF Age(m) >= ttl THEN "ttl_expired"
    ELSE IF m.tag # d THEN "trading_day_rolled"
    ELSE IF m.settled < m.tag /\ Age(m) >= LagMin THEN "close_not_yet_settled"
    ELSE "fresh"

\* Fault: the waiters take it that the entry is as they left it.
RecheckSkipped(t) == "absent"

\* The double check once the lock is held.
Recheck(t) == Reason(meta, date[t], Ttl)

\* fetched_at of a rewrite: an unchanged fingerprint keeps the old one.
FetchedAt(f) == IF meta \in Metas /\ meta.edition = f.edition THEN meta.fetched ELSE now

\* Fault: the first write time sticks.
FoldFirst(i, fetched) == IF i = 0 THEN fetched ELSE i

\* _index_meta: the index keeps the latest write time.
Fold(i, fetched) == IF fetched > i THEN fetched ELSE i

\* Fault: the sidecar is written first.
SidecarFirst == [fetch |-> "meta", meta2 |-> "csv", csv2 |-> "index"]

\* _write writes the CSV, then the sidecar, then the index.
Following == [fetch |-> "csv", csv2 |-> "meta", meta2 |-> "index"]

-----------------------------------------------------------------------------
(* get.                                                                    *)

Goto(t, label) == pc' = [pc EXCEPT ![t] = label]

\* The call of t returns or raises, and lets go of the lock.
Return(t, served) ==
    /\ Goto(t, "idle")
    /\ answer' = [answer EXCEPT ![t] = served]
    /\ date' = [date EXCEPT ![t] = 0]
    /\ df' = [df EXCEPT ![t] = NoFrame]
    /\ stamp' = [stamp EXCEPT ![t] = 0]
    /\ holders' = holders \ {t}

\* get computes the trading date once, before it looks at the entry.
Call(t) ==
    /\ pc[t] = "idle"
    /\ date' = [date EXCEPT ![t] = today]
    /\ answer' = [answer EXCEPT ![t] = NoAnswer]
    /\ Goto(t, "fast")
    /\ UNCHANGED <<files, holders, indexing, world, df, stamp, faults, missed>>

\* _try_read_fresh looks at the sidecar: on the fast path without the lock,
\* then again with it.
Look(t, from, reason, hit, miss) ==
    /\ pc[t] = from
    /\ Goto(t, IF reason = "fresh" THEN hit ELSE miss)
    /\ UNCHANGED <<files, holders, indexing, world, request, answer, faults, missed>>

FastPath(t) == Look(t, "fast", Reason(meta, date[t], Ttl), "read", "lock")
DoubleCheck(t) == Look(t, "check", Recheck(t), "reread", "fetch")

\* ... and reads the CSV.  One that is missing or does not parse is a miss; a
\* partial one may parse, and get then returns it.
ReadCsv(t) ==
    /\ pc[t] \in {"read", "reread"}
    /\ \/ csv \in Frames /\ Return(t, [asked |-> date[t], day |-> csv.day])
       \/ csv = Partial /\ Return(t, NoAnswer)
       \/ /\ csv \in {NoFile, Partial}
          /\ Goto(t, IF pc[t] = "read" THEN "lock" ELSE "fetch")
          /\ UNCHANGED <<holders, request, answer>>
    /\ UNCHANGED <<files, indexing, world, faults, missed>>

Acquire(t) ==
    /\ pc[t] = "lock"
    /\ holders = {}
    /\ holders' = {t}
    /\ Goto(t, "check")
    /\ UNCHANGED <<files, indexing, world, request, answer, faults, missed>>

\* The leader's fetch is answered.
Fetch(t) ==
    /\ pc[t] = "fetch"
    /\ df' = [df EXCEPT ![t] =
           [edition |-> provider.edition, settled |-> provider.settled, day |-> today]]
    /\ Goto(t, Following["fetch"])
    /\ UNCHANGED <<files, holders, indexing, world, date, stamp, answer, faults, missed>>

\* The fetch raises, and so does get.
FetchFails(t) ==
    /\ pc[t] = "fetch"
    /\ "provider" \in FaultKinds /\ faults < MaxFaults
    /\ faults' = faults + 1
    /\ Return(t, NoAnswer)
    /\ UNCHANGED <<files, indexing, world, missed>>

\* df.to_csv opens the file ...
OpenCsv(t) ==
    /\ pc[t] = "csv"
    /\ csv' = Partial
    /\ Goto(t, "csv2")
    /\ UNCHANGED <<meta, holders, indexing, world, request, answer, faults, missed>>

\* ... and has written it, if it has not been unlinked meanwhile.
CloseCsv(t) ==
    /\ pc[t] = "csv2"
    /\ csv' = IF csv = NoFile THEN NoFile ELSE df[t]
    /\ Goto(t, Following["csv2"])
    /\ UNCHANGED <<meta, holders, indexing, world, request, answer, faults, missed>>

\* The old sidecar is read for the fingerprint and the new one opened.
OpenMeta(t) ==
    /\ pc[t] = "meta"
    /\ stamp' = [stamp EXCEPT ![t] = FetchedAt(df[t])]
    /\ meta' = Partial
    /\ Goto(t, "meta2")
    /\ UNCHANGED <<csv, holders, indexing, world, date, df, answer, faults, missed>>

CloseMeta(t) ==
    /\ pc[t] = "meta2"
    /\ meta' = IF meta = NoFile THEN NoFile
               ELSE [fetched |-> stamp[t], tag |-> date[t],
                     settled |-> df[t].settled, edition |-> df[t].edition]
    /\ Goto(t, Following["meta2"])
    /\ UNCHANGED <<csv, holders, indexing, world, request, answer, faults, missed>>

\* The index is updated once it has been built; get returns.
UpdateIndex(t) ==
    /\ pc[t] = "index"
    /\ index' = IF built THEN Fold(index, stamp[t]) ELSE index
    /\ missed' = (missed \/ scanning)
    /\ Return(t, NoAnswer)
    /\ UNCHANGED <<files, built, scanning, world, faults>>

\* A file operation raises; get returns the series all the same.
DiskFails(t) ==
    /\ pc[t] \in {"csv", "csv2", "meta", "meta2"}
    /\ "disk" \in FaultKinds /\ faults < MaxFaults
    /\ faults' = faults + 1
    /\ Return(t, NoAnswer)
    /\ UNCHANGED <<files, indexing, world, missed>>

-----------------------------------------------------------------------------
(* The index, clear, a restart, and the world.                             *)

\* _ensure_fresh_index reads the sidecars ...
StartScan ==
    /\ ~built /\ ~scanning
    /\ scanning' = TRUE
    /\ index' = IF meta \in Metas THEN Fold(index, meta.fetched) ELSE index
    /\ UNCHANGED <<files, holders, built, world, threads, faults, missed>>

\* ... and only then tells the writers that there is an index.
EndScan ==
    /\ scanning
    /\ scanning' = FALSE
    /\ built' = TRUE
    /\ UNCHANGED <<files, holders, index, world, threads, faults, missed>>

\* clear() lists sidecars and unlinks each with its CSV, and its sweep lists
\* and unlinks whatever file there is: a file goes at any time, a CSV without
\* its sidecar when that appeared after the listing.
ClearMeta ==
    /\ meta # NoFile
    /\ meta' = NoFile
    /\ UNCHANGED <<csv, holders, indexing, world, threads, faults, missed>>

ClearCsv ==
    /\ csv # NoFile
    /\ csv' = NoFile
    /\ UNCHANGED <<meta, holders, indexing, world, threads, faults, missed>>

IdleThreads ==
    /\ pc' = [t \in Threads |-> "idle"]
    /\ date' = [t \in Threads |-> 0]
    /\ df' = [t \in Threads |-> NoFrame]
    /\ stamp' = [t \in Threads |-> 0]
    /\ answer' = [t \in Threads |-> NoAnswer]

\* The process dies and restarts: the files stay as they are.
Crash ==
    /\ "crash" \in FaultKinds /\ faults < MaxFaults
    /\ faults' = faults + 1
    /\ IdleThreads
    /\ holders' = {}
    /\ built' = FALSE /\ scanning' = FALSE /\ index' = 0
    /\ missed' = FALSE
    /\ UNCHANGED <<files, world>>

\* Time passes; sessions open and close, and trading dates begin.
Tick ==
    /\ now < MaxTime
    /\ now' = now + 1
    /\ open' \in BOOLEAN
    /\ today' \in {today, today + 1} \cap Days
    /\ UNCHANGED <<files, holders, indexing, provider, threads, faults, missed>>

\* The provider has something new: a correction, or a session's close.
Publish ==
    /\ provider.edition < MaxEdition
    /\ \E d \in provider.settled..today :
           provider' = [edition |-> provider.edition + 1, settled |-> d]
    /\ UNCHANGED <<files, holders, indexing, now, today, open, threads, faults, missed>>

-----------------------------------------------------------------------------

Init ==
    /\ csv = NoFile /\ meta = NoFile
    /\ holders = {}
    /\ built = FALSE /\ scanning = FALSE /\ index = 0
    /\ now = 1 /\ today = 1 /\ open \in BOOLEAN
    /\ provider = [edition |-> 1, settled |-> 0]
    /\ pc = [t \in Threads |-> "idle"]
    /\ date = [t \in Threads |-> 0]
    /\ df = [t \in Threads |-> NoFrame]
    /\ stamp = [t \in Threads |-> 0]
    /\ answer = [t \in Threads |-> NoAnswer]
    /\ faults = 0
    /\ missed = FALSE

\* What a thread does on its own once get has been called.
Run(t) ==
    \/ FastPath(t) \/ ReadCsv(t) \/ Acquire(t) \/ DoubleCheck(t) \/ Fetch(t)
    \/ OpenCsv(t) \/ CloseCsv(t) \/ OpenMeta(t) \/ CloseMeta(t) \/ UpdateIndex(t)

Next ==
    \/ \E t \in Threads : Call(t) \/ Run(t) \/ FetchFails(t) \/ DiskFails(t)
    \/ StartScan \/ EndScan
    \/ ClearMeta \/ ClearCsv
    \/ Crash
    \/ Tick \/ Publish

Spec == Init /\ [][Next]_vars

-----------------------------------------------------------------------------
(* What should hold.                                                       *)

\* Types; in particular no write time, on disk or in the index, is ahead of
\* the clock.
TypeOK ==
    /\ csv \in Frames \cup {NoFile, Partial}
    /\ meta \in Metas \cup {NoFile, Partial}
    /\ meta \in Metas => meta.fetched <= now
    /\ holders \in SUBSET Threads
    /\ built \in BOOLEAN /\ scanning \in BOOLEAN
    /\ index \in 0..now
    /\ now \in Times /\ today \in Days /\ open \in BOOLEAN
    /\ provider \in [edition : Editions, settled : 0..today]
    /\ pc \in [Threads -> Labels]
    /\ date \in [Threads -> 0..today]
    /\ df \in [Threads -> Frames \cup {NoFrame}]
    /\ stamp \in [Threads -> 0..now]
    /\ answer \in [Threads -> Answers]
    /\ faults \in 0..MaxFaults
    /\ missed \in BOOLEAN

\* "a new session day always invalidates yesterday's entry" (cache.py:13): a
\* series that get serves from disk was fetched on the trading day of the call
\* or later.  The reader pairs a sidecar with a CSV that it reads afterwards
\* without a lock, while other threads rewrite both, clear unlinks them, writes
\* fail and the process dies; what a partial CSV parses to is not covered.
NeverYesterdaysFrame ==
    \A t \in Threads : answer[t].day >= answer[t].asked

\* "Concurrent cold requests for the same key share one underlying fetch": no
\* thread fetches while the entry on disk is whole and fresh for its trading
\* date, be it by the shorter expiry (a session that ends while the leader
\* fetches makes an expired entry fresh again).
WaitersShareTheFetch ==
    \A t \in Threads : pc[t] = "fetch" =>
        ~(csv \in Frames /\ Reason(meta, date[t], TtlOpen) = "fresh")

\* The index "is kept warm by _index_meta() on every write": once built, it is
\* as late as the sidecar says, so the screener notices new data.  The one
\* write that it can miss is one that ends while the index is being built.
IndexKeepsUp ==
    built /\ meta \in Metas /\ (\A t \in Threads : pc[t] # "index")
        => index >= meta.fetched \/ missed

=============================================================================
