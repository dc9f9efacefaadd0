----------------------------- MODULE CacheLayer -----------------------------
(***************************************************************************)
(* The shared cache of the morning brief, the rotation and the radar       *)
(* (backend/app/cache_layer), for one key of one market: a TTL cache of    *)
(* one entry, the trading-date policy that says what an entry is good for, *)
(* and the lock that one build of the key holds.                           *)
(*                                                                         *)
(* What a build computes from is known by its edition; the data moves on   *)
(* by itself.                                                              *)
(***************************************************************************)
EXTENDS MarketClock

CONSTANTS
    EntryTtl,     \* TTL of the namespace, in ticks
    OpenMaxAge,   \* OPEN_FALLBACK_MAX_AGE, in ticks
    MaxEditions   \* bound: editions of the data

VARIABLES
    source,   \* edition of the data that a builder reads
    entry,    \* the key's envelope, or none
    keyLock,  \* the thread in the key's lock
    newest    \* history: the newest edition that a finished request has returned

layerVars == <<source, entry, keyLock, newest>>

NoEntry == [edition |-> 0]
Nobody == "nobody"

ASSUME NobodyAssumption == Nobody \notin Threads

LayerInit ==
    /\ source = 1
    /\ entry = NoEntry
    /\ keyLock = Nobody
    /\ newest = 0

\* TTLCache.get: an entry that has reached its age is not there.
Live == IF entry = NoEntry \/ tick - entry.at >= EntryTtl THEN NoEntry ELSE entry

\* evaluate: what entry e is good for in this session.
Fresh(e) ==
    /\ e # NoEntry
    /\ LET same == e.date = Today IN
       CASE SessionState(now) = "PRE_MARKET" -> TRUE
         [] SessionState(now) = "OPEN" -> same /\ tick - e.at <= OpenMaxAge
         [] OTHER -> same

Displayable(e) == e # NoEntry /\ (Open /\ e.date = Today => tick - e.at <= OpenMaxAge)

-----------------------------------------------------------------------------
Read(force) == [op |-> "page", force |-> force, since |-> newest, edition |-> 0]

\* The request ends with what it shows; 0 is "temporarily unavailable".
Return(t, edition) ==
    /\ Go(t, "shown", [frame[t] EXCEPT !.edition = edition])

\* get_or_build_fresh, up to the lock: a forced read drops the entry first.
StartPage(t) ==
    \E force \in BOOLEAN :
        LET e == IF force THEN NoEntry ELSE Live
            f == Read(force)
        IN /\ entry' = e
           /\ IF Fresh(e) THEN Begin(t, "shown", [f EXCEPT !.edition = e.edition])
              ELSE Begin(t, "wait", f)
           /\ UNCHANGED <<clock, source, keyLock, newest>>

\* Fault: builds of a key do not wait for each other.
BuildAtOnce(t) ==
    /\ At(t, "wait")
    /\ Go(t, "build", frame[t])
    /\ UNCHANGED <<clock, layerVars>>

\* Inside the lock, another thread may have built what this one is for; the entry that
\* is to be replaced is kept for a build that fails, if it may be shown.
LockKey(t) ==
    /\ At(t, "wait")
    /\ keyLock = Nobody
    /\ entry' = Live
    /\ IF Fresh(Live)
       THEN Return(t, entry.edition) /\ UNCHANGED keyLock
       ELSE /\ Go(t, "build", [frame[t] EXCEPT !.edition = IF Displayable(Live) THEN Live.edition ELSE 0])
            /\ keyLock' = t
    /\ UNCHANGED <<clock, source, newest>>

\* The builder reads its data, and computes.
BuildPage(t) ==
    /\ At(t, "build")
    /\ Go(t, "store", [frame[t] EXCEPT !.edition = source])
    /\ UNCHANGED <<clock, layerVars>>

\* The value is tagged with the trading date and the time at the end of the build.
StorePage(t) ==
    /\ At(t, "store")
    /\ entry' = [edition |-> frame[t].edition, date |-> Today, at |-> tick]
    /\ keyLock' = Nobody
    /\ Go(t, "shown", frame[t])
    /\ UNCHANGED <<clock, source, newest>>

\* A builder that raises: the entry that it was to replace, as it was under the lock.
BuildFails(t) ==
    /\ At(t, "build")
    /\ keyLock' = Nobody
    /\ Go(t, "shown", frame[t])
    /\ UNCHANGED <<clock, source, entry, newest>>

ShowPage(t) ==
    /\ At(t, "shown")
    /\ newest' = IF frame[t].edition > newest THEN frame[t].edition ELSE newest
    /\ Done(t)
    /\ UNCHANGED <<clock, source, entry, keyLock>>

\* The data behind the builders moves on.
MoveOn ==
    /\ source < MaxEditions
    /\ source' = source + 1
    /\ UNCHANGED <<pool, clock, entry, keyLock, newest>>

LayerNext ==
    \/ Tick /\ UNCHANGED <<pool, layerVars>>
    \/ MoveOn
    \/ \E t \in Threads :
         \/ StartPage(t) \/ LockKey(t) \/ BuildPage(t) \/ StorePage(t) \/ BuildFails(t) \/ ShowPage(t)

layerAll == <<pool, clock, layerVars>>
LayerSpec == PoolInit /\ ClockInit /\ LayerInit /\ [][LayerNext]_layerAll

-----------------------------------------------------------------------------

\* A page never goes back: what a request shows is at least as new as what any
\* request had shown when it began, though builds are slow, and entries expire or are
\* dropped by forced reads.
PagesGoForward ==
    \A t \in Threads : (At(t, "shown") /\ frame[t].edition # 0) => frame[t].edition >= frame[t].since

=============================================================================
