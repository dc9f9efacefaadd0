---------------------------- MODULE AutoWatchlist ---------------------------
(***************************************************************************)
(* Auto Watchlist (backend/app/auto_watchlist): suggestions drawn from the *)
(* radar, and applying them, which leaves a row per applied symbol that    *)
(* later suggestions avoid.  Suggestions read the settings, the simulated  *)
(* positions and the applied rows in three calls; applying inserts a row   *)
(* per item with no further look.                                          *)
(***************************************************************************)
EXTENDS RequestThreads, SequencesExt

CONSTANTS
    Offers,     \* opportunities of the radar: [market, symbol, score, liquidity, buy, multi]
    MinScore,   \* AutoWatchlistSettings: min_score,
    MaxPerDay,  \* and max_per_day
    OwnedScore, \* OWNED_OVERRIDE_SCORE
    MaxItems    \* bound: items of one apply

ASSUME WatchlistAssumption == {MinScore, MaxPerDay, OwnedScore, MaxItems} \subseteq Nat

VARIABLES
    settings,  \* table auto_watchlist_settings: enabled, include_multibagger
    applied,   \* table auto_watchlist_applied, in id order, with (history) the
               \* request that wrote each row
    owned      \* keys of the open simulated positions

watchlistVars == <<settings, applied, owned>>

Key(o) == <<o.market, o.symbol>>
Keys == {Key(o) : o \in Offers}
Exchanges == {o.market : o \in Offers}

WatchlistInit ==
    /\ settings = [enabled |-> TRUE, multi |-> TRUE]
    /\ applied = <<>>
    /\ owned = {}

SaveSettings(t) ==
    /\ At(t, "idle")
    /\ \E enabled, multi \in BOOLEAN :
         /\ settings' = [enabled |-> enabled, multi |-> multi]
         /\ Begin(t, "idle", NoFrame)
    /\ UNCHANGED <<applied, owned>>

\* The client sends its watchlist; a symbol on it counts on every market.  GET
\* suggestions makes the same calls as an apply that then wants nothing.
StartSuggest(t) ==
    /\ \E existing \in SUBSET {o.symbol : o \in Offers} :
         Begin(t, "settings", [op |-> "apply", existing |-> existing, request |-> requests + 1])
    /\ UNCHANGED watchlistVars

\* Disabled: there is nothing to suggest and all that was asked for is skipped.
ReadSettings(t) ==
    /\ At(t, "settings")
    /\ IF settings.enabled
       THEN Go(t, "owned", frame[t] @@ [multi |-> settings.multi])
       ELSE Done(t)
    /\ UNCHANGED watchlistVars

\* An error of the positions provider reads as no position.
ReadOwned(t) ==
    /\ At(t, "owned")
    /\ \E mine \in {owned, {}} :
         Go(t, "applied", frame[t] @@ [owned |-> mine])
    /\ UNCHANGED watchlistVars

\* Fault: the applied rows are not consulted.
SuggestibleAgain(o, f, done) ==
    /\ o.score >= MinScore /\ o.buy /\ o.liquidity > 0
    /\ o.symbol \notin f.existing
    /\ Key(o) \in f.owned => o.score >= OwnedScore

Suggestible(o, f, done) ==
    /\ o.score >= MinScore /\ o.buy /\ o.liquidity > 0
    /\ o.symbol \notin f.existing
    /\ Key(o) \notin done
    /\ Key(o) \in f.owned => o.score >= OwnedScore
\* By score, then by liquidity.
Above(p, o) == p.score > o.score \/ (p.score = o.score /\ p.liquidity > o.liquidity)
Best(found, n) == {o \in found : Cardinality({p \in found : Above(p, o)}) < n}

\* Each market's scans run within one budget: any of them may time out or fail, and
\* a market with a bearish regime gives no radar pick.
ReadApplied(t) ==
    /\ At(t, "applied")
    /\ LET f == frame[t]
           done == {applied[i].key : i \in DOMAIN applied}
       IN \E top, multi \in SUBSET Exchanges :
            LET found == {o \in Offers :
                            /\ Suggestible(o, f, done)
                            /\ o.market \in top \/ (f.multi /\ o.multi /\ o.market \in multi)}
                picks == {Key(o) : o \in Best(found, MaxPerDay)}
            IN \E wanted \in BoundedSeq(picks, MaxItems) :
                   IF wanted = <<>> THEN Done(t)
                   ELSE Go(t, "apply", [op |-> "apply", todo |-> wanted, request |-> f.request])
    /\ UNCHANGED watchlistVars

\* add_applied, one insert per item; the table has no unique key.
ApplyOne(t) ==
    /\ At(t, "apply")
    /\ LET f == frame[t] IN
         /\ applied' = Append(applied, [key |-> Head(f.todo), request |-> f.request])
         /\ IF Len(f.todo) = 1 THEN Done(t) ELSE Go(t, "apply", [f EXCEPT !.todo = Tail(@)])
    /\ UNCHANGED <<settings, owned>>

\* The simulation opens or closes a position.
PositionChanges ==
    /\ \E k \in Keys : owned' = (IF k \in owned THEN owned \ {k} ELSE owned \cup {k})
    /\ UNCHANGED <<pool, settings, applied>>

WatchlistNext ==
    \/ PositionChanges
    \/ \E t \in Threads :
         \/ SaveSettings(t) \/ StartSuggest(t) \/ ReadSettings(t) \/ ReadOwned(t)
         \/ ReadApplied(t) \/ ApplyOne(t)

-----------------------------------------------------------------------------

\* A symbol that the assistant has applied is not suggested again, so a second
\* request can only write a row of it when it had read the table before the first
\* row was written: at most as many requests as threads ever apply one symbol.
\* (One request applies a symbol as often as its items name it.)
DuplicatesAreInFlight ==
    \A k \in Keys :
        Cardinality({applied[i].request : i \in {j \in DOMAIN applied : applied[j].key = k}})
            <= Cardinality(Threads)

=============================================================================
