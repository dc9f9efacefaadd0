--------------------------- MODULE ValueHistories ---------------------------
(***************************************************************************)
(* The recorded values of the owner's account: the equity of the whole     *)
(* (moomoo/equity_tracker.py) and of the strategy sleeves                  *)
(* (momentum/sleeves.py).  Both keep a point per hour, at most so many,    *)
(* in a JSON file; the equity tracker is one object for all requests, a    *)
(* sleeve tracker is made for each.  Only the times of the points matter   *)
(* here.                                                                   *)
(***************************************************************************)
EXTENDS JsonFile, SequencesExt

CONSTANTS
    MaxPoints,  \* _MAX_POINTS of a history
    MaxHalves   \* bound: half hours

ASSUME HistoriesAssumption == MaxPoints \in Nat \ {0} /\ MaxHalves \in Nat /\ "sleeves" \in Files

VARIABLES
    equity,    \* points of the equity history
    halves,    \* time, in half hours
    observed,  \* history: half hours at which the equity was recorded
    late       \* history: a point was recorded after one of a later hour

valueVars == <<fileVars, equity, halves, observed, late>>

Hour(half) == half \div 2

ValuesInit ==
    /\ FileInit
    /\ equity = <<>> /\ halves = 0
    /\ observed = {} /\ late = FALSE

\* Fault: every observation is a point of its own.
PointEach(points, half) == points \o <<half>>

\* The points in the order of their times.
Sorted(points) ==
    LET order == CHOOSE p \in [DOMAIN points -> DOMAIN points] :
                   \A i, j \in DOMAIN points : i < j => p[i] # p[j] /\ points[p[i]] <= points[p[j]]
    IN [i \in DOMAIN points |-> points[order[i]]]

\* A point per hour, the newest last; a history keeps its newest points.
WithPoint(points, half) ==
    LET sorted == Sorted(points)
        same == sorted # <<>> /\ Hour(Last(sorted)) = Hour(half)
        longer == (IF same THEN Front(sorted) ELSE sorted) \o <<half>>
    IN SubSeq(longer, Len(longer) - (IF Len(longer) > MaxPoints THEN MaxPoints ELSE Len(longer)) + 1, Len(longer))

\* GET sleeves: the tracker is this request's own, so its save excludes nobody.
StartSleeves(t) ==
    /\ Begin(t, "point", [op |-> "sleeves", half |-> halves])
    /\ UNCHANGED valueVars

AddPoint(t) ==
    /\ At(t, "point")
    /\ Go(t, "open", [op |-> "sleeves", file |-> "sleeves",
                      data |-> WithPoint(Load("sleeves", <<>>), frame[t].half)])
    /\ UNCHANGED valueVars

\* GET account: the time is read before the shared tracker's lock is taken.
StartAccount(t) ==
    /\ Begin(t, "equity", [op |-> "account", half |-> halves])
    /\ UNCHANGED valueVars

RecordEquity(t) ==
    /\ At(t, "equity")
    /\ LET half == frame[t].half IN
         /\ equity' = WithPoint(equity, half)
         /\ observed' = observed \cup {half}
         /\ late' = (late \/ \E h \in observed : Hour(half) < Hour(h))
    /\ Done(t)
    /\ UNCHANGED <<fileVars, halves>>

HalfHour ==
    /\ halves < MaxHalves
    /\ halves' = halves + 1
    /\ UNCHANGED <<pool, fileVars, equity, observed, late>>

SavePoints(t) == Save(t) /\ UNCHANGED <<equity, halves, observed, late>>

\* The process restarts: the files are as they were left.
ValuesRestart ==
    /\ \E t \in Threads : ~At(t, "idle")
    /\ pc' = [t \in Threads |-> "idle"]
    /\ frame' = [t \in Threads |-> NoFrame]
    /\ handle' = [t \in Threads |-> Closed]
    /\ UNCHANGED <<requests, disk, temp, shared, equity, halves, observed, late>>

ValuesNext ==
    \/ HalfHour \/ ValuesRestart
    \/ \E t \in Threads :
         \/ StartSleeves(t) \/ AddPoint(t) \/ SavePoints(t)
         \/ StartAccount(t) \/ RecordEquity(t)

-----------------------------------------------------------------------------

\* The equity history holds the newest hours in which the account was looked at, one
\* point each, as long as no request waited for the lock across the hour.
HistoryKeepsHours ==
    late \/ LET seen == {Hour(h) : h \in observed}
                kept == {h \in seen : Cardinality({g \in seen : g > h}) < MaxPoints}
            IN /\ {Hour(equity[i]) : i \in DOMAIN equity} = kept
               /\ Len(equity) = Cardinality(kept)

=============================================================================
