-------------------------- MODULE RebalanceSchedule --------------------------
(***************************************************************************)
(* The monthly clock of the momentum strategy: when the next rebalance is  *)
(* due (momentum/service.py), counted in exchange sessions from the newest *)
(* entry of the strategy's ledger (momentum/ledger.py).                    *)
(*                                                                         *)
(* Days are numbered from a Monday.  The calendar is what is cached of the *)
(* prices: it ends some days ago, and knows the holidays up to there; past *)
(* its end every weekday is taken for a session.                           *)
(***************************************************************************)
EXTENDS Integers, FiniteSets, FiniteSetsExt

CONSTANTS
    Symbols,      \* names of the ledger
    Period,       \* REBALANCE_TRADING_DAYS
    FirstDay,     \* bound: the first day that anything is asked
    LastDay,      \* bound: the last one
    HolidaySets   \* what the weekdays without a session may be

ASSUME ScheduleAssumption ==
    /\ Symbols # {} /\ Period \in Nat /\ FirstDay \in Nat /\ LastDay \in Nat
    \* There is a session among the first prices.
    /\ \A h \in HolidaySets : h \subseteq 0..LastDay /\ \E d \in 0..FirstDay : d % 7 \notin {5, 6} /\ d \notin h

VARIABLES
    holidays,  \* weekdays without a session
    today,     \* the date, in UTC
    cached,    \* the last day of the cached prices
    stamps,    \* updated_ts of each entry, a day, or NoEntry
    action     \* history: the last buy or sell, and whether the ledger kept its time

scheduleVars == <<holidays, today, cached, stamps, action>>

Unentered == -1
IsSessionless(d) == d % 7 \in {5, 6}
IsSession(d) == ~IsSessionless(d) /\ d \notin holidays
NoAction == [day |-> Unentered, kept |-> FALSE]

ScheduleInit ==
    /\ holidays \in HolidaySets
    /\ today = FirstDay
    /\ cached = Max({d \in 0..FirstDay : IsSession(d)})
    /\ stamps = [s \in Symbols |-> Unentered]
    /\ action = NoAction

\* record_buy.
EnterBuy ==
    /\ \E s \in Symbols : stamps' = [stamps EXCEPT ![s] = today]
    /\ action' = [day |-> today, kept |-> TRUE]
    /\ UNCHANGED <<holidays, today, cached>>

\* record_sell of a whole position takes its entry, and the entry's time, away; of a
\* part of it, sets the time.
EnterSell ==
    /\ \E s \in Symbols, whole \in BOOLEAN :
         /\ stamps[s] # Unentered
         /\ stamps' = [stamps EXCEPT ![s] = IF whole THEN Unentered ELSE today]
         /\ action' = [day |-> today, kept |-> ~whole]
    /\ UNCHANGED <<holidays, today, cached>>

DayPasses ==
    /\ today < LastDay
    /\ today' = today + 1
    /\ UNCHANGED <<holidays, cached, stamps, action>>

\* The warmer stores the prices up to a session.
CacheCatchesUp ==
    /\ cached' \in {d \in (cached + 1)..today : IsSession(d)}
    /\ UNCHANGED <<holidays, today, stamps, action>>

ScheduleNext == EnterBuy \/ EnterSell \/ DayPasses \/ CacheCatchesUp

-----------------------------------------------------------------------------
\* last_rebalance_ts: without entries there is none.
LastRebalance == Max({stamps[s] : s \in Symbols})

\* _trading_calendar.
Calendar == {d \in 0..cached : IsSession(d)}

\* Fault: past its end the calendar is not extended.
IndexInCalendar(d) == Cardinality({c \in Calendar : c < d /\ c < cached})

\* _session_index: the place of the first session on or after the day; past the
\* calendar's end weekdays are counted on.
SessionIndex(d) ==
    IF d <= cached THEN Cardinality({c \in Calendar : c < d})
    ELSE Cardinality(Calendar) - 1 + Cardinality({w \in (cached + 1)..d : ~IsSessionless(w)})

\* rebalance_schedule: sessions from today to the due date, when there is one.
HasSchedule == LastRebalance # Unentered /\ Cardinality(Calendar) >= Period + 2
Remaining == SessionIndex(LastRebalance) + Period - SessionIndex(today)
Status == IF ~HasSchedule THEN "none" ELSE IF Remaining <= 0 THEN "due" ELSE "upcoming"

\* _date_for_index of the due date.
DueDate ==
    LET due == SessionIndex(LastRebalance) + Period
    IN IF due < Cardinality(Calendar) THEN CHOOSE c \in Calendar : Cardinality({e \in Calendar : e < c}) = due
       ELSE CHOOSE d \in cached..(cached + 2 * due + 2) :
              /\ Cardinality({w \in (cached + 1)..d : ~IsSessionless(w)}) = due - (Cardinality(Calendar) - 1)
              /\ d = cached \/ ~IsSessionless(d)

-----------------------------------------------------------------------------
\* Sessions of the exchange between the last action and today, whatever is cached.
Elapsed == Cardinality({d \in action.day..(today - 1) : IsSession(d)})

\* "ONE consistent session axis": when the ledger kept the time of the last action,
\* what is left of the period is the exchange's count from that action, one session
\* more at most, and one less and one for each holiday that the cache has not reached;
\* and the rebalance is called due exactly from the due date on.  (After the sale of a
\* whole position the clock falls back to the newest entry that is left.)
ScheduleHolds ==
    LET unseen == Cardinality({h \in holidays : h > cached /\ h <= today /\ ~IsSessionless(h)})
        off == Remaining - (Period - Elapsed)
    IN HasSchedule =>
         /\ action.kept => off \in (-1 - unseen)..1
         /\ (Status = "due") = (DueDate <= today)

=============================================================================
