--------------------------- MODULE MarketSession ---------------------------
(***************************************************************************)
(* The trading calendar of backend/app/market_session.py.  Instants are    *)
(* records [day, phase]: the calendar day in the market's own timezone and *)
(* the part of the day that the schedule _SESSIONS cuts it into.  Day 0 is *)
(* a Monday; the code knows weekends and no holidays.                      *)
(***************************************************************************)
EXTENDS Integers

\* The five windows a market-local clock time can fall in: before pre_open,
\* pre_open..open, open..close, close..post_close, and after post_close.
Phases == {"EARLY", "PRE", "OPEN", "POST", "LATE"}

IsWeekday(d) == (d % 7) < 5

\* get_market_session_state: weekends and the outer windows are CLOSED.
SessionState(now) ==
    IF ~IsWeekday(now.day) \/ now.phase \in {"EARLY", "LATE"}
    THEN "CLOSED"
    ELSE CASE now.phase = "PRE"  -> "PRE_MARKET"
           [] now.phase = "OPEN" -> "OPEN"
           [] now.phase = "POST" -> "POST_MARKET"

\* _previous_weekday: walk back at least one day, then over a weekend.
PreviousWeekday(d) ==
    IF IsWeekday(d - 1) THEN d - 1
    ELSE IF IsWeekday(d - 2) THEN d - 2 ELSE d - 3

\* Fault: a date that never reaches today.
TradingDateLagging(now) == PreviousWeekday(now.day)

\* current_trading_date: today from pre_open on, the previous weekday before
\* it and on weekends.
TradingDate(now) ==
    IF IsWeekday(now.day) /\ now.phase # "EARLY"
    THEN now.day
    ELSE PreviousWeekday(now.day)

-----------------------------------------------------------------------------
\* The daily bars that exist by an instant: one for each weekday whose
\* regular session has opened.  (The data provider; external to the code.)
NextWeekday(d) ==
    IF IsWeekday(d + 1) THEN d + 1
    ELSE IF IsWeekday(d + 2) THEN d + 2 ELSE d + 3

LatestBar(now) ==
    IF IsWeekday(now.day) /\ now.phase \in {"OPEN", "POST", "LATE"}
    THEN now.day
    ELSE PreviousWeekday(now.day)

\* The session of day d opens strictly after the instant t.
OpensAfter(d, t) ==
    \/ d > t.day
    \/ d = t.day /\ t.phase \in {"EARLY", "PRE"}

\* The next instant: the next window of the day, or the next day's first.  A
\* weekend day is one window, nothing distinguishes its hours.
NextPhase == [EARLY |-> "PRE", PRE |-> "OPEN", OPEN |-> "POST",
              POST |-> "LATE", LATE |-> "EARLY"]
Advance(now) ==
    IF now.phase = "LATE" \/ ~IsWeekday(now.day)
    THEN [day |-> now.day + 1, phase |-> "EARLY"]
    ELSE [day |-> now.day, phase |-> NextPhase[now.phase]]
=============================================================================
