---------------------------- MODULE MarketClock ----------------------------
(***************************************************************************)
(* The time that the pages are served at: a wall clock in ticks, for ages  *)
(* and expiries, and the market's session, which moves on with it.         *)
(***************************************************************************)
EXTENDS RequestThreads, MarketSession

CONSTANTS
    Opening,   \* instants of the session that a behaviour may begin at
    MaxTicks   \* bound: ticks

ASSUME OpeningAssumption == Opening \subseteq [day : Nat, phase : Phases]

VARIABLES
    tick,  \* time.time()
    now    \* market_now()

clock == <<tick, now>>

ClockInit == tick = 0 /\ now \in Opening

\* A tick is longer than an epsilon and shorter than a window of the session.
Tick ==
    /\ tick < MaxTicks
    /\ tick' = tick + 1
    /\ now' \in {now, Advance(now)}

\* _is_market_open of engine.py, for a market whose hours are the calendar's.
Open == SessionState(now) = "OPEN"

Today == TradingDate(now)

=============================================================================
