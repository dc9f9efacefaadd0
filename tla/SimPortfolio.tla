---------------------------- MODULE SimPortfolio ----------------------------
(***************************************************************************)
(* The simulated paper-trading portfolio of one user                       *)
(* (backend/app/simulation/service.py over store.py; every table is keyed  *)
(* by user_id, so users do not interact).                                  *)
(*                                                                         *)
(* FastAPI runs the synchronous endpoints of simulation/router.py in a     *)
(* thread pool.  SimulationStore takes its lock and commits once per CALL, *)
(* so a handler is a sequence of atomic store calls with copies of the     *)
(* rows it read in local variables.  Here one step of a thread is one      *)
(* store call with the local computation around it: pc[t] names the call   *)
(* the thread makes next and frame[t] holds its locals.                    *)
(*                                                                         *)
(* Money is in whole units of the base currency; a position's cost is      *)
(* quantity * average_cost in the stock's own currency, and Fx converts.   *)
(***************************************************************************)
EXTENDS MarketSession, FiniteSetsExt

CONSTANTS
    Threads,        \* request threads that may serve this user at once
    Symbols,        \* (symbol, market) pairs
    Fx,             \* _fx_to_base of each symbol's market
    InitialCash,    \* DEFAULT_INITIAL_CASH
    Quantities,     \* quantities a request may ask for
    Prices,         \* prices the providers may return, and limit prices
    LegacyAccounts, \* may the account predate the base-currency fix?
    StartClock,     \* the instant at which a behaviour starts
    Horizon,        \* bound: the instant at which the calendar stops
    MaxOrders,      \* bound: rows ever inserted in sim_pending_orders
    MaxRequests,    \* bound: requests ever received, polls not counted
    MaxCrashes      \* bound: times the process dies and restarts

ASSUME ThreadsAssumption == Threads # {}
ASSUME SymbolsAssumption == Symbols # {} /\ Fx \in [Symbols -> Nat \ {0}]
ASSUME MoneyAssumption == InitialCash \in Nat
ASSUME QuantitiesAssumption == Quantities # {} /\ Quantities \subseteq Nat \ {0}
ASSUME PricesAssumption == Prices # {} /\ Prices \subseteq Nat \ {0}
ASSUME SwitchesAssumption == LegacyAccounts \in BOOLEAN
ASSUME ClockAssumption ==
    StartClock \in [day : Int, phase : Phases] /\ Horizon \in [day : Int, phase : Phases]
ASSUME BoundsAssumption == {MaxOrders, MaxRequests, MaxCrashes} \subseteq Nat

Sides == {"BUY", "SELL"}
OrderIds == 1..MaxOrders
Statuses == {"NONE", "PENDING", "FILLED", "REJECTED", "CANCELLED", "DELETED"}
Ops == {"poll", "place", "preview", "cancel", "reset"}
Labels == {"idle", "list", "settle", "route", "acct", "migrate", "pos", "write",
           "debit", "log", "reject", "reserve", "held", "promised", "enqueue",
           "lookup", "mark", "clear"}
\* Where a call of _account comes back to.
Returns == {"idle", "list", "pos", "reserve", "held", "lookup"}
Instants == [day : Int, phase : Phases]
Positions == [qty : Int, cost : Int]
Accounts == [cash : Int, realized : Int, legacy : BOOLEAN]

\* The columns of sim_pending_orders that are never updated.
Tickets == [sym : Symbols, side : Sides, qty : Quantities, reserve : Nat,
            date : Int, placed : Instants]
\* A fill: order is the pending order it settles, 0 for an immediate one.
Fills == [sym : Symbols, side : Sides, qty : Quantities, price : Prices,
          order : OrderIds \cup {0}]
\* The locals of a request thread.
Frames == [op : Ops, sym : Symbols, side : Sides, qty : Quantities,
           limit : BOOLEAN, order : OrderIds \cup {0}, ret : Returns,
           todo : SUBSET OrderIds, fill : Fills, acct : Accounts,
           held : Positions, quote : Nat]

VARIABLES
    account,    \* the sim_accounts row
    position,   \* sim_positions, an absent row being Flat
    status,     \* sim_pending_orders.status
    ticket,     \* the other columns of sim_pending_orders
    nextId,     \* its AUTOINCREMENT counter
    log,        \* sim_trades, as its net totals
    clock,      \* market-local wall clock
    cached,     \* day of the last daily bar in each symbol's OHLCV cache
    pc, frame,  \* the request threads
    fills,      \* history: how often, and at which day's open, orders filled
    started,    \* requests received so far, polls not counted
    crashes     \* process restarts so far

store == <<account, position, status, ticket, nextId, log>>
environment == <<clock, cached>>
vars == <<store, environment, pc, frame, fills, started, crashes>>

-----------------------------------------------------------------------------
\* Faults: the operators whose comment starts with "Fault" are not the code.
\* Each is one definition below with a bug in it, put in its place to see that
\* the properties notice.

Flat == [qty |-> 0, cost |-> 0]
FreshAccount == [cash |-> InitialCash, realized |-> 0, legacy |-> FALSE]
EmptyLog == [cash |-> 0, realized |-> 0, qty |-> [s \in Symbols |-> 0]]

BlankTicket ==
    [sym |-> CHOOSE s \in Symbols : TRUE, side |-> "BUY",
     qty |-> CHOOSE q \in Quantities : TRUE, reserve |-> 0, date |-> 0,
     placed |-> [day |-> 0, phase |-> "EARLY"]]
BlankFill ==
    [sym |-> BlankTicket.sym, side |-> "BUY", qty |-> BlankTicket.qty,
     price |-> CHOOSE p \in Prices : TRUE, order |-> 0]
BlankFrame ==
    [op |-> "poll", sym |-> BlankTicket.sym, side |-> "BUY",
     qty |-> BlankTicket.qty, limit |-> FALSE, order |-> 0, ret |-> "idle",
     todo |-> {}, fill |-> BlankFill, acct |-> FreshAccount, held |-> Flat,
     quote |-> 0]

Pending == {o \in OrderIds : status[o] = "PENDING"}

\* _reserved_cash: set aside by the pending BUYs.
ReservedCash ==
    MapThenSumSet(LAMBDA o : ticket[o].reserve,
                  {o \in Pending : ticket[o].side = "BUY"})

\* Fault: forget the pending SELLs.
NothingPromised(s) == 0

\* already_pending in _queue_pending: promised to the pending SELLs.
PromisedQty(s) ==
    MapThenSumSet(LAMBDA o : ticket[o].qty,
                  {o \in Pending : ticket[o].side = "SELL" /\ ticket[o].sym = s})

\* The value of a fill in the base currency.
ValueBase(f) == f.qty * f.price * Fx[f.sym]

\* The cost a SELL relieves: quantity * average_cost.
Relief(f, held) == (held.cost * f.qty) \div held.qty

\* Fault: book the proceeds, not the gain.
RealizedGross(f, held) ==
    IF f.side = "BUY" THEN 0 ELSE f.qty * f.price * Fx[f.sym]

\* realized: (exec_price - average_cost) * quantity, in base currency.
RealizedBase(f, held) ==
    IF f.side = "BUY" THEN 0
    ELSE (f.qty * f.price - Relief(f, held)) * Fx[f.sym]

\* Fault: buy while there is any cash.
AffordableOnCredit(f, acct, held) ==
    IF f.side = "BUY" THEN acct.cash > 0 ELSE f.qty <= held.qty

\* The check of _execute_fill against the rows it has read.
Affordable(f, acct, held) ==
    IF f.side = "BUY" THEN ValueBase(f) <= acct.cash ELSE f.qty <= held.qty

\* Fault: leave the sold-out row behind.
PositionAfterKept(f, held) ==
    IF f.side = "BUY"
    THEN [qty |-> held.qty + f.qty, cost |-> held.cost + f.qty * f.price]
    ELSE IF f.qty = held.qty
         THEN held
         ELSE [qty |-> held.qty - f.qty, cost |-> held.cost - Relief(f, held)]

\* The position row _execute_fill writes; a sold-out row is deleted.
PositionAfter(f, held) ==
    IF f.side = "BUY"
    THEN [qty |-> held.qty + f.qty, cost |-> held.cost + f.qty * f.price]
    ELSE IF f.qty = held.qty
         THEN Flat
         ELSE [qty |-> held.qty - f.qty, cost |-> held.cost - Relief(f, held)]

CashAfter(f, acct) ==
    acct.cash + (IF f.side = "BUY" THEN -ValueBase(f) ELSE ValueBase(f))

\* Fault: wait for one bar too many.
BarAvailableLate(o) == NextWeekday(ticket[o].date) < cached[ticket[o].sym]

\* open_after_cached has a bar for the order: the first one after its date.
BarAvailable(o) == NextWeekday(ticket[o].date) <= cached[ticket[o].sym]

-----------------------------------------------------------------------------
Init ==
    /\ \/ account = FreshAccount
       \/ /\ LegacyAccounts
          /\ \E c \in 0..InitialCash :
               account = [cash |-> c, realized |-> 0, legacy |-> TRUE]
    /\ position = [s \in Symbols |-> Flat]
    /\ status = [o \in OrderIds |-> "NONE"]
    /\ ticket = [o \in OrderIds |-> BlankTicket]
    /\ nextId = 1
    /\ log = EmptyLog
    /\ clock = StartClock
    /\ cached = [s \in Symbols |-> PreviousWeekday(clock.day)]
    /\ pc = [t \in Threads |-> "idle"]
    /\ frame = [t \in Threads |-> BlankFrame]
    /\ fills = [o \in OrderIds |-> [count |-> 0, day |-> 0]]
    /\ started = 0
    /\ crashes = 0

\* Thread t proceeds to label l with locals f, or returns its response.
Goto(t, l, f) ==
    /\ pc' = [pc EXCEPT ![t] = l]
    /\ frame' = [frame EXCEPT ![t] = f]
Return(t) == Goto(t, "idle", BlankFrame)
\* Thread t calls _account and comes back to label l.
CallAccount(t, l, f) == Goto(t, "acct", [f EXCEPT !.ret = l])

\* Fault: a fill does not mark its order.
SetStatusNotFilled(o, st) ==
    status' = IF st = "FILLED" THEN status ELSE [status EXCEPT ![o] = st]

\* UPDATE sim_pending_orders SET status: no row matches once it is deleted.
SetStatus(o, st) ==
    status' = [status EXCEPT ![o] = IF @ = "DELETED" THEN @ ELSE st]

\* SimulationStore.reset
Wipe ==
    /\ account' = FreshAccount
    /\ position' = [s \in Symbols |-> Flat]
    /\ status' = [o \in OrderIds |->
                    IF status[o] = "NONE" THEN "NONE" ELSE "DELETED"]
    /\ log' = EmptyLog
    /\ UNCHANGED <<ticket, nextId>>

-----------------------------------------------------------------------------
(* The router's endpoints. *)

\* GET /account, /positions, /portfolio, /pending, and every feature that
\* reads positions through _sim_service.
StartPoll(t) ==
    /\ pc[t] = "idle"
    /\ CallAccount(t, "list", BlankFrame)
    /\ UNCHANGED <<store, environment, fills, started, crashes>>

Receive(t) ==
    /\ pc[t] = "idle" /\ started < MaxRequests
    /\ started' = started + 1
    /\ UNCHANGED <<store, environment, fills, crashes>>

\* POST /order/preview: its only effect is the migration in _account.
StartPreview(t) ==
    Receive(t) /\ CallAccount(t, "idle", [BlankFrame EXCEPT !.op = "preview"])

\* POST /order/place
StartPlace(t) ==
    /\ Receive(t)
    /\ \E s \in Symbols, side \in Sides, q \in Quantities, limit \in BOOLEAN :
         Goto(t, "list", [BlankFrame EXCEPT !.op = "place", !.sym = s,
                             !.side = side, !.qty = q, !.limit = limit])

\* POST /order/cancel/{order_id}, of an order the user has seen
StartCancel(t) ==
    /\ Receive(t)
    /\ \E o \in OrderIds :
         /\ o < nextId
         /\ CallAccount(t, "lookup",
                        [BlankFrame EXCEPT !.op = "cancel", !.order = o])

\* POST /reset
StartReset(t) ==
    Receive(t) /\ Goto(t, "clear", [BlankFrame EXCEPT !.op = "reset"])

-----------------------------------------------------------------------------
(* _account: read the row, and wipe a legacy one before reading it again. *)

ReadAccount(t) ==
    /\ pc[t] = "acct"
    /\ IF account.legacy
       THEN Goto(t, "migrate", frame[t])
       ELSE IF frame[t].ret = "idle"
       THEN Return(t)
       ELSE Goto(t, frame[t].ret, [frame[t] EXCEPT !.acct = account])
    /\ UNCHANGED <<store, environment, fills, started, crashes>>

Migrate(t) ==
    /\ pc[t] = "migrate"
    /\ Wipe
    /\ Goto(t, "acct", frame[t])
    /\ UNCHANGED <<environment, fills, started, crashes>>

-----------------------------------------------------------------------------
(* _settle_pending *)

ListPending(t) ==
    /\ pc[t] = "list"
    /\ Goto(t, "settle", [frame[t] EXCEPT !.todo = Pending])
    /\ UNCHANGED <<store, environment, fills, started, crashes>>

\* The order's next-session bar is not cached yet (continue).
SettleSkip(t) ==
    /\ pc[t] = "settle" /\ frame[t].todo # {}
    /\ LET o == Min(frame[t].todo) IN
         /\ ~BarAvailable(o)
         /\ Goto(t, "settle", [frame[t] EXCEPT !.todo = @ \ {o}])
    /\ UNCHANGED <<store, environment, fills, started, crashes>>

\* Mark the order FILLED, then fill it at the bar's open.
SettleMark(t) ==
    /\ pc[t] = "settle" /\ frame[t].todo # {}
    /\ LET o == Min(frame[t].todo) IN
         /\ BarAvailable(o)
         /\ SetStatus(o, "FILLED")
         /\ \E p \in Prices :
              CallAccount(t, "pos", [frame[t] EXCEPT !.todo = @ \ {o},
                 !.fill = [sym |-> ticket[o].sym, side |-> ticket[o].side,
                           qty |-> ticket[o].qty, price |-> p, order |-> o]])
    /\ UNCHANGED <<account, position, ticket, nextId, log, environment, fills, started, crashes>>

SettleDone(t) ==
    /\ pc[t] = "settle" /\ frame[t].todo = {}
    /\ IF frame[t].op = "place" THEN Goto(t, "route", frame[t]) ELSE Return(t)
    /\ UNCHANGED <<store, environment, fills, started, crashes>>

\* The fill raised SimulationError: drop the order.
SettleReject(t) ==
    /\ pc[t] = "reject"
    /\ SetStatus(frame[t].fill.order, "REJECTED")
    /\ Goto(t, "settle", frame[t])
    /\ UNCHANGED <<account, position, ticket, nextId, log, environment, fills, started, crashes>>

-----------------------------------------------------------------------------
(* place, after settling: queue, fill now, or fail for want of a price. *)

RouteToQueue(t) ==
    /\ pc[t] = "route"
    /\ ~frame[t].limit /\ SessionState(clock) # "OPEN"
    /\ CallAccount(t, IF frame[t].side = "BUY" THEN "reserve" ELSE "held",
                   frame[t])
    /\ UNCHANGED <<store, environment, fills, started, crashes>>

RouteToFill(t) ==
    /\ pc[t] = "route"
    /\ frame[t].limit \/ SessionState(clock) = "OPEN"
    /\ \/ \E p \in Prices :
            CallAccount(t, "pos", [frame[t] EXCEPT
                !.fill = [sym |-> frame[t].sym, side |-> frame[t].side,
                          qty |-> frame[t].qty, price |-> p, order |-> 0]])
       \/ Return(t)  \* no price: 502
    /\ UNCHANGED <<store, environment, fills, started, crashes>>

-----------------------------------------------------------------------------
(* _execute_fill: four store calls after _account, each its own commit. *)

ReadPosition(t) ==
    /\ pc[t] = "pos"
    /\ LET f == frame[t].fill
           held == position[f.sym] IN
         IF Affordable(f, frame[t].acct, held)
         THEN Goto(t, "write", [frame[t] EXCEPT !.held = held])
         ELSE IF f.order = 0 THEN Return(t) ELSE Goto(t, "reject", frame[t])
    /\ UNCHANGED <<store, environment, fills, started, crashes>>

WritePosition(t) ==
    /\ pc[t] = "write"
    /\ LET f == frame[t].fill IN
         position' = [position EXCEPT ![f.sym] = PositionAfter(f, frame[t].held)]
    /\ Goto(t, "debit", frame[t])
    /\ UNCHANGED <<account, status, ticket, nextId, log, environment, fills, started, crashes>>

UpdateAccount(t) ==
    /\ pc[t] = "debit"
    /\ LET f == frame[t].fill
           acct == frame[t].acct IN
         /\ account' = [account EXCEPT
                !.cash = CashAfter(f, acct),
                !.realized = acct.realized + RealizedBase(f, frame[t].held)]
         /\ fills' = IF f.order = 0 THEN fills
                     ELSE [fills EXCEPT ![f.order] =
                             [count |-> @.count + 1,
                              day |-> NextWeekday(ticket[f.order].date)]]
    /\ Goto(t, "log", frame[t])
    /\ UNCHANGED <<position, status, ticket, nextId, log, environment, started, crashes>>

AddTrade(t) ==
    /\ pc[t] = "log"
    /\ LET f == frame[t].fill IN
         /\ log' = [cash |-> CashAfter(f, log),
                    realized |-> log.realized + RealizedBase(f, frame[t].held),
                    qty |-> [log.qty EXCEPT ![f.sym] =
                               IF f.side = "BUY" THEN @ + f.qty ELSE @ - f.qty]]
         /\ IF f.order = 0 THEN Return(t) ELSE Goto(t, "settle", frame[t])
    /\ UNCHANGED <<account, position, status, ticket, nextId, environment,
                   fills, started, crashes>>

-----------------------------------------------------------------------------
(* _queue_pending *)

\* BUY: an estimate (0 without a price) against cash less the reservations.
CheckReserve(t) ==
    /\ pc[t] = "reserve"
    /\ \E p \in Prices \cup {0} :
         LET est == frame[t].qty * p * Fx[frame[t].sym] IN
         IF est <= frame[t].acct.cash - ReservedCash
         THEN Goto(t, "enqueue", [frame[t] EXCEPT !.quote = est])
         ELSE Return(t)
    /\ UNCHANGED <<store, environment, fills, started, crashes>>

\* SELL: the quantity held, then what other pending SELLs are promised.
ReadHeld(t) ==
    /\ pc[t] = "held"
    /\ Goto(t, "promised", [frame[t] EXCEPT !.held = position[frame[t].sym]])
    /\ UNCHANGED <<store, environment, fills, started, crashes>>

CheckPromised(t) ==
    /\ pc[t] = "promised"
    /\ IF frame[t].qty <= frame[t].held.qty - PromisedQty(frame[t].sym)
       THEN Goto(t, "enqueue", frame[t])
       ELSE Return(t)
    /\ UNCHANGED <<store, environment, fills, started, crashes>>

\* add_pending_order, tagged with trading_date_str.
Enqueue(t) ==
    /\ pc[t] = "enqueue" /\ nextId <= MaxOrders
    /\ ticket' = [ticket EXCEPT ![nextId] =
                    [sym |-> frame[t].sym, side |-> frame[t].side,
                     qty |-> frame[t].qty, reserve |-> frame[t].quote,
                     date |-> TradingDate(clock), placed |-> clock]]
    /\ status' = [status EXCEPT ![nextId] = "PENDING"]
    /\ nextId' = nextId + 1
    /\ Return(t)
    /\ UNCHANGED <<account, position, log, environment, fills, started, crashes>>

-----------------------------------------------------------------------------
(* cancel and reset *)

Lookup(t) ==
    /\ pc[t] = "lookup"
    /\ IF status[frame[t].order] = "PENDING"
       THEN Goto(t, "mark", frame[t])
       ELSE Return(t)
    /\ UNCHANGED <<store, environment, fills, started, crashes>>

MarkCancelled(t) ==
    /\ pc[t] = "mark"
    /\ SetStatus(frame[t].order, "CANCELLED")
    /\ CallAccount(t, "idle", frame[t])
    /\ UNCHANGED <<account, position, ticket, nextId, log, environment, fills, started, crashes>>

Reset(t) ==
    /\ pc[t] = "clear"
    /\ Wipe
    /\ CallAccount(t, "list", frame[t])
    /\ UNCHANGED <<environment, fills, started, crashes>>

-----------------------------------------------------------------------------
(* The environment: the clock, the cache warmer, and process crashes. *)

Tick ==
    /\ clock # Horizon
    /\ clock' = Advance(clock)
    /\ UNCHANGED <<store, cached, pc, frame, fills, started, crashes>>

\* The warmer refetches a symbol's daily bars.
Refresh(s) ==
    /\ cached[s] < LatestBar(clock)
    /\ cached' = [cached EXCEPT ![s] = LatestBar(clock)]
    /\ UNCHANGED <<store, clock, pc, frame, fills, started, crashes>>

\* The process restarts: requests in flight are gone, the tables are not.
Crash ==
    /\ crashes < MaxCrashes /\ \E t \in Threads : pc[t] # "idle"
    /\ pc' = [t \in Threads |-> "idle"]
    /\ frame' = [t \in Threads |-> BlankFrame]
    /\ crashes' = crashes + 1
    /\ UNCHANGED <<store, environment, fills, started>>

Start(t) ==
    StartPoll(t) \/ StartPreview(t) \/ StartPlace(t) \/ StartCancel(t)
        \/ StartReset(t)
Settle(t) ==
    ListPending(t) \/ SettleSkip(t) \/ SettleMark(t) \/ SettleDone(t)
        \/ SettleReject(t)
ExecuteFill(t) ==
    ReadPosition(t) \/ WritePosition(t) \/ UpdateAccount(t) \/ AddTrade(t)
QueuePending(t) ==
    CheckReserve(t) \/ ReadHeld(t) \/ CheckPromised(t) \/ Enqueue(t)

\* What a thread does on its own once it has a request.
Run(t) ==
    \/ ReadAccount(t) \/ Migrate(t)
    \/ Settle(t)
    \/ RouteToQueue(t) \/ RouteToFill(t)
    \/ ExecuteFill(t)
    \/ QueuePending(t)
    \/ Lookup(t) \/ MarkCancelled(t)
    \/ Reset(t)

Next ==
    \/ \E t \in Threads : Start(t) \/ Run(t)
    \/ Tick
    \/ \E s \in Symbols : Refresh(s)
    \/ Crash

Spec == Init /\ [][Next]_vars

\* Threads that hold a request run on, the app keeps polling, the calendar
\* advances, and the warmer eventually refetches every symbol.
FairSpec ==
    /\ Spec
    /\ \A t \in Threads : WF_vars(Run(t)) /\ WF_vars(StartPoll(t))
    /\ WF_vars(Tick)
    /\ \A s \in Symbols : WF_vars(Refresh(s))

-----------------------------------------------------------------------------
(* Properties. *)

\* Every variable, and every local of every thread, keeps its type.
TypeOK ==
    /\ account \in Accounts
    /\ position \in [Symbols -> Positions]
    /\ status \in [OrderIds -> Statuses]
    /\ ticket \in [OrderIds -> Tickets]
    /\ nextId \in Nat \ {0}
    /\ log \in [cash : Int, realized : Int, qty : [Symbols -> Int]]
    /\ clock \in Instants
    /\ cached \in [Symbols -> Int]
    /\ pc \in [Threads -> Labels]
    /\ frame \in [Threads -> Frames]
    /\ fills \in [OrderIds -> [count : Nat, day : Int]]
    /\ started \in Nat
    /\ crashes \in Nat

\* However requests interleave and wherever the process dies, the account is
\* never overdrawn and no position goes short: _execute_fill checks the very
\* rows whose difference it writes back.
NonNegative ==
    /\ account.cash >= 0
    /\ \A s \in Symbols : position[s].qty >= 0

\* No order trades on a price from before it was placed: it fills at the open
\* of a session that opens after the instant it was queued.
NoLookAhead ==
    \A o \in OrderIds :
        fills[o].count > 0 => OpensAfter(fills[o].day, ticket[o].placed)

\* Threads at work on the fill of a pending order.
Filling(t) ==
    \/ pc[t] \in {"pos", "write", "debit", "log", "reject"}
    \/ pc[t] \in {"acct", "migrate"} /\ frame[t].ret = "pos"

\* Between requests the account and the positions are what the trade log
\* replays to (a legacy balance, mixed before the currency fix, excepted).
LedgerMatchesLog ==
    (\A t \in Threads : ~Filling(t)) /\ ~account.legacy =>
        /\ account.cash = InitialCash + log.cash
        /\ account.realized = log.realized
        /\ \A s \in Symbols : position[s].qty = log.qty[s]

\* Realized P/L is exactly what left the cost basis: cash plus positions at
\* cost is the initial cash plus what was realized.
CostBasis ==
    (\A t \in Threads : ~Filling(t)) /\ ~account.legacy =>
        account.cash + MapThenSumSet(LAMBDA s : position[s].cost * Fx[s], Symbols)
            = InitialCash + account.realized

\* "Best-effort and idempotent": settling an order again does not fill it
\* again.
AtMostOneFill == \A o \in OrderIds : fills[o].count <= 1

\* A queued order does not stay pending for good: once its session's bar
\* exists it is settled, provided somebody keeps reading the portfolio.
PendingSettles ==
    \A o \in OrderIds :
        (status[o] = "PENDING" /\ NextWeekday(ticket[o].date) <= LatestBar(Horizon))
            ~> (status[o] # "PENDING")
=============================================================================
