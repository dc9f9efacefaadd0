----------------------------- MODULE MoomooSltp -----------------------------
(***************************************************************************)
(* Server-managed stop-loss / take-profit brackets of the live Moomoo      *)
(* account (backend/app/moomoo/sltp.py over moomoo/service.py).            *)
(*                                                                         *)
(* SLTPMonitor.tick runs in the background thread of main.py and in every  *)
(* thread that serves POST /brackets/check.  It takes no lock of its own:  *)
(* it reads the ACTIVE brackets, reads the positions, and for each bracket *)
(* calls place and then _mark, so the owner's attach and cancel, the other *)
(* tickers and the market all move between its steps.  One step of a       *)
(* ticker is one call of the store or of the broker with the local         *)
(* computation around it.                                                  *)
(*                                                                         *)
(* Quantities are in the broker's smallest fraction, WholeShare of them to *)
(* a share.  The broker is external: it accepts a sell that is covered and *)
(* that the session allows.                                                *)
(***************************************************************************)
EXTENDS Integers, Sequences, FiniteSets

CONSTANTS
    Tickers,      \* threads that may run a tick
    Loop,         \* the background thread among them
    Symbols,
    Quantities,   \* quantities a bracket may protect
    References,   \* reference prices of a bracket
    Prices,       \* quotes; 0 stands for "no quote yet"
    WholeShare,   \* fractions to a share
    MaxNotional,  \* TRADEWIZZ_MOOMOO_MAX_NOTIONAL
    MaxHistory,   \* SLTPStore._MAX_HISTORY
    FaultKinds,   \* what may go wrong, a subset of Faults
    MaxFaults,    \* bound: faults in a behaviour
    MaxHeld,      \* bound: the owner's holding of a symbol
    MaxAttach,    \* bound: brackets ever attached
    MaxOrders     \* bound: sells ever accepted

Faults == {"outage", "lost", "save", "crash"}

ASSUME TickersAssumption == Loop \in Tickers
ASSUME InputsAssumption ==
    /\ Quantities \subseteq Nat \ {0}
    /\ References \subseteq Nat \ {0}
    /\ Prices \subseteq Nat
ASSUME BoundsAssumption ==
    /\ {WholeShare, MaxNotional, MaxHistory, MaxHeld, MaxAttach, MaxOrders} \subseteq Nat
    /\ WholeShare # 0
ASSUME FaultsAssumption == FaultKinds \subseteq Faults /\ MaxFaults \in Nat

BracketIds == 1..MaxAttach
OrderIds == 1..MaxOrders
Hits == {"TRIGGERED_STOP", "TRIGGERED_TARGET"}
Fired == Hits \cup {"PENDING_EXT"}
Statuses == Fired \cup {"ACTIVE", "CANCELLED", "CLOSED_NO_POSITION"}

Brackets == [id : BracketIds, symbol : Symbols, qty : Quantities, stop : Int, target : Int]
\* The terminal rows of the file.
Rows == [id : BracketIds, symbol : Symbols, status : Statuses \ {"ACTIVE"},
         order : OrderIds \cup {0}]
\* What positions() says of a symbol; a closed position has no row.
Quotes == [qty : Int, sellable : Int, last : Int]
Orders == [symbol : Symbols, bracket : BracketIds, ticker : Tickers, qty : Int,
           market : BOOLEAN, working : BOOLEAN]

NoBracket == [id |-> 0]
NoQuote == [qty |-> 0, sellable |-> 0, last |-> 0]

\* The locals of a tick: brackets left to evaluate and the positions read for
\* them, the bracket it is working on with its position, and what it has
\* decided about it.  A local that is not read again is back at its idle value.
Frames == [todo : SUBSET Brackets, pos : [Symbols -> Quotes],
           cur : Brackets \cup {NoBracket}, seen : Quotes, qty : Int, hit : Hits,
           ext : BOOLEAN, mark : Statuses, order : OrderIds \cup {0}]
Labels == {"idle", "positions", "each", "preview", "place", "mark"}

VARIABLES
    bracket,     \* the ACTIVE bracket of each symbol, or NoBracket
    history,     \* the terminal rows, latest first
    nextId,      \* number of the next bracket
    sessionOpen, \* is the US regular session open?
    held,        \* broker: shares held of each symbol
    frozen,      \* broker: shares tied in working sells
    price,       \* broker: last price of each symbol
    orders,      \* broker: the sells accepted from tickers
    pc, frame,   \* the tickers
    faults,      \* faults so far
    faulted,     \* history: brackets whose sell was accepted but not recorded
    wasFlat      \* history: brackets whose shares were gone at some time

store == <<bracket, history, nextId>>
market == <<sessionOpen, held, frozen, price>>
vars == <<store, market, orders, pc, frame, faults, faulted, wasFlat>>

-----------------------------------------------------------------------------
(* The pure parts of a tick.                                               *)

\* The levels, stop_pct and target_pct being one tick of the price scale here.
StopPrice(ref) == ref - 1
TargetPrice(ref) == ref + 1

IsActive(s) == bracket[s] # NoBracket
Sellable(s) == held[s] - frozen[s]

Positions == [s \in Symbols |->
    IF held[s] = 0 THEN NoQuote
    ELSE [qty |-> held[s], sellable |-> Sellable(s), last |-> price[s]]]

\* A strict comparison would miss a quote at the level itself.
TouchesBeyondStop(b, last) == last < b.stop
TouchesStop(b, last) == last <= b.stop
TouchesTarget(b, last) == last >= b.target
Touches(b, last) == last > 0 /\ (TouchesStop(b, last) \/ TouchesTarget(b, last))
HitOf(b, last) == IF TouchesStop(b, last) THEN "TRIGGERED_STOP" ELSE "TRIGGERED_TARGET"

Lesser(m, n) == IF m <= n THEN m ELSE n
SellQty(b, q) == Lesser(IF q.sellable > 0 THEN q.sellable ELSE q.qty, b.qty)
IsFractional(n) == n % WholeShare # 0

\* The price place() checks the notional cap against: the limit price of an
\* extended-hours order, else the position's last price read once more.
EstPrice(f) ==
    LET s == f.cur.symbol IN
    IF f.ext THEN f.seen.last ELSE IF held[s] = 0 THEN 0 ELSE price[s]
WithinCap(f) == EstPrice(f) * f.qty <= MaxNotional

\* The broker takes a covered sell, a MARKET one only in the regular session.
BrokerAccepts(f) ==
    /\ Len(orders) < MaxOrders
    /\ f.ext \/ sessionOpen
    /\ f.qty <= Sellable(f.cur.symbol)

\* A target leg that stays ACTIVE after its sell.
KeptAfterTarget(s, status) ==
    IF status \in {"ACTIVE", "TRIGGERED_TARGET"} THEN bracket[s] ELSE NoBracket
\* What _mark leaves ACTIVE on symbol s.
AfterMark(s, status) == IF status = "ACTIVE" THEN bracket[s] ELSE NoBracket

\* Retiring the bracket although its sell failed.
GivesUp(f) == f.hit
\* The status a bracket is marked with when its sell failed.
AfterFailure(f) == "ACTIVE"
AfterSell(f) == IF f.ext THEN "PENDING_EXT" ELSE f.hit

\* The terminal rows after one more, cut to the latest MaxHistory.
Prune(rows) == SubSeq(rows, 1, Lesser(Len(rows), MaxHistory))
Retired(s, status, o) ==
    Prune(<<[id |-> bracket[s].id, symbol |-> s, status |-> status, order |-> o]>> \o history)

IdleFrame ==
    [todo |-> {}, pos |-> [s \in Symbols |-> NoQuote], cur |-> NoBracket,
     seen |-> NoQuote, qty |-> 0, hit |-> "TRIGGERED_STOP", ext |-> FALSE, mark |-> "ACTIVE", order |-> 0]

-----------------------------------------------------------------------------
(* The owner's requests.                                                   *)

\* POST /brackets: the new bracket takes the place of the symbol's ACTIVE one.
Attach(s, q, ref) ==
    /\ nextId <= MaxAttach
    /\ bracket' = [bracket EXCEPT ![s] =
           [id |-> nextId, symbol |-> s, qty |-> q,
            stop |-> StopPrice(ref), target |-> TargetPrice(ref)]]
    /\ nextId' = nextId + 1
    /\ wasFlat' = IF held[s] = 0 THEN wasFlat \cup {nextId} ELSE wasFlat
    /\ UNCHANGED <<history, market, orders, pc, frame, faults, faulted>>

\* DELETE /brackets/{symbol}
Cancel(s) ==
    /\ IsActive(s)
    /\ history' = Retired(s, "CANCELLED", 0)
    /\ bracket' = [bracket EXCEPT ![s] = NoBracket]
    /\ UNCHANGED <<nextId, market, orders, pc, frame, faults, faulted, wasFlat>>

-----------------------------------------------------------------------------
(* A tick.                                                                 *)

Goto(t, label, f) ==
    /\ pc' = [pc EXCEPT ![t] = label]
    /\ frame' = [frame EXCEPT ![t] = f]

\* The tick f with only the brackets todo left to evaluate.
Rest(f, todo) ==
    [IdleFrame EXCEPT !.todo = todo,
                      !.pos = [s \in Symbols |->
                          IF \E b \in todo : b.symbol = s THEN f.pos[s] ELSE NoQuote]]

\* Mark bracket b of tick f, order o being the sell that was placed.
GotoMark(t, f, b, status, o) ==
    Goto(t, "mark", [Rest(f, f.todo) EXCEPT !.cur = b, !.mark = status, !.order = o])

\* brackets = self.store.active()
StartTick(t) ==
    /\ pc[t] = "idle"
    /\ \E s \in Symbols : IsActive(s)
    /\ Goto(t, "positions",
            [IdleFrame EXCEPT !.todo = {bracket[s] : s \in {x \in Symbols : IsActive(x)}}])
    /\ UNCHANGED <<store, market, orders, faults, faulted, wasFlat>>

\* positions = self._live_positions()
ReadPositions(t) ==
    /\ pc[t] = "positions"
    /\ Goto(t, "each", [frame[t] EXCEPT !.pos = Positions])
    /\ UNCHANGED <<store, market, orders, faults, faulted, wasFlat>>

\* _live_positions answers {} when the broker call fails.
ReadNoPositions(t) ==
    /\ pc[t] = "positions"
    /\ "outage" \in FaultKinds /\ faults < MaxFaults
    /\ faults' = faults + 1
    /\ Goto(t, "each", frame[t])
    /\ UNCHANGED <<store, market, orders, faulted, wasFlat>>

Taking(t, b) ==
    /\ pc[t] = "each"
    /\ b \in frame[t].todo

Without(t, b) == Rest(frame[t], frame[t].todo \ {b})

\* No position: retire the bracket.
FindGone(t, b) ==
    /\ Taking(t, b)
    /\ frame[t].pos[b.symbol].qty <= 0
    /\ GotoMark(t, Without(t, b), b, "CLOSED_NO_POSITION", 0)
    /\ UNCHANGED <<store, market, orders, faults, faulted, wasFlat>>

\* No quote, or between the levels: nothing to do for this bracket.
FindQuiet(t, b) ==
    LET q == frame[t].pos[b.symbol] IN
    /\ Taking(t, b)
    /\ q.qty > 0
    /\ ~Touches(b, q.last)
    /\ Goto(t, "each", Without(t, b))
    /\ UNCHANGED <<store, market, orders, faults, faulted, wasFlat>>

\* A level is touched: wait for the regular session with a fractional lot,
\* else go and sell, in the extended session when the regular one is closed.
FindHit(t, b) ==
    LET q == frame[t].pos[b.symbol]
        n == SellQty(b, q)
    IN
    /\ Taking(t, b)
    /\ q.qty > 0
    /\ Touches(b, q.last)
    /\ IF ~sessionOpen /\ IsFractional(n)
       THEN GotoMark(t, Without(t, b), b, "ACTIVE", 0)
       ELSE Goto(t, "preview",
                 [Without(t, b) EXCEPT !.cur = b, !.seen = q, !.qty = n,
                                       !.hit = HitOf(b, q.last), !.ext = ~sessionOpen])
    /\ UNCHANGED <<store, market, orders, faults, faulted, wasFlat>>

EndTick(t) ==
    /\ pc[t] = "each"
    /\ frame[t].todo = {}
    /\ Goto(t, "idle", IdleFrame)
    /\ UNCHANGED <<store, market, orders, faults, faulted, wasFlat>>

\* place: the preview and the notional cap.  The kill switch before it, and the
\* unlocking after it, stay as the operator has set them; an order that either
\* refuses goes the way of one over the cap.
Preview(t) ==
    /\ pc[t] = "preview"
    /\ IF WithinCap(frame[t])
       THEN Goto(t, "place", frame[t])
       ELSE GotoMark(t, frame[t], frame[t].cur, AfterFailure(frame[t]), 0)
    /\ UNCHANGED <<store, market, orders, faults, faulted, wasFlat>>

\* The broker does not answer the preview's positions().  _est_notional makes
\* do without a price, and the cap with it; preview itself fails.
PreviewOutage(t) ==
    /\ pc[t] = "preview"
    /\ "outage" \in FaultKinds /\ faults < MaxFaults
    /\ faults' = faults + 1
    /\ \/ ~frame[t].ext /\ Goto(t, "place", frame[t])
       \/ GotoMark(t, frame[t], frame[t].cur, AfterFailure(frame[t]), 0)
    /\ UNCHANGED <<store, market, orders, faulted, wasFlat>>

\* The broker takes the order.
Submit(t) ==
    LET f == frame[t] IN
    /\ BrokerAccepts(f)
    /\ orders' = Append(orders,
           [symbol |-> f.cur.symbol, bracket |-> f.cur.id, ticker |-> t,
            qty |-> f.qty, market |-> ~f.ext, working |-> TRUE])
    /\ frozen' = [frozen EXCEPT ![f.cur.symbol] = @ + f.qty]
    /\ UNCHANGED <<sessionOpen, held, price>>

Place(t) ==
    /\ pc[t] = "place"
    /\ Submit(t)
    /\ GotoMark(t, frame[t], frame[t].cur, AfterSell(frame[t]), Len(orders) + 1)
    /\ UNCHANGED <<store, faults, faulted, wasFlat>>

\* The broker refuses the order.
PlaceRefused(t) ==
    /\ pc[t] = "place"
    /\ ~BrokerAccepts(frame[t])
    /\ GotoMark(t, frame[t], frame[t].cur, AfterFailure(frame[t]), 0)
    /\ UNCHANGED <<store, market, orders, faults, faulted, wasFlat>>

\* The broker does not answer and has not taken the order.
PlaceOutage(t) ==
    /\ pc[t] = "place"
    /\ "outage" \in FaultKinds /\ faults < MaxFaults
    /\ faults' = faults + 1
    /\ GotoMark(t, frame[t], frame[t].cur, AfterFailure(frame[t]), 0)
    /\ UNCHANGED <<store, market, orders, faulted, wasFlat>>

\* The broker takes the order and the answer is lost.
PlaceLost(t) ==
    /\ pc[t] = "place"
    /\ "lost" \in FaultKinds /\ faults < MaxFaults
    /\ faults' = faults + 1
    /\ Submit(t)
    /\ faulted' = faulted \cup {frame[t].cur.id}
    /\ GotoMark(t, frame[t], frame[t].cur, AfterFailure(frame[t]), 0)
    /\ UNCHANGED <<store, wasFlat>>

\* store._mark(b, ...): it finds the row by symbol and ACTIVE status, so it
\* marks whichever bracket the symbol has by now.
Mark(t) ==
    LET f == frame[t]
        s == f.cur.symbol
    IN
    /\ pc[t] = "mark"
    /\ IF IsActive(s)
       THEN /\ bracket' = [bracket EXCEPT ![s] = AfterMark(s, f.mark)]
            /\ history' = IF f.mark = "ACTIVE" THEN history ELSE Retired(s, f.mark, f.order)
       ELSE UNCHANGED <<bracket, history>>
    /\ Goto(t, "each", Rest(f, f.todo))
    /\ UNCHANGED <<nextId, market, orders, faults, faulted, wasFlat>>

\* The write fails and the file stays as it was.  After a sell the handler's
\* own _mark(ACTIVE) may work, otherwise the exception ends the tick.
MarkFails(t) ==
    LET f == frame[t] IN
    /\ pc[t] = "mark"
    /\ "save" \in FaultKinds /\ faults < MaxFaults
    /\ faults' = faults + 1
    /\ \/ f.mark \in Fired /\ Goto(t, "each", Rest(f, f.todo))
       \/ Goto(t, "idle", IdleFrame)
    /\ faulted' = IF f.mark \in Fired THEN faulted \cup {f.cur.id} ELSE faulted
    /\ UNCHANGED <<store, market, orders, wasFlat>>

\* The process dies and restarts: the file and the broker keep their state.
Crash ==
    /\ "crash" \in FaultKinds /\ faults < MaxFaults
    /\ \E t \in Tickers : pc[t] # "idle"
    /\ faults' = faults + 1
    /\ pc' = [t \in Tickers |-> "idle"]
    /\ frame' = [t \in Tickers |-> IdleFrame]
    /\ faulted' = faulted \cup
           {frame[t].cur.id : t \in {x \in Tickers : pc[x] = "mark" /\ frame[x].mark \in Fired}}
    /\ UNCHANGED <<store, market, orders, wasFlat>>

-----------------------------------------------------------------------------
(* The market, the broker, and the owner trading elsewhere.                *)

PriceMoves(s, p) ==
    /\ price[s] # p
    /\ price' = [price EXCEPT ![s] = p]
    /\ UNCHANGED <<store, sessionOpen, held, frozen, orders, pc, frame, faults, faulted, wasFlat>>

SessionTurns ==
    /\ sessionOpen' = ~sessionOpen
    /\ UNCHANGED <<store, held, frozen, price, orders, pc, frame, faults, faulted, wasFlat>>

\* The holding of s becomes n.
Holding(s, n) ==
    /\ held' = [held EXCEPT ![s] = n]
    /\ wasFlat' = IF n = 0 /\ IsActive(s) THEN wasFlat \cup {bracket[s].id} ELSE wasFlat

OwnerBuys(s) ==
    /\ held[s] < MaxHeld
    /\ Holding(s, held[s] + 1)
    /\ UNCHANGED <<store, sessionOpen, frozen, price, orders, pc, frame, faults, faulted>>

OwnerSells(s) ==
    /\ Sellable(s) > 0
    /\ Holding(s, held[s] - 1)
    /\ UNCHANGED <<store, sessionOpen, frozen, price, orders, pc, frame, faults, faulted>>

OrderEnds(o) ==
    /\ o \in DOMAIN orders
    /\ orders[o].working
    /\ orders' = [orders EXCEPT ![o].working = FALSE]
    /\ frozen' = [frozen EXCEPT ![orders[o].symbol] = @ - orders[o].qty]
    /\ UNCHANGED <<store, sessionOpen, price, pc, frame, faults, faulted>>

\* The order is cancelled at the broker.
OrderCancelled(o) == OrderEnds(o) /\ UNCHANGED <<held, wasFlat>>

\* The order trades: a MARKET one in the regular session.
OrderFills(o) ==
    /\ OrderEnds(o)
    /\ orders[o].market => sessionOpen
    /\ Holding(orders[o].symbol, held[orders[o].symbol] - orders[o].qty)

-----------------------------------------------------------------------------

Init ==
    /\ bracket = [s \in Symbols |-> NoBracket]
    /\ history = <<>>
    /\ nextId = 1
    /\ sessionOpen \in BOOLEAN
    /\ held = [s \in Symbols |-> 0]
    /\ frozen = [s \in Symbols |-> 0]
    /\ price = [s \in Symbols |-> 0]
    /\ orders = <<>>
    /\ pc = [t \in Tickers |-> "idle"]
    /\ frame = [t \in Tickers |-> IdleFrame]
    /\ faults = 0
    /\ faulted = {}
    /\ wasFlat = {}

Request ==
    \E s \in Symbols : Cancel(s) \/ \E q \in Quantities, ref \in References : Attach(s, q, ref)

\* The steps of a ticker that do not need a fault.
Step(t) ==
    \/ StartTick(t) \/ ReadPositions(t) \/ EndTick(t)
    \/ \E b \in frame[t].todo : FindGone(t, b) \/ FindQuiet(t, b) \/ FindHit(t, b)
    \/ Preview(t) \/ Place(t) \/ PlaceRefused(t) \/ Mark(t)

Fault ==
    \/ \E t \in Tickers :
           \/ ReadNoPositions(t) \/ PreviewOutage(t) \/ PlaceOutage(t)
           \/ PlaceLost(t) \/ MarkFails(t)
    \/ Crash

World ==
    \/ SessionTurns
    \/ \E s \in Symbols : OwnerBuys(s) \/ OwnerSells(s) \/ \E p \in Prices : PriceMoves(s, p)
    \/ \E o \in OrderIds : OrderCancelled(o) \/ OrderFills(o)

Next == Request \/ (\E t \in Tickers : Step(t)) \/ Fault \/ World

Spec == Init /\ [][Next]_vars

\* _sltp_loop never stops, and nothing it waits for can hold it for ever: the
\* store's lock and the broker's are released by every call.
FairSpec == Spec /\ WF_vars(Step(Loop))

-----------------------------------------------------------------------------
(* What should hold.                                                       *)

\* Every variable has its type, and the file keeps no more history than
\* _MAX_HISTORY rows.
TypeOK ==
    /\ bracket \in [Symbols -> Brackets \cup {NoBracket}]
    /\ history \in Seq(Rows) /\ Len(history) <= MaxHistory
    /\ nextId \in 1..(MaxAttach + 1)
    /\ sessionOpen \in BOOLEAN
    /\ held \in [Symbols -> Int]
    /\ frozen \in [Symbols -> Int]
    /\ price \in [Symbols -> Int]
    /\ orders \in Seq(Orders)
    /\ pc \in [Tickers -> Labels]
    /\ frame \in [Tickers -> Frames]
    /\ faults \in 0..MaxFaults
    /\ faulted \subseteq BracketIds
    /\ wasFlat \subseteq BracketIds

\* One thread sells twice for one bracket only if it could not record the first
\* sell: the answer was lost, the file could not be written, the process died.
\* tick retires the bracket by symbol while attach and cancel replace it, and
\* other tickers hold old copies of it.
RepeatOnlyAfterFault ==
    \A o1, o2 \in DOMAIN orders :
        /\ o1 # o2
        /\ orders[o1].bracket = orders[o2].bracket
        /\ orders[o1].ticker = orders[o2].ticker
        => orders[o1].bracket \in faulted

\* A row that says it fired names a real sell of its symbol, made for it or for
\* a bracket it replaced, and no two rows name the same one, whatever tick,
\* attach and cancel do in between.
FiredRowsNameTheirSell ==
    \A i \in DOMAIN history : history[i].status \in Fired =>
        /\ history[i].order \in DOMAIN orders
        /\ orders[history[i].order].symbol = history[i].symbol
        /\ orders[history[i].order].bracket <= history[i].id
        /\ \A j \in DOMAIN history \ {i} : history[j].order # history[i].order

\* "The owner closed the position elsewhere; retire the bracket" (sltp.py:303):
\* the shares of a bracket retired as CLOSED_NO_POSITION were gone at some time
\* since it was attached.
ClosesOnlyWhatIsGone ==
    \A i \in DOMAIN history :
        history[i].status = "CLOSED_NO_POSITION" => history[i].id \in wasFlat

\* A bracket does not stay ACTIVE for ever while its level is touched in the
\* regular session, its shares can be sold and the order is within the cap: the
\* monitor tries again after every failure (_sltp_loop, _mark(b, ACTIVE)).
MustFire(s) ==
    LET b == bracket[s] IN
    /\ IsActive(s)
    /\ sessionOpen
    /\ price[s] > 0 /\ (price[s] <= b.stop \/ price[s] >= b.target)
    /\ Sellable(s) >= b.qty
    /\ price[s] * b.qty <= MaxNotional
    /\ Len(orders) < MaxOrders
TouchedLevelFires == \A s \in Symbols : ~ <>[]MustFire(s)

=============================================================================
