----------------------------- MODULE SimLedger ------------------------------
(***************************************************************************)
(* What the paper-trading portfolio promises: a ledger whose every         *)
(* operation is one indivisible step.  A trade moves cash and shares       *)
(* together; a queued order leaves PENDING by exactly one of a fill, a     *)
(* rejection or a cancellation; a reset starts over.  The orders' columns   *)
(* and the bars are inputs, unconstrained at the start.                    *)
(*                                                                         *)
(* SimPortfolio carries each of these out in several commits.              *)
(***************************************************************************)
EXTENDS MarketSession, FiniteSetsExt

CONSTANTS Symbols, Fx, InitialCash, Quantities, Prices, OrderIds

VARIABLES
    cash,       \* the account's cash
    shares,     \* shares held of each symbol
    book,       \* the state of each order ever queued
    orders,     \* what each order asks for
    bars        \* the last daily bar known for each symbol

ledger == <<cash, shares, book, orders, bars>>

Init ==
    /\ cash = InitialCash
    /\ shares = [s \in Symbols |-> 0]
    /\ book = [o \in OrderIds |-> "NONE"]

Pending(side) == {o \in OrderIds : book[o] = "PENDING" /\ orders[o].side = side}

\* One purchase or sale, paid for out of cash or holdings.
Trade(s, side, q, p) ==
    LET value == q * p * Fx[s] IN
    \/ /\ side = "BUY" /\ value <= cash
       /\ cash' = cash - value
       /\ shares' = [shares EXCEPT ![s] = @ + q]
    \/ /\ side = "SELL" /\ q <= shares[s]
       /\ cash' = cash + value
       /\ shares' = [shares EXCEPT ![s] = @ - q]

Immediate ==
    /\ \E s \in Symbols, side \in {"BUY", "SELL"}, q \in Quantities, p \in Prices :
         Trade(s, side, q, p)
    /\ UNCHANGED <<book, orders, bars>>

Leave(o, state) == book[o] = "PENDING" /\ book' = [book EXCEPT ![o] = state]

\* A pending order trades once the bar of a later session is known.
Fill(o) ==
    /\ Leave(o, "FILLED")
    /\ NextWeekday(orders[o].date) <= bars[orders[o].sym]
    /\ \E p \in Prices : Trade(orders[o].sym, orders[o].side, orders[o].qty, p)
    /\ UNCHANGED <<orders, bars>>

\* ... or is dropped, when by then it cannot be afforded.
Reject(o) ==
    /\ Leave(o, "REJECTED")
    /\ IF orders[o].side = "BUY"
       THEN \E p \in Prices : orders[o].qty * p * Fx[orders[o].sym] > cash
       ELSE orders[o].qty > shares[orders[o].sym]
    /\ UNCHANGED <<cash, shares, orders, bars>>

Cancel(o) == Leave(o, "CANCELLED") /\ UNCHANGED <<cash, shares, orders, bars>>

\* A new order: a BUY sets cash aside that no other pending BUY counts on, a
\* SELL promises shares that no other pending SELL does.
Queue(o) ==
    /\ book[o] = "NONE"
    /\ book' = [book EXCEPT ![o] = "PENDING"]
    /\ \A i \in OrderIds \ {o} : orders'[i] = orders[i]
    /\ LET new == orders'[o] IN
         \/ /\ new.side = "BUY"
            /\ new.reserve + MapThenSumSet(LAMBDA i : orders[i].reserve,
                                           Pending("BUY")) <= cash
         \/ /\ new.side = "SELL"
            /\ new.qty + MapThenSumSet(LAMBDA i : orders[i].qty,
                  {i \in Pending("SELL") : orders[i].sym = new.sym})
                 <= shares[new.sym]
    /\ UNCHANGED <<cash, shares, bars>>

Restart ==
    /\ cash' = InitialCash
    /\ shares' = [s \in Symbols |-> 0]
    /\ book' = [o \in OrderIds |-> IF book[o] = "NONE" THEN "NONE" ELSE "DELETED"]
    /\ UNCHANGED <<orders, bars>>

NewBar ==
    /\ \E s \in Symbols :
         /\ bars'[s] > bars[s]
         /\ \A r \in Symbols \ {s} : bars'[r] = bars[r]
    /\ UNCHANGED <<cash, shares, book, orders>>

Next ==
    \/ Immediate
    \/ \E o \in OrderIds : Fill(o) \/ Reject(o) \/ Cancel(o) \/ Queue(o)
    \/ Restart
    \/ NewBar

Spec == Init /\ [][Next]_ledger
=============================================================================
