--------------------------- MODULE MomentumSleeve ---------------------------
(***************************************************************************)
(* The owner's live Moomoo account and the momentum strategy in it:        *)
(* MoomooService.preview and place (moomoo/service.py), the strategy's     *)
(* ledger (momentum/ledger.py), and the basket buy and the rebalance        *)
(* preview (momentum/router.py).                                           *)
(*                                                                         *)
(* An order is judged on the positions of the moment, sent under the       *)
(* service's lock, and entered in the ledger afterwards.  Prices, scores   *)
(* and the notional cap only refuse orders, so they are left out; a        *)
(* working order fills at any time, or never.                              *)
(***************************************************************************)
EXTENDS JsonFile, SequencesExt

CONSTANTS
    Names,      \* symbols
    MaxNames,   \* _max_positions
    MaxWorking  \* bound: working orders

ASSUME SleeveAssumption ==
    /\ "ledger" \in Files
    /\ {MaxNames, MaxWorking} \subseteq Nat \ {0}

VARIABLES
    account,   \* live positions, by name
    working,   \* orders that the broker has taken and not filled
    proposal,  \* what the last rebalance preview proposed to sell
    mine,      \* history: shares that filled orders of the strategy bought and not sold
    bought,    \* history: those of them bought by orders sent since its last SELL of the name
    buys,      \* history: its working BUYs sent since that SELL
    crossed,   \* history: two orders of the strategy were in flight at once
    lost       \* history: names of which an order was taken and its request then failed

market == <<account, working>>
sleeveHistory == <<mine, bought, buys, crossed, lost>>
sleeveVars == <<fileVars, market, proposal, sleeveHistory>>

Nothing == [n \in Names |-> 0]
Held == {n \in Names : account[n] > 0}

SleeveInit ==
    /\ FileInit
    /\ account \in {h \in [Names -> 0..1] : Cardinality({n \in Names : h[n] > 0}) < MaxNames}
    /\ working = {}
    /\ proposal = {}
    /\ mine = Nothing /\ bought = Nothing
    /\ buys = {} /\ crossed = FALSE /\ lost = {}

(******************************* orders, place ******************************)

\* One order; only a single order may carry the strategy's tag.
StartOrder(t) ==
    /\ \E n \in Names, side \in {"BUY", "SELL"}, momentum \in BOOLEAN :
         Begin(t, "preview", [op |-> "place", side |-> side, legs |-> <<n>>,
                                  momentum |-> momentum, request |-> requests + 1])
    /\ UNCHANGED sleeveVars

\* basket_buy places its legs one by one, and does not say that they are momentum's.
StartBasket(t) ==
    /\ \E n, m \in Names :
         n # m /\ Begin(t, "preview", [op |-> "place", side |-> "BUY", legs |-> <<n, m>>,
                                           momentum |-> FALSE, request |-> requests + 1])
    /\ UNCHANGED sleeveVars

\* Fault: the ledger is kept whatever the broker answered.
EnterRefused(t) ==
    IF Len(frame[t].legs) > 1 THEN Go(t, "preview", [frame[t] EXCEPT !.legs = Tail(@)])
    ELSE IF frame[t].momentum THEN Go(t, "enter", frame[t])
    ELSE Done(t)

\* One leg refused or failed does not stop the next.
NextLeg(t) ==
    IF Len(frame[t].legs) = 1 THEN Done(t)
    ELSE Go(t, "preview", [frame[t] EXCEPT !.legs = Tail(@)])

\* A BUY that would open a name beyond the cap; adding to a held one never trips it.
AtPositionCap(side, n) == side = "BUY" /\ n \notin Held /\ Cardinality(Held) >= MaxNames

\* A positions error, the notional cap or a low score refuse an order as well.
PreviewLeg(t) ==
    /\ At(t, "preview")
    /\ \/ NextLeg(t)
       \/ ~AtPositionCap(frame[t].side, Head(frame[t].legs)) /\ Go(t, "send", frame[t])
    /\ UNCHANGED sleeveVars

\* A strategy's order that the broker has and the ledger does not know of yet.
Entering(t) == pc[t] \in {"enter", "open", "write", "replace"} /\ frame[t].op = "place"
BeingEntered(n) == \E t \in Threads : Entering(t) /\ Head(frame[t].legs) = n

\* The broker takes the order or refuses it, and an answer may be lost; a SELL needs
\* the shares.  Then the ledger's turn, when the order is the strategy's.
Send(t) ==
    /\ At(t, "send")
    /\ LET f == frame[t]
           n == Head(f.legs)
           order == [name |-> n, side |-> f.side, momentum |-> f.momentum, request |-> f.request]
       IN \/ NextLeg(t) /\ UNCHANGED <<working, bought, buys, crossed, lost>>
          \/ /\ f.side = "SELL" => n \in Held
             /\ Cardinality(working) < MaxWorking
             /\ working' = working \cup {order}
             /\ buys' = IF ~f.momentum THEN buys
                        ELSE IF f.side = "BUY" THEN buys \cup {order} ELSE {w \in buys : w.name # n}
             /\ bought' = IF f.momentum /\ f.side = "SELL" THEN [bought EXCEPT ![n] = 0] ELSE bought
             /\ crossed' = (crossed \/ (f.momentum /\ \E o \in Threads : Entering(o)))
             /\ \/ /\ lost' = IF f.momentum THEN lost \cup {n} ELSE lost
                   /\ NextLeg(t)
                \/ /\ UNCHANGED lost
                   /\ IF f.momentum THEN Go(t, "enter", f) ELSE NextLeg(t)
    /\ UNCHANGED <<fileVars, account, proposal, mine>>

\* record_buy adds the shares, record_sell drops the whole name.
Recorded(ledger, side, n) == [ledger EXCEPT ![n] = IF side = "BUY" THEN @ + 1 ELSE 0]

\* A sale of a name that is not there saves nothing.
EnterLedger(t) ==
    /\ At(t, "enter")
    /\ LET f == frame[t]
           n == Head(f.legs)
           ledger == Load("ledger", Nothing)
       IN IF f.side = "SELL" /\ ledger[n] = 0 THEN Done(t)
          ELSE Go(t, "open", [op |-> "place", legs |-> f.legs, file |-> "ledger",
                            data |-> Recorded(ledger, f.side, n)])
    /\ UNCHANGED sleeveVars

\* An order fills; each is for one share.
Fill ==
    /\ \E w \in working :
         /\ w.side = "SELL" => account[w.name] > 0
         /\ LET change == IF w.side = "BUY" THEN 1 ELSE -1 IN
              /\ account' = [account EXCEPT ![w.name] = @ + change]
              /\ mine' = IF w.momentum THEN [mine EXCEPT ![w.name] = @ + change] ELSE mine
         /\ bought' = IF w \in buys THEN [bought EXCEPT ![w.name] = @ + 1] ELSE bought
         /\ working' = working \ {w} /\ buys' = buys \ {w}
    /\ UNCHANGED <<pool, fileVars, proposal, crossed, lost>>

\* The ledger is not told that an order was cancelled.
CancelOrder(t) ==
    /\ \E w \in working : working' = working \ {w} /\ buys' = buys \ {w}
    /\ Begin(t, "idle", NoFrame)
    /\ UNCHANGED <<fileVars, account, proposal, mine, bought, crossed, lost>>

(********************************* rebalance ********************************)

\* The day's top N and the names of the ledger, then the live positions; without
\* those nothing is owned.
StartRebalance(t) ==
    /\ LET ledger == Load("ledger", Nothing) IN
         \E top \in SUBSET Names : Begin(t, "positions", [op |-> "rebalance", top |-> top, names |-> {n \in Names : ledger[n] > 0}])
    /\ UNCHANGED sleeveVars

\* GET holdings reads the ledger and then the live positions, and changes nothing;
\* so does GET sleeves before it records the values.
StartHoldings(t) ==
    /\ LET ledger == Load("ledger", Nothing) IN
         Begin(t, "positions", [op |-> "holdings", names |-> {n \in Names : ledger[n] > 0}])
    /\ UNCHANGED sleeveVars

ShowHoldings(t) == At(t, "positions") /\ frame[t].op = "holdings" /\ Done(t) /\ UNCHANGED sleeveVars

\* Sells the whole live position of each owned name that left the top N.
ProposeSells(t) ==
    /\ At(t, "positions") /\ frame[t].op = "rebalance"
    /\ \E owned \in {{}, frame[t].names \cap Held} :
         proposal' = {[name |-> n, shares |-> account[n], mine |-> mine[n]] : n \in owned \ frame[t].top}
    /\ Done(t)
    /\ UNCHANGED <<fileVars, market, sleeveHistory>>

SaveFile(t) == Save(t) /\ UNCHANGED <<market, proposal, sleeveHistory>>

\* The process restarts: requests are gone, the files are as they were left.
SleeveRestart ==
    /\ \E t \in Threads : ~At(t, "idle")
    /\ pc' = [t \in Threads |-> "idle"]
    /\ frame' = [t \in Threads |-> NoFrame]
    /\ handle' = [t \in Threads |-> Closed]
    /\ lost' = lost \cup {n \in Names : BeingEntered(n)}
    /\ UNCHANGED <<requests, disk, temp, shared, market, proposal,
                   mine, bought, buys, crossed>>

SleeveNext ==
    \/ Fill \/ SleeveRestart
    \/ \E t \in Threads :
         \/ StartOrder(t) \/ StartBasket(t) \/ PreviewLeg(t) \/ Send(t) \/ EnterLedger(t)
         \/ CancelOrder(t) \/ StartRebalance(t) \/ ProposeSells(t)
         \/ StartHoldings(t) \/ ShowHoldings(t)
         \/ SaveFile(t)

SleeveSpec == PoolInit /\ SleeveInit /\ [][SleeveNext]_<<pool, sleeveVars>>

-----------------------------------------------------------------------------

\* The ledger never forgets a share: whatever the strategy's orders, sent since its last
\* SELL of a name, have bought is in the ledger, however the orders fill, are refused or
\* fail, unless the purchase is still being entered, its request was lost, or two orders
\* of the strategy crossed.  The ledger may hold more: it counts a BUY as the broker takes
\* it, and that BUY may be cancelled or never fill, although the ledger's module calls its
\* figures the net shares bought.
NoShareForgotten ==
    crossed \/ \A n \in Names : \/ n \in lost \/ BeingEntered(n)
                                \/ bought[n] <= Load("ledger", Nothing)[n]

\* The docstring of the rebalance preview: the shares of other strategies are never
\* proposed for sale.  (They are: a leg sells the whole live position of its name.)
SellsOnlyItsOwn == \A leg \in proposal : leg.shares <= leg.mine

=============================================================================
