------------------------------ MODULE Journal -------------------------------
(***************************************************************************)
(* The trade journal (backend/app/journal) behind the simulation's order   *)
(* endpoint.  An order that is filled as it is placed starts a detached    *)
(* daemon thread that journals it: a BUY looks scores up, slowly, and adds *)
(* an entry, a SELL closes whole entries, oldest first.  The threads of    *)
(* two orders run in any order, and a restart drops those that have not    *)
(* written yet.  An order that waits for the open is journalled neither    *)
(* when it is queued nor when it settles, and a reset of the account       *)
(* leaves the journal as it is.                                            *)
(*                                                                         *)
(* One user and one symbol: the table is keyed by both.                    *)
(***************************************************************************)
EXTENDS Integers, Sequences, FiniteSets, SequencesExt

CONSTANTS
    Quantities, Prices,  \* of an order
    MaxTrades            \* bound: changes of the position

ASSUME JournalAssumption ==
    /\ Quantities \subseteq Nat \ {0} /\ Prices \subseteq Nat /\ MaxTrades \in Nat

VARIABLES
    held,      \* the simulation's position
    trades,    \* orders filled as they were placed, in order
    hooks,     \* those of them whose daemon thread has not written yet
    entries,   \* table journal_entries, in id order
    changes,   \* changes of the position, counted
    gone,      \* history: shares that left the position without a hook
    disorder   \* history: a hook overtook an earlier one, or was lost

journalVars == <<held, trades, hooks, entries, changes, gone, disorder>>

IsOpen(e) == e.status = "OPEN"
OpenIds(rows) == {i \in DOMAIN rows : IsOpen(rows[i])}
Amount(rows, ids) == MapThenSumSet(LAMBDA i : rows[i].quantity, ids)

JournalInit ==
    /\ held = 0 /\ changes = 0 /\ gone = 0
    /\ trades = <<>> /\ hooks = {} /\ entries = <<>> /\ disorder = FALSE

\* A fill, of an order just placed or at the open: only what is held can be sold.
Filled(side, q) ==
    /\ changes < MaxTrades
    /\ changes' = changes + 1
    /\ side = "SELL" => q <= held
    /\ held' = IF side = "BUY" THEN held + q ELSE held - q

\* POST /v1/sim/order/place, filled at once: its hook starts.
Trade ==
    /\ \E side \in {"BUY", "SELL"}, q \in Quantities, p \in Prices :
         /\ Filled(side, q)
         /\ trades' = Append(trades, [side |-> side, quantity |-> q, price |-> p])
    /\ hooks' = hooks \cup {Len(trades) + 1}
    /\ UNCHANGED <<entries, gone, disorder>>

\* A queued order settles: a read of the account fills it, and nothing is journalled.
SettleQueued ==
    /\ \E side \in {"BUY", "SELL"}, q \in Quantities :
         /\ Filled(side, q)
         /\ gone' = IF side = "SELL" THEN gone + q ELSE gone
    /\ UNCHANGED <<trades, hooks, entries, disorder>>

\* POST /v1/sim/reset drops the positions, and not the journal.
ResetAccount ==
    /\ changes < MaxTrades
    /\ changes' = changes + 1
    /\ held' = 0
    /\ gone' = gone + held
    /\ UNCHANGED <<trades, hooks, entries, disorder>>

Overtakes(n) == \E k \in hooks : k < n

JournalBuy(n) ==
    /\ n \in hooks /\ trades[n].side = "BUY"
    /\ entries' = Append(entries, [quantity |-> trades[n].quantity, price |-> trades[n].price,
                                   status |-> "OPEN", soldFor |-> 0, by |-> 0])
    /\ hooks' = hooks \ {n}
    /\ disorder' = (disorder \/ Overtakes(n))
    /\ UNCHANGED <<held, trades, changes, gone>>

\* What the open entries before i, oldest first, take from the quantity sold.
Before(i) == Amount(entries, {j \in OpenIds(entries) : j < i})

\* Fault: the latest entry is closed first.
ClosesLatest(n, i) == IsOpen(entries[i]) /\ Amount(entries, {j \in OpenIds(entries) : j > i}) < trades[n].quantity

\* close_sell: an entry is closed whole while some of the sale is left.
Closes(n, i) == IsOpen(entries[i]) /\ Before(i) < trades[n].quantity

JournalSell(n) ==
    /\ n \in hooks /\ trades[n].side = "SELL"
    /\ entries' = [i \in DOMAIN entries |->
                     IF Closes(n, i)
                     THEN [entries[i] EXCEPT !.status = "CLOSED", !.soldFor = trades[n].price, !.by = n]
                     ELSE entries[i]]
    /\ hooks' = hooks \ {n}
    /\ disorder' = (disorder \/ Overtakes(n))
    /\ UNCHANGED <<held, trades, changes, gone>>

\* A restart, or a hook that raises before it writes.
LoseHooks ==
    /\ hooks # {}
    /\ hooks' = {}
    /\ disorder' = TRUE
    /\ UNCHANGED <<held, trades, entries, changes, gone>>

JournalNext ==
    \/ Trade \/ SettleQueued \/ ResetAccount \/ LoseHooks
    \/ \E n \in 1..MaxTrades : JournalBuy(n) \/ JournalSell(n)

-----------------------------------------------------------------------------
\* Closing whole entries rounds a partial sale up.  Whatever order the hooks run in
\* and whichever of them are lost, the oldest entries go first: no open entry is older
\* than a closed one.  Once every hook has run, and in the order of its trade, the
\* journal shows no more shares open than the simulation holds, but for those that a
\* settled sale or a reset took: for these no hook runs, and the journal never learns
\* of them.
ClosedInOrder ==
    /\ \A i, j \in DOMAIN entries : i < j /\ ~IsOpen(entries[j]) => ~IsOpen(entries[i])
    /\ ~disorder /\ hooks = {} => Amount(entries, OpenIds(entries)) <= held + gone

=============================================================================
