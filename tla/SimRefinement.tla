--------------------------- MODULE SimRefinement ----------------------------
(***************************************************************************)
(* SimPortfolio, served by one thread that does not crash, implements the  *)
(* indivisible ledger of SimLedger.  The step that commits a fill is       *)
(* update_account: until then the position it wrote already and the        *)
(* FILLED mark of its order do not show.                                   *)
(***************************************************************************)
EXTENDS SimPortfolio

\* The order a thread has marked but not yet paid for.
InFlight(t) == Filling(t) /\ pc[t] # "log"

\* A legacy balance means nothing: the ledger starts with its migration.
LedgerCash == IF account.legacy THEN InitialCash ELSE account.cash

LedgerShares ==
    [s \in Symbols |->
        IF \E t \in Threads : pc[t] = "debit" /\ frame[t].fill.sym = s
        THEN frame[CHOOSE t \in Threads : pc[t] = "debit"].held.qty
        ELSE position[s].qty]

LedgerBook ==
    [o \in OrderIds |->
        IF \E t \in Threads : InFlight(t) /\ frame[t].fill.order = o
        THEN "PENDING"
        ELSE status[o]]

Ledger == INSTANCE SimLedger WITH
    cash <- LedgerCash, shares <- LedgerShares, book <- LedgerBook,
    orders <- ticket, bars <- cached

\* Every fill, rejection, cancellation, queueing and reset of the portfolio,
\* with the several store calls each is made of, has the effect of one step.
ImplementsLedger == Ledger!Spec
=============================================================================
