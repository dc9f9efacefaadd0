---------------------------- MODULE MCMoomooSltp ---------------------------
(* Small instances of MoomooSltp for TLC. *)
EXTENDS MoomooSltp, TLC

CONSTANTS loop, req, aa, bb

OneTicker == {loop}
TwoTickers == {loop, req}
OneSymbol == {aa}

\* Tickers are interchangeable where no fairness singles out the loop.
TickerSymmetry == Permutations(TwoTickers)

\* The state without the history variable of ClosesOnlyWhatIsGone.
WithoutFlat == <<store, market, orders, pc, frame, faults, faulted>>

=============================================================================
