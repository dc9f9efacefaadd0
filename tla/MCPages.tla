------------------------------- MODULE MCPages -------------------------------
(* Small instances of what the pages are served from. *)
EXTENDS Pages, TLC

\* Tuesday after the close, and before the open.
MCOpening == {[day |-> 1, phase |-> "POST"], [day |-> 1, phase |-> "PRE"]}

MCKeys == <<"dashboard", "radar">>

MCStocks == 1..2

\* A leader in an uptrend, and what its turnover may be.
Leader == [today |-> 200, avg |-> 150, volRatio |-> 25, stack |-> "bull", above |-> TRUE, above200 |-> TRUE,
           atHigh |-> TRUE, rsi |-> 60, macd |-> TRUE, roc |-> 7, adx |-> 30, atr |-> 25, change3 |-> 3,
           change |-> 2, gap |-> FALSE, micro |-> FALSE, flow |-> TRUE, cheap |-> FALSE, rs |-> 20, regime |-> "none"]
Thin == [Leader EXCEPT !.today = 900, !.avg = 3, !.cheap = TRUE, !.change3 = 1, !.rsi = 58]
Capped == [Leader EXCEPT !.today = 8, !.avg = 7, !.cheap = TRUE, !.change3 = 1, !.rsi = 58]
\* One day's spike in a downtrend.
Spike == [Leader EXCEPT !.stack = "bear", !.today = 900, !.avg = 600, !.volRatio = 31]

MCProfiles == {Thin, Capped, Spike, Leader}

MCNames == 1..2
MCHoldings == {[value |-> 3, gain |-> -1], [value |-> 19, gain |-> -1], [value |-> 84, gain |-> 24]}
\* Fallen through the upper of two tested levels to the lower one; and far above both.
MCPivots == <<930, 935, 1000, 1005>>
MCTapes == {[price |-> 945, pivots |-> MCPivots], [price |-> 1100, pivots |-> MCPivots]}
MCBreadths == {[advancing |-> 30, rows |-> 100], [advancing |-> 0, rows |-> 0]}
MCMatches == {[score |-> 92, signal |-> "BUY", change |-> 2, volume |-> 100],
              [score |-> 76, signal |-> "BUY", change |-> -20, volume |-> 20],
              [score |-> 60, signal |-> "HOLD", change |-> 10, volume |-> 100],
              [score |-> 40, signal |-> "SELL", change |-> -3, volume |-> 20]}

\* Threads are interchangeable.
MCSymmetry == Permutations(Threads)

===============================================================================
