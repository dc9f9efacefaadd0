------------------------------- MODULE Radar -------------------------------
(***************************************************************************)
(* What the radar and the rotation make of a market's screen: its          *)
(* opportunities, the candidates for a multibagger among them, and where   *)
(* the market stands (radar/service.py, rotation/service.py).              *)
(* Scores, ranks and shares are in hundredths of a point.                  *)
(***************************************************************************)
EXTENDS Screening

\* Of equal values the earlier one ranks lower.
PercentileRanks(values) ==
    LET below(i) == {j \in DOMAIN values : values[j] < values[i] \/ (values[j] = values[i] /\ j < i)}
    IN [i \in DOMAIN values |->
          IF Len(values) = 1 THEN P(100) ELSE (P(100) * Cardinality(below(i))) \div (Len(values) - 1)]

Advancing(rows) == Cardinality({i \in DOMAIN rows : rows[i].change > 0})

RegimeFactor(regime) == P(CASE regime = "BULL" -> 100 [] regime = "BEAR" -> 25 [] OTHER -> 60)

\* _opportunities_for of a screen's rows, best first.  A row is kept for what it
\* says of its own liquidity.
Opportunities(screened) ==
    LET rows == Passing(screened, LAMBDA r : ~r.illiquid /\ r.live)
        regime == RegimeFromBreadth(Advancing(rows), Len(rows))
        strength == PercentileRanks([i \in DOMAIN rows |-> rows[i].change])
        liquidity == PercentileRanks([i \in DOMAIN rows |-> rows[i].today])
        opportunity(i) ==
            [row |-> rows[i], place |-> i, regime |-> regime, strength |-> strength[i],
             rank |-> (55 * rows[i].score + 20 * strength[i] + 15 * liquidity[i]
                       + 10 * RegimeFactor(regime)) \div 100]
        better(a, b) == a.rank > b.rank \/ (a.rank = b.rank /\ a.place < b.place)
    IN Ranked({opportunity(i) : i \in DOMAIN rows}, better)

IsMultibagger(o) ==
    o.row.score > P(85) /\ o.strength >= P(60) /\ o.regime = "BULL" /\ o.row.today > 0

Top20(s) == SubSeq(s, 1, Min({20, Len(s)}))

Multibaggers(opportunities) == Top20(Passing(opportunities, IsMultibagger))

Recommendation(o) ==
    CASE o.row.signal = "BUY" /\ o.row.score >= P(85) -> "Strong Buy"
      [] o.row.signal = "BUY" /\ o.row.score < P(85) -> "Buy"
      [] o.row.signal = "SELL" -> "Avoid / Reduce"
      [] o.row.signal = "HOLD" -> "Watch"

-----------------------------------------------------------------------------
\* The share of count in a soft cap.
Counted(count, cap) == Min({P(100), (P(100) * count) \div cap})

\* _market_rotation: the score of the market.
RotationScore(opportunities) ==
    LET n == Len(opportunities)
        top == Top20(opportunities)
        withScore(least) == Cardinality({i \in 1..n : opportunities[i].row.score >= P(least)})
        average == SumFunction([i \in DOMAIN top |-> top[i].row.score]) \div Len(top)
        breadth == (P(100) * Cardinality({i \in 1..n : opportunities[i].row.change > 0})) \div n
    IN IF n = 0 THEN 0
       ELSE Clamp((40 * average + 20 * Counted(withScore(85), 12) + 15 * Counted(withScore(90), 6)
                   + 15 * breadth + 10 * RegimeFactor(opportunities[1].regime)) \div 100)

Stance(opportunities) ==
    LET score == RotationScore(opportunities)
        elite == \E i \in DOMAIN opportunities : opportunities[i].row.score >= P(90)
    IN IF opportunities # <<>> /\ opportunities[1].regime = "BEAR" /\ ~elite THEN "AVOID"
       ELSE IF score >= P(80) THEN "OVERWEIGHT"
       ELSE IF score >= P(60) THEN "NEUTRAL"
       ELSE "UNDERWEIGHT"

-----------------------------------------------------------------------------
\* The radar asks for the snapshot of all stocks, or a page of it.
Board == Opportunities(Slice(Finalize(Screened, MaxLimit, 0, {}, 0), MaxLimit, 0, {}).matches)

\* "Illiquid names are never opportunities": one is only if another stock was scored
\* before its row read the engine's attribute, and it is never recommended then, nor
\* called a multibagger, which takes a turnover without a cap; nor is a downtrend
\* ever recommended, whatever its turnover.  A market that only has capped
\* opportunities is at most underweight.
RadarIsInvestable ==
    Complete =>
        LET traded(o) == ValueTraded(profile[o.row.at])
            shown == Range(Board)
        IN /\ \A o \in shown :
                /\ Illiquid(profile[o.row.at]) => o.row.contested
                /\ Recommendation(o) \in {"Buy", "Strong Buy"} =>
                       ~Illiquid(profile[o.row.at]) /\ profile[o.row.at].stack # "bear"
           /\ \A o \in Range(Multibaggers(Board)) : LiquidityCapFor(traded(o)) = P(100)
           /\ (\A o \in shown : LiquidityCapFor(traded(o)) < P(100)) =>
                  Stance(Board) \in {"UNDERWEIGHT", "AVOID"}

=============================================================================
