------------------------------ MODULE Scoring ------------------------------
(***************************************************************************)
(* The multi-factor score of a stock (backend/app/scoring.py) and the      *)
(* Explore overlay on it (backend/app/explore.py), as functions of what a  *)
(* stock's indicators tell.                                                *)
(*                                                                         *)
(* Scores are in hundredths of a point, turnovers in units of Rp100M (the  *)
(* tiers of the other markets are scaled), ratios and the ATR in tenths.   *)
(* Of an indicator the record keeps what the rules compare:                *)
(*   today, avg   turnover of the day and of 20 days, or NoData            *)
(*   volRatio     volume, and turnover, of the day over 20 days, or NoData *)
(*   stack        order of EMA20, EMA50, EMA200: "bull" falls from the     *)
(*                first, "bear" rises, "up" and "down" only say which of   *)
(*                the first two is higher                                  *)
(*   above, above200, atHigh   close above EMA20 and SMA20, above EMA200,  *)
(*                at the high of the year                                  *)
(*   rsi, roc, adx, atr, change3   numbers, the last one over three days   *)
(*   macd, flow   MACD above its signal; CMF, OBV and A/D all say inflow   *)
(*   gap, micro, cheap         a gap over 20%, a price below the minimum,  *)
(*                or below the ceiling of the cheap ones                   *)
(*   rs, regime   return over the index's, and the index's regime          *)
(***************************************************************************)
EXTENDS Integers, Sequences, FiniteSets, FiniteSetsExt

\* A number of points, or of percents, in hundredths.
P(points) == points * 100
NoData == -1
Neutral == P(50)
Clamp(p) == Max({0, Min({P(100), p})})

\* The points of the first band, a pair of a least value and points, that x reaches.
Banded(x, bands, otherwise) ==
    LET reached == {i \in DOMAIN bands : x >= bands[i][1]}
    IN P(IF reached = {} THEN otherwise ELSE bands[Min(reached)][2])

\* Of what compute_all returns, in the units above.
Indicators ==
    [today: Int, avg: Int, volRatio: Int, stack: {"bull", "up", "down", "bear"}, above: BOOLEAN,
     above200: BOOLEAN, atHigh: BOOLEAN, rsi: 0..100, macd: BOOLEAN, roc: Int, adx: 0..100, atr: Int,
     change3: Nat, change: Int, gap: BOOLEAN, micro: BOOLEAN, flow: BOOLEAN, cheap: BOOLEAN, rs: Int,
     regime: {"bull", "bear", "none"}]

Rising(ind) == ind.stack \in {"bull", "up"}
If(condition, points) == IF condition THEN P(points) ELSE 0

-----------------------------------------------------------------------------
\* Liquidity: linear between acceptable and weak, and below weak.
ValueTierPoints(turnover) ==
    CASE turnover <= 0 -> 0
      [] turnover \in 1..9 -> Max({P(5), (turnover * P(45)) \div 10})
      [] turnover \in 10..49 -> P(45) + ((turnover - 10) * P(25)) \div 40
      [] OTHER -> Banded(turnover, <<<<500, 100>>, <<100, 85>>>>, 70)

ExpansionPoints(ratio) ==
    IF ratio <= 0 THEN Neutral
    ELSE Banded(ratio, <<<<30, 100>>, <<20, 85>>, <<12, 70>>, <<8, 50>>>>, 25)

\* A quiet day does not count against a name whose average is high.
ParticipationScore(ind) ==
    LET today == ValueTierPoints(ind.today)
        average == ValueTierPoints(ind.avg)
        durable == IF ind.avg > 0 THEN Max({average, (today + average) \div 2}) ELSE today
    IN IF ind.today <= 0 /\ ind.avg <= 0 THEN 0
       ELSE Clamp((8 * durable + ExpansionPoints(ind.volRatio) + If(ind.avg > 0, 100)) \div 10)

VolumeExpansionScore(ind) == ExpansionPoints(ind.volRatio)

TrendScore(ind) ==
    LET alignment == [bull |-> 100, up |-> 70, down |-> 30, bear |-> 0]
    IN Clamp(P(alignment[ind.stack]) + If(ind.above200, 10) + If(ind.atHigh, 15))

MomentumScore(ind) ==
    LET ofRsi == Banded(ind.rsi, <<<<86, -25>>, <<81, -10>>, <<71, 5>>, <<55, 20>>,
                                   <<50, 10>>, <<40, -5>>, <<30, 0>>>>, -10)
        ofRoc == Banded(ind.roc, <<<<6, 10>>, <<1, 5>>, <<-5, -5>>>>, -10)
        ofAdx == Banded(ind.adx, <<<<25, 10>>, <<20, 5>>>>, 0)
    IN Clamp(Neutral + ofRsi + (IF ind.macd THEN P(10) ELSE -P(10)) + ofRoc + ofAdx)

RelativeStrengthScore(ind) == Banded(ind.rs, <<<<15, 100>>, <<5, 80>>, <<-4, 50>>>>, 20)

MarketRegimeScore(ind) == P(CASE ind.regime = "bull" -> 100 [] ind.regime = "bear" -> 20 [] OTHER -> 50)

\* The sweet spot is between 2 and 6 percent.
VolatilityScore(ind) ==
    Banded(ind.atr, <<<<151, 10>>, <<101, 30>>, <<81, 50>>, <<61, 75>>, <<20, 100>>,
                      <<15, 75>>, <<10, 50>>>>, 30)

-----------------------------------------------------------------------------
Falling(ind) == ind.stack \in {"down", "bear"}

\* The hard penalties before "Phase 11B".
TapePenalty(ind) ==
    If(ind.gap, 20)
    + If(ind.change3 > 40 /\ ind.rsi > 80 /\ Falling(ind), 30)
    + If(ind.volRatio > 100 /\ Falling(ind), 25)
    + If(ind.atr > 150, 20)
    + If(ind.micro, 15)

\* A confirmed downtrend must not be floated by its turnover.
QualityPenalty(ind) == TapePenalty(ind) + If(ind.stack = "bear", 18)

FactorBreakdown(ind) ==
    35 * ParticipationScore(ind) + 20 * TrendScore(ind) + 15 * MomentumScore(ind)
    + 15 * VolumeExpansionScore(ind) + 5 * RelativeStrengthScore(ind)
    + 5 * MarketRegimeScore(ind) + 5 * VolatilityScore(ind)

CompositeRaw(ind) == Clamp(FactorBreakdown(ind) \div 100 - QualityPenalty(ind))

\* A piecewise linear curve that gates the band from 90 on.
Calibrate(raw) ==
    LET knots == <<<<0, 0>>, <<50, 55>>, <<70, 72>>, <<85, 84>>, <<92, 90>>, <<100, 100>>>>
        k == Min({i \in 2..Len(knots) : raw <= P(knots[i][1])})
        from == knots[k - 1]
        to == knots[k]
    IN P(from[2]) + ((raw - P(from[1])) * (to[2] - from[2])) \div (to[1] - from[1])

\* probability, of a win, is in tenths, or NoData.
BlendWithMl(technical, probability) ==
    IF probability = NoData THEN technical ELSE Clamp((7 * technical + 3 * P(10 * probability)) \div 10)

SignalForScore(score) ==
    CASE score >= P(70) -> "BUY"
      [] score \in P(50)..P(70) - 1 -> "HOLD"
      [] score < P(50) -> "SELL"

-----------------------------------------------------------------------------
\* _value_traded: the 20-day average, and the day's only for want of it.
ValueTraded(ind) == IF ind.avg # NoData THEN ind.avg ELSE ind.today

\* liquidity_cap_for: 100 is no cap.
LiquidityCapFor(turnover) ==
    CASE turnover < 5 -> P(50)
      [] turnover \in 5..9 -> P(60)
      [] turnover \in 10..49 -> P(75)
      [] turnover >= 50 -> P(100)

Illiquid(ind) == LiquidityCapFor(ValueTraded(ind)) = P(50)

\* The last step: the cap, and no BUY for what is not investable.
ApplyLiquidityCap(score, ind) ==
    LET capped == Min({score, LiquidityCapFor(ValueTraded(ind))})
        signal == SignalForScore(capped)
    IN [score |-> capped, signal |-> IF Illiquid(ind) /\ signal = "BUY" THEN "HOLD" ELSE signal]

SignalAndScore(ind, probability) ==
    ApplyLiquidityCap(BlendWithMl(Calibrate(CompositeRaw(ind)), probability), ind)

-----------------------------------------------------------------------------
\* explore.py.  The confirmations that fire, each with its points.
Confirmations(ind) ==
    {c \in {<<"cmf", 4, ind.flow>>, <<"obv", 4, ind.flow>>, <<"adx", 4, ind.adx > 25>>,
            <<"volume", 3, ind.volRatio > 15>>, <<"macd", 3, ind.macd>>,
            <<"rsi", 2, ind.rsi \in 51..74>>,
            <<"trend", 3, ind.above /\ Rising(ind) /\ ind.above200>>,
            <<"breakout", 3, ind.atHigh>>} : c[3]}

ConvictionScore(ind) == MapThenSumSet(LAMBDA c : c[2], Confirmations(ind))

CategoryWeight ==
    [bullish |-> 5, pullback |-> 5, accumulation |-> 8, frequently_traded |-> 5,
     turnaround_multibagger |-> 12, accumulation_silent |-> 15, ara_hunter |-> 10,
     bearish |-> 0, scalping |-> 0, short_candidate |-> 0]

CategoryBonus(categories) == Min({25, MapThenSumSet(LAMBDA c : CategoryWeight[c], categories)})

\* The overlay takes a share of what is left to 100.
ExploreScore(base, bonus, conviction) ==
    base + ((P(100) - base) * Min({51, bonus + conviction})) \div 51

IsTradeReady(categories, ind) ==
    LET fired == {c[1] : c \in Confirmations(ind)}
    IN /\ categories \cap {"bullish", "pullback"} # {}
       /\ {"trend", "rsi"} \subseteq fired
       /\ Cardinality(fired) >= 4

\* Fault: the overlay is not held under the cap.
UncappedOverlay(score, categories, ind, allow) ==
    LET bonus == IF allow THEN CategoryBonus(categories) ELSE 0
        conviction == IF allow THEN ConvictionScore(ind) ELSE 0
    IN [lift |-> bonus + conviction,
        final |-> ExploreScore(score, bonus, conviction),
        ready |-> allow /\ IsTradeReady(categories, ind)]

\* compute_overlay of a match, with the liquidity cap for a ceiling.
ComputeOverlay(score, categories, ind, allow) ==
    LET overlay == UncappedOverlay(score, categories, ind, allow)
    IN [overlay EXCEPT !.final = Min({@, LiquidityCapFor(ValueTraded(ind))})]

-----------------------------------------------------------------------------
\* radar/service.py: the regime of a market from the share of its rows that advance.
RegimeFromBreadth(advancing, rows) ==
    CASE rows > 0 /\ 100 * advancing >= 55 * rows -> "BULL"
      [] rows > 0 /\ 100 * advancing <= 40 * rows -> "BEAR"
      [] OTHER -> "NEUTRAL"

-----------------------------------------------------------------------------
\* How well a stop of 1 and a target of 3 percent fit, in points.
SwingFit(ind) ==
    LET volatility == CASE ind.atr \in 15..30 -> 100
                        [] ind.atr \in 12..14 \cup 31..35 -> 80
                        [] ind.atr \in 8..11 \cup 36..45 -> 50
                        [] ind.atr \in 5..7 \cup 46..60 -> 25
                        [] OTHER -> 0
        trend == (IF ind.above THEN 50 ELSE 0) + (IF ind.macd THEN 50 ELSE 0)
        rsi == CASE ind.rsi \in 52..65 -> 100
                 [] ind.rsi \in 48..51 \cup 66..70 -> 60
                 [] ind.rsi \in 45..47 -> 30
                 [] OTHER -> 0
        adx == CASE ind.adx >= 25 -> 100
                 [] ind.adx \in 20..24 -> 60
                 [] ind.adx \in 15..19 -> 30
                 [] OTHER -> 0
    IN (45 * volatility + 25 * trend + 15 * rsi + 15 * adx) \div 100

=============================================================================
