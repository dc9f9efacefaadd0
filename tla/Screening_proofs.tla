------------------------- MODULE Screening_proofs -------------------------
(***************************************************************************)
(* Theorems about Screening, Radar and PortfolioAdvice, for every          *)
(* universe, whatever the indicators of its stocks tell, for any holdings, *)
(* prices and scores, and for any number of workers and requests.          *)
(***************************************************************************)
EXTENDS Radar, PortfolioAdvice, FiniteSetTheorems, SequenceTheorems, WellFoundedInduction, TLAPS

-----------------------------------------------------------------------------
(* The inductive invariant.  A property of the rows says nothing of the     *)
(* workers that are about to build one: what matters of them is that the    *)
(* engine's attribute still speaks of their stock, unless another one was   *)
(* scored since.                                                            *)

\* The locals of a worker.
IsTask(f) ==
    f = [op |-> f.op, stock |-> f.stock, regime |-> f.regime, contested |-> f.contested,
         signal |-> f.signal, told |-> f.told]

Workers ==
    /\ pc = [t \in Threads |-> pc[t]]
    /\ frame = [t \in Threads |-> frame[t]]
    /\ \A t \in Threads : ~At(t, "idle") => IsTask(frame[t])

\* What a worker that has scored a stock reads of it, or has read.
AttributeIsOfStock ==
    /\ illiquid \in BOOLEAN
    /\ \A t \in Threads :
         /\ At(t, "build") => frame[t].contested \/ illiquid = Illiquid(profile[frame[t].stock])
         /\ At(t, "told") => frame[t].contested \/ frame[t].told = Illiquid(profile[frame[t].stock])

\* What a row says, unless it was built from another stock's score.
FlaggedFor(row) ==
    row.live /\ ~row.contested =>
        /\ row.illiquid = Illiquid(profile[row.at])
        /\ Illiquid(profile[row.at]) => row.lift = 0 /\ ~row.ready /\ row.swing = 0

Rows ==
    /\ matches = [s \in Stocks |-> matches[s]]
    /\ \A s \in Stocks : FlaggedFor(matches[s])

IInv == Workers /\ AttributeIsOfStock /\ Rows

-----------------------------------------------------------------------------

\* A row that is not there, or is made up, carries no claim.
LEMMA NotLive == FlaggedFor(NoMatch) /\ \A s : FlaggedFor(MockRow(s))
BY DEF FlaggedFor, NoMatch, MockRow

\* Row withholds bonus, mark and swing fit where the attribute says so.
LEMMA RowIsFlagged ==
    ASSUME NEW s, NEW level, NEW flag \in BOOLEAN, NEW raced,
           raced \/ flag = Illiquid(profile[s])
    PROVE  FlaggedFor(Row(s, level, flag, raced))
<1>1. ASSUME NEW score, NEW categories, NEW ind
      PROVE  /\ ComputeOverlay(score, categories, ind, FALSE).lift = 0
             /\ ~ComputeOverlay(score, categories, ind, FALSE).ready
  <2> DEFINE o == UncappedOverlay(score, categories, ind, FALSE)
  <2>1. /\ o = [lift |-> o.lift, final |-> o.final, ready |-> o.ready]
        /\ o.lift = 0 + 0
        /\ ~o.ready
    BY Zenon DEF UncappedOverlay
  <2> HIDE DEF o
  <2>2. o.lift = 0 /\ ~o.ready
    BY <2>1, 0 + 0 = 0
  <2> QED
    BY <2>1, <2>2 DEF ComputeOverlay, o
<1> DEFINE r == Row(s, level, flag, raced)
<1>2. r.at = s /\ r.illiquid = flag /\ r.contested = raced
  BY DEF Row
<1>3. flag => r.lift = 0 /\ ~r.ready /\ r.swing = 0
  <2> SUFFICES ASSUME flag PROVE r.lift = 0 /\ ~r.ready /\ r.swing = 0
    OBVIOUS
  <2>1. flag = TRUE /\ ~flag = FALSE
    OBVIOUS
  <2> QED
    BY <1>1, <2>1 DEF Row
<1> QED
  BY <1>2, <1>3 DEF FlaggedFor

-----------------------------------------------------------------------------

\* An engine that has scored nothing, with its pool at rest.
LEMMA InitInv == PoolInit /\ EngineInit => IInv
BY NotLive DEF PoolInit, EngineInit, IInv, Workers, AttributeIsOfStock, Rows, At

\* A worker that moves to a place where no score is being read changes no claim.
LEMMA Moves ==
    ASSUME IInv, NEW t \in Threads, NEW l, NEW f,
           pc' = [pc EXCEPT ![t] = l], frame' = [frame EXCEPT ![t] = f],
           IsTask(f), l \notin {"build", "told"},
           UNCHANGED <<profile, illiquid>>
    PROVE  Workers' /\ AttributeIsOfStock'
<1>1. Workers'
  BY DEF IInv, Workers, At, IsTask
<1>2. AttributeIsOfStock'
  BY DEF IInv, Workers, AttributeIsOfStock, At
<1> QED
  BY <1>1, <1>2

\* Nor does one that returns.
LEMMA Returns ==
    ASSUME IInv, NEW t \in Threads, Done(t), UNCHANGED <<profile, illiquid>>
    PROVE  Workers' /\ AttributeIsOfStock'
<1>1. Workers'
  BY DEF IInv, Workers, Done, Go, At, IsTask
<1>2. AttributeIsOfStock'
  BY DEF IInv, Workers, AttributeIsOfStock, Done, Go, At
<1> QED
  BY <1>1, <1>2

\* A row that is entered carries its claim; the others keep theirs.
LEMMA Enters ==
    ASSUME IInv, NEW s, NEW row, FlaggedFor(row),
           matches' = [matches EXCEPT ![s] = row], UNCHANGED profile
    PROVE  Rows'
BY DEF IInv, Rows, FlaggedFor

\* A step that leaves the profiles and the rows alone leaves what the rows say.
LEMMA Keeps == IInv /\ UNCHANGED <<profile, matches>> => Rows'
BY DEF IInv, Rows, FlaggedFor

\* The score of one stock takes the attribute from every other worker.
LEMMA ScoreInv ==
    ASSUME IInv, NEW t \in Threads, Score(t)
    PROVE  IInv'
<1>1. UNCHANGED <<profile, matches>>
  BY DEF Score, Scored
<1>2. ASSUME NEW u \in Threads
      PROVE  /\ At(u, "build") => frame'[u] = [frame[u] EXCEPT !.contested = TRUE]
             /\ ~At(u, "build") => frame'[u] = frame[u]
             /\ u # t => pc'[u] = pc[u]
  BY DEF Score, Scored, IInv, Workers
<1>3. pc'[t] = "build" /\ At(t, "score")
  BY DEF Score, Scored, IInv, Workers
<1>4. ~At(t, "build")
  BY <1>3 DEF At
<1>5. Workers'
  <2>1. ASSUME NEW u \in Threads, ~At(u, "idle")' PROVE IsTask(frame[u])
    BY <2>1, <1>2, <1>3 DEF IInv, Workers, At
  <2>2. ASSUME NEW u \in Threads, ~At(u, "idle")' PROVE IsTask(frame'[u])
    BY <2>1, <2>2, <1>2 DEF IsTask
  <2>3. pc' = [u \in Threads |-> pc'[u]] /\ frame' = [u \in Threads |-> frame'[u]]
    BY DEF Score, Scored, IInv, Workers
  <2> QED
    BY <2>2, <2>3 DEF Workers, At, IsTask
<1>6. AttributeIsOfStock'
  <2>1. illiquid' = Illiquid(profile[frame[t].stock]) /\ illiquid' \in BOOLEAN
    BY DEF Score, Illiquid
  <2>2. ASSUME NEW u \in Threads, At(u, "build"), u # t
        PROVE  frame'[u].contested
    BY <2>2, <1>2 DEF IInv, Workers, At, IsTask
  <2>3. ASSUME NEW u \in Threads, At(u, "build")'
        PROVE  frame'[u].contested \/ illiquid' = Illiquid(profile'[frame'[u].stock])
    <3>1. CASE u = t
      BY <3>1, <2>1, <1>1, <1>2, <1>4
    <3>2. CASE u # t
      BY <3>2, <2>2, <2>3, <1>2 DEF At
    <3> QED
      BY <3>1, <3>2
  <2>4. ASSUME NEW u \in Threads, At(u, "told")'
        PROVE  frame'[u].contested \/ frame'[u].told = Illiquid(profile'[frame'[u].stock])
    <3>1. u # t
      BY <2>4, <1>3 DEF At
    <3>2. At(u, "told") /\ frame'[u] = frame[u]
      BY <3>1, <2>4, <1>2 DEF At
    <3> QED
      BY <3>2, <1>1 DEF IInv, AttributeIsOfStock
  <2>5. \A ind : Illiquid(ind)' = Illiquid(ind)
    OBVIOUS
  <2> QED
    BY <2>1, <2>3, <2>4 DEF AttributeIsOfStock, At
<1>7. Rows'
  BY <1>1, Keeps
<1> QED
  BY <1>5, <1>6, <1>7 DEF IInv

\* A stock's page reads the attribute once; what it read is of the stock, or contested.
LEMMA AnalyzeInv ==
    ASSUME IInv, NEW t \in Threads, Analyze(t)
    PROVE  IInv'
<1>1. PICK signal : /\ pc' = [pc EXCEPT ![t] = "told"]
                    /\ frame' = [frame EXCEPT ![t] = [frame[t] EXCEPT !.told = illiquid, !.signal = signal]]
  BY DEF Analyze, Go
<1>2. UNCHANGED engineVars
  BY DEF Analyze
<1>3. At(t, "build") /\ ~At(t, "idle")
  BY DEF Analyze, At
<1>4. IsTask(frame[t])
  BY <1>3 DEF IInv, Workers
<1>5. DEFINE f == [frame[t] EXCEPT !.told = illiquid, !.signal = signal]
<1>6. IsTask(f) /\ f.told = illiquid /\ f.stock = frame[t].stock /\ f.contested = frame[t].contested
  <2> DEFINE g == frame[t]
  <2>1. g = [op |-> g.op, stock |-> g.stock, regime |-> g.regime, contested |-> g.contested,
             signal |-> g.signal, told |-> g.told]
    BY <1>4 DEF IsTask
  <2>2. f = [op |-> g.op, stock |-> g.stock, regime |-> g.regime, contested |-> g.contested,
             signal |-> signal, told |-> illiquid]
    <3> DEFINE h == [g EXCEPT !.told = illiquid]
    <3>1. h = [op |-> g.op, stock |-> g.stock, regime |-> g.regime, contested |-> g.contested,
               signal |-> g.signal, told |-> illiquid]
      BY <2>1
    <3>2. f = [h EXCEPT !.signal = signal]
      BY Zenon
    <3> HIDE DEF f, g, h
    <3> QED
      BY <3>1, <3>2
  <2> HIDE DEF f, g
  <2>3. IsTask(f) /\ f.told = illiquid /\ f.stock = g.stock /\ f.contested = g.contested
    BY <2>2 DEF IsTask
  <2> QED
    BY <2>3 DEF g
<1> HIDE DEF f
<1>7. Workers'
  BY <1>1, <1>6 DEF IInv, Workers, At, IsTask, f
<1>8. AttributeIsOfStock'
  BY <1>1, <1>2, <1>3, <1>6 DEF IInv, Workers, AttributeIsOfStock, At, engineVars, f
<1>9. Rows'
  BY <1>2, Keeps DEF engineVars
<1> QED
  BY <1>7, <1>8, <1>9 DEF IInv

\* A row is built from the attribute that its worker finds.
LEMMA BuildRowInv ==
    ASSUME IInv, NEW t \in Threads, BuildRow(t)
    PROVE  IInv'
<1>1. Workers' /\ AttributeIsOfStock'
  BY Returns DEF BuildRow
<1>2. frame[t].contested \/ illiquid = Illiquid(profile[frame[t].stock])
  BY DEF BuildRow, IInv, AttributeIsOfStock
<1>3. FlaggedFor(Row(frame[t].stock, frame[t].regime, illiquid, frame[t].contested))
  BY <1>2, RowIsFlagged DEF IInv, AttributeIsOfStock
<1>4. Rows'
  BY <1>3, Enters DEF BuildRow
<1> QED
  BY <1>1, <1>4 DEF IInv

\* Where the data fails the row is made up, and the attribute is not read.
LEMMA LoadFailsInv ==
    ASSUME IInv, NEW t \in Threads, LoadFails(t)
    PROVE  IInv'
<1>1. Workers' /\ AttributeIsOfStock'
  BY Returns DEF LoadFails
<1>2. Rows'
  <2>1. FlaggedFor(MockRow(frame[t].stock))
    BY NotLive
  <2>2. CASE frame[t].op = "screen"
    BY <2>1, <2>2, Enters DEF LoadFails
  <2>3. CASE frame[t].op # "screen"
    BY <2>3, Keeps DEF LoadFails
  <2> QED
    BY <2>2, <2>3
<1> QED
  BY <1>1, <1>2 DEF IInv

\* The steps that neither score, nor read a score, nor enter a row.
LEMMA OtherInv ==
    ASSUME IInv, NEW t \in Threads,
           TakeStock(t) \/ StartOne(t) \/ Load(t) \/ ReadIndex(t) \/ BuildOne(t) \/ Tell(t)
    PROVE  IInv'
<1>1. UNCHANGED <<profile, illiquid, matches>>
  BY DEF TakeStock, StartOne, Load, ReadIndex, BuildOne, Tell, engineVars
<1>2. Rows'
  BY <1>1, Keeps
<1>3. \A op, s : IsTask(Task(op, s))
  BY DEF Task, IsTask
<1>4. CASE TakeStock(t)
  <2>1. PICK s : Go(t, "load", Task("screen", s))
    BY <1>4 DEF TakeStock
  <2> QED
    <3>1. /\ pc' = [pc EXCEPT ![t] = "load"] /\ frame' = [frame EXCEPT ![t] = Task("screen", s)]
          /\ IsTask(Task("screen", s)) /\ UNCHANGED <<profile, illiquid>>
      BY <1>1, <1>3, <2>1 DEF Go
    <3>2. Workers' /\ AttributeIsOfStock'
      BY <3>1, Moves
    <3> QED
      BY <1>2, <3>2 DEF IInv
<1>5. CASE StartOne(t)
  <2>1. PICK s : Begin(t, "load", Task("one", s))
    BY <1>5 DEF StartOne
  <2> QED
    <3>1. /\ pc' = [pc EXCEPT ![t] = "load"] /\ frame' = [frame EXCEPT ![t] = Task("one", s)]
          /\ IsTask(Task("one", s)) /\ UNCHANGED <<profile, illiquid>>
      BY <1>1, <1>3, <2>1 DEF Begin
    <3>2. Workers' /\ AttributeIsOfStock'
      BY <3>1, Moves
    <3> QED
      BY <1>2, <3>2 DEF IInv
<1>6. ASSUME Load(t) \/ ReadIndex(t) PROVE IInv'
  <2>1. PICK l, f :
          l \in {"index", "score"} /\ Go(t, l, f) /\ (f = frame[t] \/ \E level : f = [frame[t] EXCEPT !.regime = level])
    BY <1>6 DEF Load, ReadIndex
  <2>2. IsTask(frame[t])
    BY <1>6 DEF Load, ReadIndex, IInv, Workers, At
  <2>3. IsTask(f)
    BY <2>1, <2>2 DEF IsTask
  <2> QED
    BY <1>1, <1>2, <2>1, <2>3, Moves DEF Go, IInv
<1>7. CASE BuildOne(t) \/ Tell(t)
  BY <1>1, <1>2, <1>7, Returns DEF BuildOne, Tell, IInv
<1> QED
  BY <1>4, <1>5, <1>6, <1>7

\* Every step of the engine keeps the invariant.
LEMMA StepInv == IInv /\ [EngineNext]_engineAll => IInv'
<1> SUFFICES ASSUME IInv, [EngineNext]_engineAll PROVE IInv'
  OBVIOUS
<1>1. CASE UNCHANGED engineAll
  BY <1>1 DEF IInv, engineAll, pool, engineVars, Workers, At, AttributeIsOfStock, Rows, FlaggedFor, IsTask
<1>2. CASE StartRun
  BY <1>2, NotLive DEF IInv, StartRun, Workers, At, AttributeIsOfStock, Rows, FlaggedFor, IsTask
<1>3. ASSUME NEW t \in Threads, Score(t) PROVE IInv'
  BY <1>3, ScoreInv
<1>4. ASSUME NEW t \in Threads, Analyze(t) PROVE IInv'
  BY <1>4, AnalyzeInv
<1>5. ASSUME NEW t \in Threads, BuildRow(t) PROVE IInv'
  BY <1>5, BuildRowInv
<1>6. ASSUME NEW t \in Threads, LoadFails(t) PROVE IInv'
  BY <1>6, LoadFailsInv
<1>7. ASSUME NEW t \in Threads,
             TakeStock(t) \/ StartOne(t) \/ Load(t) \/ ReadIndex(t) \/ BuildOne(t) \/ Tell(t)
      PROVE  IInv'
  BY <1>7, OtherInv
<1> QED
  BY <1>1, <1>2, <1>3, <1>4, <1>5, <1>6, <1>7 DEF EngineNext

\* What the invariant says of rows and pages is the property.
LEMMA InvGives == IInv => LiftedOnlyByRace
<1> SUFFICES ASSUME IInv PROVE LiftedOnlyByRace
  OBVIOUS
<1>1. \A r \in Screened : FlaggedFor(r)
  BY DEF Screened, IInv, Rows
<1> QED
  BY <1>1 DEF LiftedOnlyByRace, FlaggedFor, IInv, AttributeIsOfStock

-----------------------------------------------------------------------------

\* engine.py: "they can't be lifted into the top ranks": however many workers
\* screen and however many pages are asked for meanwhile, a stock that is not
\* investable gets a bonus, a ready mark or a swing fit only if another stock was
\* scored between its score and the read of the engine's attribute.
THEOREM ThinStocksLiftedOnlyByRace == EngineSpec => []LiftedOnlyByRace
<1>1. PoolInit /\ EngineInit => IInv
  BY InitInv
<1>2. IInv /\ [EngineNext]_engineAll => IInv'
  BY StepInv
<1>3. IInv => LiftedOnlyByRace
  BY InvGives
<1> QED
  BY <1>1, <1>2, <1>3, PTL DEF EngineSpec

-----------------------------------------------------------------------------
(* The arithmetic of the score.                                             *)

\* A set of numbers has a least one.
LEMMA LeastOf ==
    ASSUME NEW S \in SUBSET Nat, S # {}
    PROVE  Min(S) \in S /\ \A y \in S : Min(S) <= y
<1>1. PICK x \in S : \A y \in S : ~(<<y, x>> \in OpToRel(<, Nat))
  BY NatLessThanWellFounded, WFMin, Zenon
<1>2. \A y \in S : x =< y
  <2> TAKE y \in S
  <2>1. x \in Nat /\ y \in Nat
    OBVIOUS
  <2>2. ~(y < x)
    BY <1>1, <2>1 DEF OpToRel
  <2> QED
    BY <2>1, <2>2
<1> QED
  BY <1>2 DEF Min

\* The lesser and the greater of two numbers, as the code's min and max return them.
LEMMA LesserOf ==
    ASSUME NEW a \in Int, NEW b \in Int
    PROVE  Min({a, b}) \in Int /\ Min({a, b}) = IF a <= b THEN a ELSE b
BY DEF Min

LEMMA GreaterOf ==
    ASSUME NEW a \in Int, NEW b \in Int
    PROVE  Max({a, b}) \in Int /\ Max({a, b}) = IF a >= b THEN a ELSE b
BY DEF Max

\* A clamped score is between 0 and 100 points.
LEMMA Clamped ==
    ASSUME NEW p \in Int
    PROVE  Clamp(p) \in Int /\ 0 <= Clamp(p) /\ Clamp(p) <= 10000
<1>1. PICK m : m = Min({10000, p})
  OBVIOUS
<1>2. m \in Int /\ m <= 10000
  BY <1>1, LesserOf
<1>3. Max({0, m}) \in Int /\ Max({0, m}) = IF 0 >= m THEN 0 ELSE m
  BY <1>2, GreaterOf
<1>4. Clamp(p) = Max({0, m})
  BY <1>1 DEF Clamp, P
<1> QED
  BY <1>2, <1>3, <1>4

\* Clamping does not lift a score over a bound that it is under.
LEMMA ClampedUnder ==
    ASSUME NEW p \in Int, NEW bound \in Nat, p <= bound
    PROVE  Clamp(p) <= bound
<1>1. PICK m : m = Min({10000, p})
  OBVIOUS
<1>2. m \in Int /\ m <= p
  BY <1>1, LesserOf
<1>3. Max({0, m}) \in Int /\ Max({0, m}) = IF 0 >= m THEN 0 ELSE m
  BY <1>2, GreaterOf
<1>4. Clamp(p) = Max({0, m})
  BY <1>1 DEF Clamp, P
<1> QED
  BY <1>2, <1>3, <1>4

\* Points of at most 100 each.
PointTable(bands) ==
    \E n \in Nat : DOMAIN bands = 1..n /\ \A i \in 1..n : bands[i][2] \in Int /\ bands[i][2] <= 100

\* The points of a band are one of those listed.
LEMMA Bands ==
    ASSUME NEW x, NEW bands, PointTable(bands), NEW otherwise \in Int, otherwise <= 100
    PROVE  Banded(x, bands, otherwise) \in Int /\ Banded(x, bands, otherwise) <= 10000
<1> PICK n \in Nat : DOMAIN bands = 1..n /\ \A i \in 1..n : bands[i][2] \in Int /\ bands[i][2] <= 100
  BY DEF PointTable
<1> DEFINE reached == {i \in DOMAIN bands : x >= bands[i][1]}
<1>0. reached \in SUBSET Nat /\ reached \subseteq 1..n
  OBVIOUS
<1>1. reached # {} => Min(reached) \in 1..n
  <2> HIDE DEF reached
  <2> QED
    BY <1>0, LeastOf
<1> DEFINE points == IF reached = {} THEN otherwise ELSE bands[Min(reached)][2]
<1>2. points \in Int /\ points <= 100
  BY <1>1
<1>3. Banded(x, bands, otherwise) = points * 100
  BY DEF Banded, P
<1> HIDE DEF points
<1> QED
  BY <1>2, <1>3

\* What the score needs of a stock's indicators: numbers, and a known order of averages.
Measured(ind) ==
    ind.today \in Int /\ ind.avg \in Int /\ ind.stack \in {"bull", "up", "down", "bear"}

\* Every factor is a number of at most 100 points; a bear's trend has at most 25 of
\* them, and its penalty is 18 at least.
LEMMA FactorsTyped ==
    ASSUME NEW ind, Measured(ind)
    PROVE  /\ ParticipationScore(ind) \in Int /\ TrendScore(ind) \in Int /\ MomentumScore(ind) \in Int
           /\ VolumeExpansionScore(ind) \in Int /\ RelativeStrengthScore(ind) \in Int
           /\ MarketRegimeScore(ind) \in Int /\ VolatilityScore(ind) \in Int
           /\ QualityPenalty(ind) \in Int
           /\ ParticipationScore(ind) <= 10000 /\ MomentumScore(ind) <= 10000
           /\ VolumeExpansionScore(ind) <= 10000 /\ RelativeStrengthScore(ind) <= 10000
           /\ MarketRegimeScore(ind) <= 10000 /\ VolatilityScore(ind) <= 10000
           /\ ind.stack = "bear" => TrendScore(ind) <= 2500 /\ QualityPenalty(ind) >= 1800
<1>1. \A c \in BOOLEAN, p \in Int : If(c, p) \in Int
  BY DEF If, P
<1>2. \A ratio : ExpansionPoints(ratio) \in Int /\ ExpansionPoints(ratio) <= 10000
  <2> TAKE ratio
  <2> DEFINE points == Banded(ratio, <<<<30, 100>>, <<20, 85>>, <<12, 70>>, <<8, 50>>>>, 25)
  <2>1. points \in Int /\ points <= 10000
    <3> DEFINE bands == <<<<30, 100>>, <<20, 85>>, <<12, 70>>, <<8, 50>>>>
    <3>1. PointTable(bands)
      <4>1. DOMAIN bands = 1..4 /\ \A i \in 1..4 : bands[i][2] \in Int /\ bands[i][2] <= 100
        OBVIOUS
      <4> QED
        BY <4>1 DEF PointTable
    <3> HIDE DEF bands
    <3>2. Banded(ratio, bands, 25) \in Int /\ Banded(ratio, bands, 25) <= 10000
      BY <3>1, Bands
    <3> QED
      BY <3>2 DEF bands
  <2>2. ExpansionPoints(ratio) = IF ratio <= 0 THEN Neutral ELSE points
    BY Zenon DEF ExpansionPoints
  <2> HIDE DEF points
  <2> QED
    BY <2>1, <2>2 DEF Neutral, P
<1>3. VolumeExpansionScore(ind) \in Int /\ VolumeExpansionScore(ind) <= 10000
  BY <1>2 DEF VolumeExpansionScore
<1>4. \A turnover \in Int : ValueTierPoints(turnover) \in Int
  <2> TAKE turnover \in Int
  <2>1. Banded(turnover, <<<<500, 100>>, <<100, 85>>>>, 70) \in Int
    <3> DEFINE bands == <<<<500, 100>>, <<100, 85>>>>
    <3>1. PointTable(bands)
      <4>1. DOMAIN bands = 1..2 /\ \A i \in 1..2 : bands[i][2] \in Int /\ bands[i][2] <= 100
        OBVIOUS
      <4> QED
        BY <4>1 DEF PointTable
    <3> HIDE DEF bands
    <3>2. Banded(turnover, bands, 70) \in Int
      BY <3>1, Bands
    <3> QED
      BY <3>2 DEF bands
  <2>2. Max({P(5), (turnover * P(45)) \div 10}) \in Int
    BY GreaterOf DEF P
  <2>3. P(45) + ((turnover - 10) * P(25)) \div 40 \in Int
    BY DEF P
  <2> DEFINE low == Max({P(5), (turnover * P(45)) \div 10})
             middle == P(45) + ((turnover - 10) * P(25)) \div 40
             high == Banded(turnover, <<<<500, 100>>, <<100, 85>>>>, 70)
  <2>4. ValueTierPoints(turnover) =
          CASE turnover <= 0 -> 0 [] turnover \in 1..9 -> low [] turnover \in 10..49 -> middle [] OTHER -> high
    BY Zenon DEF ValueTierPoints
  <2>5. low \in Int /\ middle \in Int /\ high \in Int
    BY <2>1, <2>2, <2>3
  <2> HIDE DEF low, middle, high
  <2> QED
    BY <2>4, <2>5
<1>5. ParticipationScore(ind) \in Int /\ ParticipationScore(ind) <= 10000
  <2> DEFINE today == ValueTierPoints(ind.today)
             average == ValueTierPoints(ind.avg)
             durable == IF ind.avg > 0 THEN Max({average, (today + average) \div 2}) ELSE today
             points == (8 * durable + ExpansionPoints(ind.volRatio) + If(ind.avg > 0, 100)) \div 10
  <2>1. today \in Int /\ average \in Int
    BY <1>4 DEF Measured
  <2>2. durable \in Int
    <3> HIDE DEF today, average
    <3> QED
      BY <2>1, GreaterOf
  <2>3. points \in Int
    <3> HIDE DEF durable
    <3>1. If(ind.avg > 0, 100) \in Int
      BY DEF If, P
    <3>2. ExpansionPoints(ind.volRatio) \in Int
      BY <1>2
    <3> QED
      BY <2>2, <3>1, <3>2
  <2>4. ParticipationScore(ind) = IF ind.today <= 0 /\ ind.avg <= 0 THEN 0 ELSE Clamp(points)
    BY Zenon DEF ParticipationScore
  <2> HIDE DEF points
  <2> QED
    BY <2>3, <2>4, Clamped
<1>6. TrendScore(ind) \in Int /\ (ind.stack = "bear" => TrendScore(ind) <= 2500)
  <2> DEFINE aligned == P([bull |-> 100, up |-> 70, down |-> 30, bear |-> 0][ind.stack])
             points == aligned + If(ind.above200, 10) + If(ind.atHigh, 15)
  <2>1. aligned \in Int /\ (ind.stack = "bear" => aligned = 0)
    BY DEF Measured, P
  <2>2. /\ If(ind.above200, 10) \in Int /\ If(ind.above200, 10) <= 1000
        /\ If(ind.atHigh, 15) \in Int /\ If(ind.atHigh, 15) <= 1500
    BY DEF If, P
  <2>3. points \in Int /\ (ind.stack = "bear" => points <= 2500)
    <3> HIDE DEF aligned
    <3> QED
      BY <2>1, <2>2
  <2>4. TrendScore(ind) = Clamp(points)
    BY Zenon DEF TrendScore
  <2> HIDE DEF points
  <2>5. points <= 2500 => Clamp(points) <= 2500
    BY <2>3, ClampedUnder
  <2> QED
    BY <2>3, <2>4, <2>5, Clamped
<1>7. MomentumScore(ind) \in Int /\ MomentumScore(ind) <= 10000
  <2> DEFINE bandsRsi == <<<<86, -25>>, <<81, -10>>, <<71, 5>>, <<55, 20>>, <<50, 10>>, <<40, -5>>, <<30, 0>>>>
             bandsRoc == <<<<6, 10>>, <<1, 5>>, <<-5, -5>>>>
             bandsAdx == <<<<25, 10>>, <<20, 5>>>>
             points == Neutral + Banded(ind.rsi, bandsRsi, -10) + (IF ind.macd THEN P(10) ELSE -P(10))
                       + Banded(ind.roc, bandsRoc, -10) + Banded(ind.adx, bandsAdx, 0)
  <2>1. PointTable(bandsRsi)
    <3>1. DOMAIN bandsRsi = 1..7 /\ \A i \in 1..7 : bandsRsi[i][2] \in Int /\ bandsRsi[i][2] <= 100
      OBVIOUS
    <3> QED
      BY <3>1 DEF PointTable
  <2>2. PointTable(bandsRoc)
    <3>1. DOMAIN bandsRoc = 1..3 /\ \A i \in 1..3 : bandsRoc[i][2] \in Int /\ bandsRoc[i][2] <= 100
      OBVIOUS
    <3> QED
      BY <3>1 DEF PointTable
  <2>3. PointTable(bandsAdx)
    <3>1. DOMAIN bandsAdx = 1..2 /\ \A i \in 1..2 : bandsAdx[i][2] \in Int /\ bandsAdx[i][2] <= 100
      OBVIOUS
    <3> QED
      BY <3>1 DEF PointTable
  <2>4. points \in Int
    <3> HIDE DEF bandsRsi, bandsRoc, bandsAdx
    <3>1. Banded(ind.rsi, bandsRsi, -10) \in Int
      BY <2>1, Bands
    <3>2. Banded(ind.roc, bandsRoc, -10) \in Int
      BY <2>2, Bands
    <3>3. Banded(ind.adx, bandsAdx, 0) \in Int
      BY <2>3, Bands
    <3> QED
      BY <3>1, <3>2, <3>3 DEF Neutral, P
  <2>5. MomentumScore(ind) = Clamp(points)
    BY Zenon DEF MomentumScore
  <2> HIDE DEF points
  <2> QED
    BY <2>4, <2>5, Clamped
<1>8. RelativeStrengthScore(ind) \in Int /\ RelativeStrengthScore(ind) <= 10000
  <2> DEFINE bands == <<<<15, 100>>, <<5, 80>>, <<-4, 50>>>>
  <2>1. PointTable(bands)
    <3>1. DOMAIN bands = 1..3 /\ \A i \in 1..3 : bands[i][2] \in Int /\ bands[i][2] <= 100
      OBVIOUS
    <3> QED
      BY <3>1 DEF PointTable
  <2>2. RelativeStrengthScore(ind) = Banded(ind.rs, bands, 20)
    BY Zenon DEF RelativeStrengthScore
  <2> HIDE DEF bands
  <2> QED
    BY <2>1, <2>2, Bands
<1>9. VolatilityScore(ind) \in Int /\ VolatilityScore(ind) <= 10000
  <2> DEFINE bands == <<<<151, 10>>, <<101, 30>>, <<81, 50>>, <<61, 75>>, <<20, 100>>, <<15, 75>>, <<10, 50>>>>
  <2>1. PointTable(bands)
    <3>1. DOMAIN bands = 1..7 /\ \A i \in 1..7 : bands[i][2] \in Int /\ bands[i][2] <= 100
      OBVIOUS
    <3> QED
      BY <3>1 DEF PointTable
  <2>2. VolatilityScore(ind) = Banded(ind.atr, bands, 30)
    BY Zenon DEF VolatilityScore
  <2> HIDE DEF bands
  <2> QED
    BY <2>1, <2>2, Bands
<1>10. MarketRegimeScore(ind) \in Int /\ MarketRegimeScore(ind) <= 10000
  BY DEF MarketRegimeScore, P
<1>11. QualityPenalty(ind) \in Int /\ (ind.stack = "bear" => QualityPenalty(ind) >= 1800)
  <2>1. \A c : If(c, 30) \in Int /\ If(c, 25) \in Int /\ If(c, 20) \in Int /\ If(c, 18) \in Int /\ If(c, 15) \in Int
    BY DEF If, P
  <2>2. TapePenalty(ind) \in Nat
    <3> DEFINE a == If(ind.gap, 20)
               b == If(ind.change3 > 40 /\ ind.rsi > 80 /\ Falling(ind), 30)
               c == If(ind.volRatio > 100 /\ Falling(ind), 25)
               d == If(ind.atr > 150, 20)
               e == If(ind.micro, 15)
    <3>1. a \in Nat /\ b \in Nat /\ c \in Nat /\ d \in Nat /\ e \in Nat
      BY DEF If, P
    <3>2. TapePenalty(ind) = a + b + c + d + e
      BY Zenon DEF TapePenalty
    <3> HIDE DEF a, b, c, d, e
    <3> QED
      BY <3>1, <3>2
  <2>3. If(ind.stack = "bear", 18) \in Int /\ (ind.stack = "bear" => If(ind.stack = "bear", 18) = 1800)
    BY DEF If, P
  <2> QED
    BY <2>2, <2>3 DEF QualityPenalty
<1> QED
  BY <1>3, <1>5, <1>6, <1>7, <1>8, <1>9, <1>10, <1>11

\* The calibrated composite is a number.
LEMMA CompositeTyped ==
    ASSUME NEW ind, Measured(ind)
    PROVE  /\ Calibrate(CompositeRaw(ind)) \in Int
           /\ ind.stack = "bear" => Calibrate(CompositeRaw(ind)) < 7000
<1>1. /\ CompositeRaw(ind) \in Int /\ 0 <= CompositeRaw(ind) /\ CompositeRaw(ind) <= 10000
      /\ ind.stack = "bear" => CompositeRaw(ind) <= 6700
  <2> DEFINE points == FactorBreakdown(ind) \div 100 - QualityPenalty(ind)
  <2>1. FactorBreakdown(ind) \in Int
    BY FactorsTyped DEF FactorBreakdown
  <2>5. ind.stack = "bear" => FactorBreakdown(ind) <= 850000
    BY FactorsTyped DEF FactorBreakdown
  <2>2. points \in Int /\ (ind.stack = "bear" => points <= 6700)
    <3>1. PICK total \in Int, penalty \in Int : total = FactorBreakdown(ind) /\ penalty = QualityPenalty(ind)
      BY <2>1, FactorsTyped
    <3>2. ind.stack = "bear" => total <= 850000 /\ penalty >= 1800
      BY <2>5, <3>1, FactorsTyped
    <3> QED
      BY <3>1, <3>2
  <2>3. CompositeRaw(ind) = Clamp(points)
    BY Zenon DEF CompositeRaw
  <2> HIDE DEF points
  <2>4. points <= 6700 => Clamp(points) <= 6700
    BY <2>2, ClampedUnder
  <2> QED
    BY <2>2, <2>3, <2>4, Clamped
<1>2. ASSUME NEW raw \in Int, 0 <= raw, raw <= 10000
      PROVE  Calibrate(raw) \in Int /\ (raw <= 6700 => Calibrate(raw) < 7000)
  <2> DEFINE knots == <<<<0, 0>>, <<50, 55>>, <<70, 72>>, <<85, 84>>, <<92, 90>>, <<100, 100>>>>
             reached == {i \in 2..Len(knots) : raw <= P(knots[i][1])}
             k == Min(reached)
             points == P(knots[k - 1][2])
                       + ((raw - P(knots[k - 1][1])) * (knots[k][2] - knots[k - 1][2])) \div (knots[k][1] - knots[k - 1][1])
  <2>1. 6 \in reached
    <3>1. P(knots[6][1]) = 10000 /\ Len(knots) = 6
      BY DEF P
    <3> HIDE DEF knots
    <3> QED
      BY <1>2, <3>1
  <2>2. reached \in SUBSET Nat /\ reached \subseteq 2..6
    OBVIOUS
  <2>3. k \in 2..6 /\ k \in reached /\ \A i \in reached : k <= i
    <3> HIDE DEF reached
    <3> QED
      BY <2>1, <2>2, LeastOf
  <2>7. ASSUME raw <= 6700 PROVE k = 3 \/ (k = 2 /\ raw <= 5000)
    <3>1. P(knots[3][1]) = 7000 /\ P(knots[2][1]) = 5000 /\ Len(knots) = 6
      BY DEF P
    <3>2. 3 \in reached
      <4> HIDE DEF knots
      <4> QED
        BY <2>7, <3>1
    <3>3. k \in 2..6 /\ k <= 3 /\ k \in reached
      <4> HIDE DEF k, reached
      <4> QED
        BY <2>3, <3>2
    <3>4. k = 2 => raw <= 5000
      <4>1. 2 \in reached => raw <= P(knots[2][1])
        OBVIOUS
      <4> HIDE DEF k, reached, knots
      <4> QED
        BY <3>1, <3>3, <4>1
    <3> HIDE DEF k, reached, knots
    <3> QED
      BY <3>3, <3>4
  <2>4. \A i \in 2..6 : knots[i - 1][1] \in Int /\ knots[i - 1][2] \in Int /\ knots[i][2] \in Int
                        /\ knots[i][1] - knots[i - 1][1] \in Nat \ {0}
    OBVIOUS
  <2>5. points \in Int
    <3> HIDE DEF k
    <3>1. PICK a, b, c, d : /\ a = knots[k - 1][1] /\ b = knots[k - 1][2] /\ c = knots[k][2]
                            /\ d = knots[k][1] - knots[k - 1][1]
      OBVIOUS
    <3>2. a \in Int /\ b \in Int /\ c \in Int /\ d \in Nat \ {0}
      <4> HIDE DEF knots
      <4> QED
        BY <2>3, <2>4, <3>1
    <3>3. points = b * 100 + ((raw - a * 100) * (c - b)) \div d
      <4> HIDE DEF knots
      <4> QED
        BY <3>1 DEF P
    <3> HIDE DEF points
    <3>4. PICK m : m = (raw - a * 100) * (c - b)
      OBVIOUS
    <3>5. m \in Int
      BY <3>2, <3>4
    <3> QED
      BY <3>2, <3>3, <3>4, <3>5
  <2>8. ASSUME raw <= 6700 PROVE points < 7000
    <3>1. /\ knots[1] = <<0, 0>> /\ knots[2] = <<50, 55>> /\ knots[3] = <<70, 72>>
      OBVIOUS
    <3> HIDE DEF k, knots
    <3>2. CASE k = 2 /\ raw <= 5000
      <4>1. knots[k - 1] = <<0, 0>> /\ knots[k] = <<50, 55>>
        BY <3>1, <3>2
      <4>2. points = 0 * 100 + ((raw - 0 * 100) * (55 - 0)) \div (50 - 0)
        BY <4>1 DEF P
      <4> HIDE DEF points
      <4> QED
        BY <1>2, <3>2, <4>2
    <3>3. CASE k = 3
      <4>1. knots[k - 1] = <<50, 55>> /\ knots[k] = <<70, 72>>
        BY <3>1, <3>3
      <4>2. points = 55 * 100 + ((raw - 50 * 100) * (72 - 55)) \div (70 - 50)
        BY <4>1 DEF P
      <4> HIDE DEF points
      <4> QED
        BY <1>2, <2>8, <4>2
    <3> QED
      BY <2>7, <2>8, <3>2, <3>3
  <2>6. Calibrate(raw) = points
    BY Zenon DEF Calibrate
  <2> HIDE DEF points
  <2> QED
    BY <2>5, <2>6, <2>8
<1> QED
  BY <1>1, <1>2

-----------------------------------------------------------------------------
(* Sums over a finite set, which do not depend on the order of summation.   *)

\* g adds up h over every subset of S, whichever element comes last.
Adds(g, h, S) ==
    /\ g \in [SUBSET S -> Int] /\ g[{}] = 0
    /\ \A T \in SUBSET S : \A x \in T : g[T] = h[x] + g[T \ {x}]

\* The element that the recursion of MapThenFoldSet takes off.
Taken(T) == CHOOSE x \in T : TRUE

\* A set of subsets of a finite set has a least one.
LEMMA LeastSubset ==
    ASSUME NEW S, IsFiniteSet(S), NEW Bad \in SUBSET SUBSET S, Bad # {}
    PROVE  \E T \in Bad : \A x \in T : T \ {x} \notin Bad
<1>1. IsWellFoundedOn(StrictSubsetOrdering(S), FiniteSubsetsOf(S))
  BY FS_StrictSubsetOrderingWellFounded
<1>2. Bad \subseteq FiniteSubsetsOf(S)
  BY FS_Subset DEF FiniteSubsetsOf
<1>3. PICK T \in Bad : \A X \in Bad : ~(<<X, T>> \in StrictSubsetOrdering(S))
  BY <1>1, <1>2, WFMin, Zenon
<1>4. ASSUME NEW x \in T, T \ {x} \in Bad PROVE FALSE
  <2>1. <<T \ {x}, T>> \in StrictSubsetOrdering(S)
    BY <1>4 DEF StrictSubsetOrdering
  <2> QED
    BY <1>3, <1>4, <2>1
<1> QED
  BY <1>4

\* Whatever is added, there is a table of the sums of the subsets of a finite set.
LEMMA AddsExists ==
    ASSUME NEW S, IsFiniteSet(S), NEW h \in [S -> Int]
    PROVE  \E g : Adds(g, h, S)
<1> DEFINE Bad == {T \in SUBSET S : ~\E g : Adds(g, h, T)}
<1>1. SUFFICES ASSUME Bad # {} PROVE FALSE
  OBVIOUS
<1>2. PICK T \in Bad : \A x \in T : T \ {x} \notin Bad
  <2>1. Bad \in SUBSET SUBSET S
    OBVIOUS
  <2> HIDE DEF Bad
  <2> QED
    BY <1>1, <2>1, LeastSubset
<1>3. CASE T = {}
  <2> DEFINE g == [X \in SUBSET T |-> 0]
  <2>1. Adds(g, h, T)
    BY <1>3 DEF Adds
  <2> QED
    BY <1>2, <2>1
<1>4. CASE T # {}
  <2>1. PICK a \in T : TRUE
    BY <1>4
  <2>2. PICK old : Adds(old, h, T \ {a})
    BY <1>2, <2>1
  <2> DEFINE g == [X \in SUBSET T |-> IF a \in X THEN h[a] + old[X \ {a}] ELSE old[X]]
  <2>3. /\ old \in [SUBSET (T \ {a}) -> Int] /\ old[{}] = 0 /\ h[a] \in Int
        /\ \A X \in SUBSET (T \ {a}) : \A x \in X : old[X] = h[x] + old[X \ {x}]
    BY <1>2, <2>1, <2>2 DEF Adds
  <2>4. g \in [SUBSET T -> Int] /\ g[{}] = 0
    BY <2>3
  <2>5. ASSUME NEW X \in SUBSET T, NEW x \in X PROVE g[X] = h[x] + g[X \ {x}]
    <3>1. CASE a \notin X
      <4>1. X \in SUBSET (T \ {a}) /\ X \ {x} \in SUBSET T /\ a \notin X \ {x}
        BY <3>1
      <4>2. g[X] = old[X] /\ g[X \ {x}] = old[X \ {x}]
        BY <3>1, <4>1
      <4> QED
        BY <2>3, <4>1, <4>2
    <3>2. CASE x = a
      <4>1. X \ {x} \in SUBSET T /\ a \notin X \ {x}
        BY <3>2
      <4>2. g[X] = h[a] + old[X \ {a}] /\ g[X \ {x}] = old[X \ {x}]
        BY <3>2, <4>1
      <4> QED
        BY <3>2, <4>2
    <3>3. CASE a \in X /\ x # a
      <4>1. X \ {a} \in SUBSET (T \ {a}) /\ x \in X \ {a} /\ X \ {x} \in SUBSET T /\ a \in X \ {x}
            /\ (X \ {x}) \ {a} = (X \ {a}) \ {x} /\ (X \ {a}) \ {x} \in SUBSET (T \ {a})
        BY <3>3
      <4>2. g[X] = h[a] + old[X \ {a}] /\ g[X \ {x}] = h[a] + old[(X \ {a}) \ {x}]
        BY <3>3, <4>1
      <4>3. old[X \ {a}] = h[x] + old[(X \ {a}) \ {x}]
        BY <2>3, <4>1
      <4>4. h[x] \in Int /\ old[(X \ {a}) \ {x}] \in Int /\ h[a] \in Int
        BY <1>2, <2>3, <4>1
      <4> HIDE DEF g
      <4> QED
        BY <4>2, <4>3, <4>4
    <3> QED
      BY <3>1, <3>2, <3>3
  <2>6. Adds(g, h, T)
    <3> HIDE DEF g
    <3> QED
      BY <2>4, <2>5 DEF Adds
  <2> QED
    BY <1>2, <2>6
<1> QED
  BY <1>3, <1>4

\* The recursive definition of a sum is one: there is such a table.
LEMMA TableExists ==
    ASSUME NEW S, IsFiniteSet(S), NEW h \in [S -> Int], NEW g, Adds(g, h, S), NEW T \in SUBSET S
    PROVE  g[T] = IF T = {} THEN 0
                  ELSE h[Taken(T)] + g[T \ {Taken(T)}]
<1>1. CASE T = {}
  BY <1>1 DEF Adds
<1>2. CASE T # {}
  <2>1. PICK x \in T : x = Taken(T)
    BY <1>2 DEF Taken
  <2> QED
    BY <1>2, <2>1 DEF Adds
<1> QED
  BY <1>1, <1>2

\* A table of sums of points, none of which is negative, has no negative entry.
LEMMA NoNegativeSum ==
    ASSUME NEW S, IsFiniteSet(S), NEW h \in [S -> Nat], NEW table,
           \A T \in SUBSET S : table[T] = IF T = {} THEN 0 ELSE h[Taken(T)] + table[T \ {Taken(T)}]
    PROVE  table[S] \in Nat
<1> DEFINE Bad == {T \in SUBSET S : table[T] \notin Nat}
<1>1. SUFFICES ASSUME Bad # {} PROVE FALSE
  OBVIOUS
<1>2. PICK T \in Bad : \A x \in T : T \ {x} \notin Bad
  <2>1. Bad \in SUBSET SUBSET S
    OBVIOUS
  <2> HIDE DEF Bad
  <2> QED
    BY <1>1, <2>1, LeastSubset
<1>3. CASE T = {}
  <2>1. table[T] = 0
    BY <1>2, <1>3
  <2> QED
    BY <1>2, <2>1
<1>4. CASE T # {}
  <2>1. PICK x \in T : x = Taken(T)
    BY <1>4 DEF Taken
  <2>2. table[T] = h[x] + table[T \ {x}]
    BY <1>2, <1>4, <2>1
  <2>3. table[T \ {x}] \in Nat
    BY <1>2, <2>1
  <2>4. h[x] \in Nat
    BY <1>2, <2>1
  <2> QED
    BY <1>2, <2>2, <2>3, <2>4
<1> QED
  BY <1>3, <1>4

\* What the recursion defines, for points h of the members of S.
Sums(i, h, S) == [T \in SUBSET S |-> IF T = {} THEN 0 ELSE h[Taken(T)] + i[T \ {Taken(T)}]]

SumTable(h, S) == CHOOSE i : i = Sums(i, h, S)

\* The table adds one member, the one that the choice takes, to the sum of the others.
LEMMA SumsAdd ==
    ASSUME NEW S, IsFiniteSet(S), NEW h \in [S -> Int]
    PROVE  \A T \in SUBSET S :
             SumTable(h, S)[T] = IF T = {} THEN 0 ELSE h[Taken(T)] + SumTable(h, S)[T \ {Taken(T)}]
<1>1. PICK g : Adds(g, h, S)
  BY AddsExists
<1>2. g = Sums(g, h, S)
  <2>1. \A T \in SUBSET S : g[T] = IF T = {} THEN 0 ELSE h[Taken(T)] + g[T \ {Taken(T)}]
    BY <1>1, TableExists
  <2>2. g = [T \in SUBSET S |-> g[T]]
    BY <1>1 DEF Adds
  <2> QED
    BY <2>1, <2>2 DEF Sums
<1> DEFINE table == CHOOSE i : i = Sums(i, h, S)
<1>3. table = Sums(table, h, S)
  BY <1>2
<1> HIDE DEF table
<1>4. \A T \in SUBSET S : table[T] = IF T = {} THEN 0 ELSE h[Taken(T)] + table[T \ {Taken(T)}]
  <2>1. \A T \in SUBSET S : Sums(table, h, S)[T] = IF T = {} THEN 0 ELSE h[Taken(T)] + table[T \ {Taken(T)}]
    BY DEF Sums
  <2> QED
    BY <1>3, <2>1
<1> QED
  BY <1>4 DEF table, SumTable

\* Numbers that are not negative have a sum that is not, and not less than some one of them.
LEMMA SumIsNat ==
    ASSUME NEW S, IsFiniteSet(S), NEW h \in [S -> Nat]
    PROVE  LET sum == (CHOOSE i : i = Sums(i, h, S))[S] IN
           sum \in Nat /\ (S # {} => \E x \in S : sum >= h[x])
<1> DEFINE table == SumTable(h, S)
<1>3. h \in [S -> Int]
  OBVIOUS
<1>4. \A T \in SUBSET S : table[T] = IF T = {} THEN 0 ELSE h[Taken(T)] + table[T \ {Taken(T)}]
  BY <1>3, SumsAdd
<1> HIDE DEF table
<1>5. table[S] \in Nat
  BY <1>4, NoNegativeSum
<1>6. ASSUME S # {} PROVE \E x \in S : table[S] >= h[x]
  <2>1. PICK x \in S : x = Taken(S)
    BY <1>6 DEF Taken
  <2> DEFINE others == S \ {x}
             less == [y \in others |-> h[y]]
  <2>2. IsFiniteSet(others) /\ less \in [others -> Nat]
    BY FS_Subset
  <2>3. \A T \in SUBSET others : T # {} => Taken(T) \in others /\ less[Taken(T)] = h[Taken(T)]
    BY DEF Taken
  <2>4. \A T \in SUBSET others : table[T] = IF T = {} THEN 0 ELSE less[Taken(T)] + table[T \ {Taken(T)}]
    <3> HIDE DEF less
    <3> QED
      BY <1>4, <2>3
  <2>5. table[others] \in Nat
    <3> HIDE DEF others, less
    <3> QED
      BY <2>2, <2>4, NoNegativeSum
  <2>6. table[S] = h[x] + table[others]
    BY <1>4, <1>6, <2>1
  <2>7. h[x] \in Nat
    OBVIOUS
  <2> QED
    BY <2>5, <2>6, <2>7
<1> QED
  BY <1>5, <1>6 DEF table, SumTable

-----------------------------------------------------------------------------
(* The overlay.                                                             *)

\* Five things are a finite set.
LEMMA FiveAreFinite ==
    ASSUME NEW a, NEW b, NEW c, NEW d, NEW e
    PROVE  IsFiniteSet({a, b, c, d, e})
<1>1. IsFiniteSet({a}) /\ IsFiniteSet({b}) /\ IsFiniteSet({c}) /\ IsFiniteSet({d}) /\ IsFiniteSet({e})
  BY FS_Singleton
<1>2. IsFiniteSet({a} \cup {b}) /\ IsFiniteSet({c} \cup {d})
  BY <1>1, FS_Union
<1>3. IsFiniteSet(({a} \cup {b}) \cup ({c} \cup {d}))
  BY <1>2, FS_Union
<1>4. IsFiniteSet((({a} \cup {b}) \cup ({c} \cup {d})) \cup {e})
  BY <1>1, <1>3, FS_Union
<1>5. {a, b, c, d, e} = (({a} \cup {b}) \cup ({c} \cup {d})) \cup {e}
  OBVIOUS
<1> QED
  BY <1>4, <1>5

\* The bonus of the categories is a number of points that is not negative.
LEMMA BonusTyped ==
    ASSUME NEW categories, categories \subseteq DOMAIN CategoryWeight
    PROVE  CategoryBonus(categories) \in Nat
<1> DEFINE h == [c \in categories |-> CategoryWeight[c]]
           Step(i) == [T \in SUBSET categories |-> IF T = {} THEN 0 ELSE CategoryWeight[Taken(T)] + i[T \ {Taken(T)}]]
<1>1. MapThenSumSet(LAMBDA c : CategoryWeight[c], categories) = (CHOOSE i : i = Step(i))[categories]
  BY Zenon DEF MapThenSumSet, MapThenFoldSet, Taken
<1>2. \A i : Step(i) = Sums(i, h, categories)
  BY DEF Sums, Taken
<1>3. (CHOOSE i : i = Step(i)) = (CHOOSE i : i = Sums(i, h, categories))
  BY <1>2, Zenon
<1>4. IsFiniteSet(categories)
  <2>1. DOMAIN CategoryWeight =
          {"bullish", "pullback", "accumulation", "frequently_traded", "turnaround_multibagger",
           "accumulation_silent", "ara_hunter", "bearish", "scalping", "short_candidate"}
    BY DEF CategoryWeight
  <2> DEFINE some == {"bullish", "pullback", "accumulation", "frequently_traded", "turnaround_multibagger"}
             others == {"accumulation_silent", "ara_hunter", "bearish", "scalping", "short_candidate"}
  <2>2. IsFiniteSet(some) /\ IsFiniteSet(others)
    BY FiveAreFinite
  <2>3. DOMAIN CategoryWeight = some \cup others
    BY <2>1
  <2> HIDE DEF some, others
  <2>4. IsFiniteSet(DOMAIN CategoryWeight)
    BY <2>2, <2>3, FS_Union
  <2> QED
    BY <2>4, FS_Subset
<1>5. h \in [categories -> Nat]
  BY DEF CategoryWeight
<1> HIDE DEF Step, h
<1>6. (CHOOSE i : i = Step(i))[categories] \in Nat
  BY <1>3, <1>4, <1>5, SumIsNat
<1>7. PICK m : m = (CHOOSE i : i = Step(i))[categories]
  OBVIOUS
<1>8. CategoryBonus(categories) = Min({25, m})
  BY <1>1, <1>7, Zenon DEF CategoryBonus
<1> QED
  BY <1>6, <1>7, <1>8, LesserOf

\* So is the conviction of the confirmations that fire.
LEMMA ConvictionTyped ==
    ASSUME NEW ind
    PROVE  ConvictionScore(ind) \in Nat
<1> DEFINE S == Confirmations(ind)
           h == [c \in S |-> c[2]]
           Step(i) == [T \in SUBSET S |-> IF T = {} THEN 0 ELSE Taken(T)[2] + i[T \ {Taken(T)}]]
<1>1. ConvictionScore(ind) = (CHOOSE i : i = Step(i))[S]
  BY Zenon DEF ConvictionScore, MapThenSumSet, MapThenFoldSet, Taken
<1>2. \A i : Step(i) = Sums(i, h, S)
  BY DEF Sums, Taken
<1>3. (CHOOSE i : i = Step(i)) = (CHOOSE i : i = Sums(i, h, S))
  BY <1>2, Zenon
<1>4. IsFiniteSet(S)
  <2> DEFINE flow == <<"cmf", 4, ind.flow>>
             obv == <<"obv", 4, ind.flow>>
             adx == <<"adx", 4, ind.adx > 25>>
             volume == <<"volume", 3, ind.volRatio > 15>>
             macd == <<"macd", 3, ind.macd>>
             rsi == <<"rsi", 2, ind.rsi \in 51..74>>
             trend == <<"trend", 3, ind.above /\ Rising(ind) /\ ind.above200>>
             breakout == <<"breakout", 3, ind.atHigh>>
  <2>1. S \subseteq {flow, obv, adx, volume, macd, rsi, trend, breakout}
    BY Zenon DEF Confirmations
  <2> HIDE DEF flow, obv, adx, volume, macd, rsi, trend, breakout
  <2>2. IsFiniteSet({flow, obv, adx, volume, macd}) /\ IsFiniteSet({rsi, trend, breakout, breakout, breakout})
    BY FiveAreFinite
  <2>3. S \subseteq {flow, obv, adx, volume, macd} \cup {rsi, trend, breakout, breakout, breakout}
    BY <2>1
  <2>4. IsFiniteSet({flow, obv, adx, volume, macd} \cup {rsi, trend, breakout, breakout, breakout})
    BY <2>2, FS_Union
  <2> QED
    BY <2>3, <2>4, FS_Subset
<1>5. h \in [S -> Nat]
  BY DEF Confirmations
<1> HIDE DEF Step, h, S
<1>6. (CHOOSE i : i = Step(i))[S] \in Nat
  BY <1>3, <1>4, <1>5, SumIsNat
<1> QED
  BY <1>1, <1>6

\* The overlay lifts, and never over the cap; without it, the score is final.
LEMMA OverlayLifts ==
    ASSUME NEW ind, NEW categories, categories \subseteq DOMAIN CategoryWeight,
           NEW cap \in Int, cap = LiquidityCapFor(ValueTraded(ind)), cap <= 10000,
           NEW score \in Int, score <= cap, NEW allow \in BOOLEAN
    PROVE  LET final == ComputeOverlay(score, categories, ind, allow).final IN
           final \in Int /\ score <= final /\ final <= cap /\ (~allow => final = score)
<1> DEFINE bonus == IF allow THEN CategoryBonus(categories) ELSE 0
           conviction == IF allow THEN ConvictionScore(ind) ELSE 0
           lifted == ExploreScore(score, bonus, conviction)
           final == ComputeOverlay(score, categories, ind, allow).final
<1>1. bonus \in Nat /\ conviction \in Nat /\ (~allow => bonus = 0 /\ conviction = 0)
  BY BonusTyped, ConvictionTyped
<1>2. final = Min({lifted, cap})
  <2> DEFINE o == UncappedOverlay(score, categories, ind, allow)
  <2>1. o = [lift |-> bonus + conviction, final |-> lifted, ready |-> allow /\ IsTradeReady(categories, ind)]
    BY Zenon DEF UncappedOverlay
  <2>2. o.final = lifted
    <3> HIDE DEF lifted, bonus, conviction, o
    <3> QED
      BY <2>1
  <2>3. ComputeOverlay(score, categories, ind, allow) = [o EXCEPT !.final = Min({o.final, LiquidityCapFor(ValueTraded(ind))})]
    BY Zenon DEF ComputeOverlay
  <2>4. ComputeOverlay(score, categories, ind, allow).final = Min({o.final, cap})
    <3> HIDE DEF o, lifted, bonus, conviction
    <3> QED
      BY <2>1, <2>3
  <2> QED
    BY <2>2, <2>4
<1>3. lifted \in Int /\ score <= lifted /\ (~allow => lifted = score)
  <2>1. PICK m : m = Min({51, bonus + conviction})
    OBVIOUS
  <2> HIDE DEF bonus, conviction
  <2>2. lifted = score + ((P(100) - score) * m) \div 51
    <3>1. lifted = score + ((P(100) - score) * Min({51, bonus + conviction})) \div 51
      BY DEF ExploreScore
    <3> QED
      BY <2>1, <3>1
  <2> HIDE DEF lifted
  <2>3. m \in Nat /\ (~allow => m = 0)
    BY <1>1, <2>1, LesserOf
  <2>4. PICK left : left = P(100) - score
    OBVIOUS
  <2>5. left \in Nat
    BY <2>4 DEF P
  <2>6. PICK share : share = left * m
    OBVIOUS
  <2>7. share \in Nat /\ (m = 0 => share = 0)
    BY <2>3, <2>5, <2>6
  <2> QED
    BY <2>2, <2>3, <2>4, <2>6, <2>7
<1> HIDE DEF lifted
<1>4. final \in Int /\ score <= final /\ final <= cap /\ (~allow => final = score)
  <2> HIDE DEF final
  <2> QED
    BY <1>2, <1>3, LesserOf
<1> QED
  BY <1>4 DEF final

\* The caps are numbers, and the score of a stock is held under its own.
LEMMA CapsTyped ==
    ASSUME NEW ind, Measured(ind)
    PROVE  /\ LiquidityCapFor(ValueTraded(ind)) \in Int
           /\ LiquidityCapFor(ValueTraded(ind)) <= 10000
<1>1. ValueTraded(ind) \in Int
  BY DEF Measured, ValueTraded
<1> QED
  BY <1>1 DEF LiquidityCapFor, P

\* The score is a number under its turnover's cap, whatever a model's probability lifts;
\* a stock that is not investable is no BUY, and neither is a downtrend on its own score.
LEMMA ScoreIsCapped ==
    ASSUME NEW ind, Measured(ind), NEW probability \in {NoData, 9}
    PROVE  LET scored == SignalAndScore(ind, probability) IN
           /\ scored.score \in Int /\ scored.score <= LiquidityCapFor(ValueTraded(ind))
           /\ Illiquid(ind) => scored.signal # "BUY"
           /\ scored.signal \in {"BUY", "HOLD", "SELL"}
           /\ ind.stack = "bear" /\ probability = NoData => scored.signal # "BUY"
<1>1. PICK raw : raw = BlendWithMl(Calibrate(CompositeRaw(ind)), probability)
  OBVIOUS
<1>2. raw \in Int /\ (ind.stack = "bear" /\ probability = NoData => raw < 7000)
  <2>1. PICK technical \in Int : /\ technical = Calibrate(CompositeRaw(ind))
                                 /\ ind.stack = "bear" => technical < 7000
    BY CompositeTyped
  <2>2. (7 * technical + 3 * P(10 * probability)) \div 10 \in Int
    BY DEF P, NoData
  <2> QED
    BY <1>1, <2>1, <2>2, Clamped DEF BlendWithMl
<1>3. PICK cap : cap = LiquidityCapFor(ValueTraded(ind))
  OBVIOUS
<1>4. PICK capped : capped = Min({raw, cap})
  OBVIOUS
<1>5. capped \in Int /\ capped <= cap /\ capped <= raw
  BY <1>2, <1>3, <1>4, CapsTyped, LesserOf
<1>6. SignalAndScore(ind, probability) =
        [score |-> capped,
         signal |-> IF Illiquid(ind) /\ SignalForScore(capped) = "BUY" THEN "HOLD" ELSE SignalForScore(capped)]
  BY <1>1, <1>3, <1>4, Zenon DEF SignalAndScore, ApplyLiquidityCap
<1>7. SignalForScore(capped) \in {"BUY", "HOLD", "SELL"} /\ (SignalForScore(capped) = "BUY" => capped >= 7000)
  BY <1>5 DEF SignalForScore, P
<1> QED
  BY <1>2, <1>3, <1>5, <1>6, <1>7

-----------------------------------------------------------------------------
(* The cap holds for every row, contested or not: what another worker wrote  *)
(* decides whether a stock gets an overlay, never how high it may lift.      *)

\* What a row says, whoever wrote the attribute that it was built with.
CappedFor(row) ==
    row.live =>
        LET turnover == ValueTraded(profile[row.at]) IN
        /\ row.score <= row.final /\ row.final <= LiquidityCapFor(turnover)
        /\ Illiquid(profile[row.at]) => row.signal # "BUY"
        /\ row.illiquid => row.final = row.score
        /\ row.signal \in {"BUY", "HOLD", "SELL"}
        /\ profile[row.at].stack = "bear" => row.signal # "BUY"

CInv ==
    /\ profile \in [Stocks -> Profiles]
    /\ \A s \in Stocks : CappedFor(matches[s])
    /\ \A t \in Threads : ~At(t, "idle") /\ frame[t].op = "one" => frame[t].stock \in Stocks
    /\ \A t \in Threads : At(t, "told") => ~(Illiquid(profile[frame[t].stock]) /\ frame[t].signal = "BUY")

\* The context of the index does not touch the turnover.
LEMMA ContextKeeps ==
    ASSUME NEW s, profile[s] \in Profiles, NEW r
    PROVE  LET ind == MarketContext(s, r) IN
           /\ Measured(ind) /\ ValueTraded(ind) = ValueTraded(profile[s]) /\ Illiquid(ind) = Illiquid(profile[s])
           /\ ind.stack = profile[s].stack /\ ind.change \in Int
<1> DEFINE i == profile[s]
           ind == MarketContext(s, r)
<1>1. i \in Indicators
  BY ProfilesAssumption
<1>2. /\ ind.today = i.today /\ ind.avg = i.avg /\ ind.stack = i.stack /\ ind.change \in Int
      /\ i.today \in Int /\ i.avg \in Int /\ i.stack \in {"bull", "up", "down", "bear"}
  <2> DEFINE h == [i EXCEPT !.regime = r]
  <2>1. i.today \in Int /\ i.avg \in Int /\ i.stack \in {"bull", "up", "down", "bear"}
    BY <1>1 DEF Indicators
  <2>2. /\ h.today = i.today /\ h.avg = i.avg /\ h.stack = i.stack /\ h.change \in Int
        /\ "today" \in DOMAIN h /\ "avg" \in DOMAIN h /\ "stack" \in DOMAIN h /\ "change" \in DOMAIN h
    BY <1>1 DEF Indicators
  <2>3. ind = [h EXCEPT !.rs = IF r = "none" THEN 0 ELSE h.rs]
    BY Zenon DEF MarketContext
  <2> HIDE DEF h, ind, i
  <2> QED
    BY <2>1, <2>2, <2>3
<1> HIDE DEF ind, i
<1>3. Measured(ind) /\ ValueTraded(ind) = ValueTraded(i)
  BY <1>2 DEF Measured, ValueTraded
<1>4. Illiquid(ind) = Illiquid(i)
  BY <1>3, Zenon DEF Illiquid
<1> QED
  BY <1>2, <1>3, <1>4 DEF ind, i

\* A row of a stock is under its cap, whatever attribute it was built from.
LEMMA RowIsCapped ==
    ASSUME NEW s, profile[s] \in Profiles, NEW r, NEW flag \in BOOLEAN, NEW raced
    PROVE  CappedFor(Row(s, r, flag, raced))
<1> DEFINE ind == MarketContext(s, r)
           scored == SignalAndScore(ind, NoData)
           categories == Categorize(ind)
           overlay == ComputeOverlay(scored.score, categories, ind, ~flag)
           row == Row(s, r, flag, raced)
<1>1. /\ row.at = s /\ row.illiquid = flag /\ row.live
      /\ row.score = scored.score /\ row.signal = scored.signal /\ row.final = overlay.final
  BY DEF Row
<1>2. /\ Measured(ind) /\ ValueTraded(ind) = ValueTraded(profile[s])
      /\ Illiquid(ind) = Illiquid(profile[s]) /\ ind.stack = profile[s].stack
  BY ContextKeeps
<1>3. categories \subseteq DOMAIN CategoryWeight
  BY DEF Categorize
<1> HIDE DEF ind, categories, row
<1>4. PICK cap : cap = LiquidityCapFor(ValueTraded(ind))
  OBVIOUS
<1>5. cap \in Int /\ cap <= 10000
  BY <1>2, <1>4, CapsTyped
<1>6. /\ scored.score \in Int /\ scored.score <= cap
      /\ Illiquid(ind) => scored.signal # "BUY"
      /\ scored.signal \in {"BUY", "HOLD", "SELL"}
      /\ ind.stack = "bear" => scored.signal # "BUY"
  BY <1>2, <1>4, ScoreIsCapped
<1> HIDE DEF scored
<1>7. /\ scored.score <= overlay.final /\ overlay.final <= cap
      /\ flag => overlay.final = scored.score
  <2>1. PICK allow \in BOOLEAN : allow = ~flag
    OBVIOUS
  <2>2. LET final == ComputeOverlay(scored.score, categories, ind, allow).final IN
        scored.score <= final /\ final <= cap /\ (~allow => final = scored.score)
    BY <1>3, <1>4, <1>5, <1>6, OverlayLifts
  <2>3. overlay = ComputeOverlay(scored.score, categories, ind, allow)
    BY <2>1
  <2> HIDE DEF overlay
  <2> QED
    BY <2>1, <2>2, <2>3
<1> HIDE DEF overlay
<1> QED
  BY <1>1, <1>2, <1>4, <1>6, <1>7, Zenon DEF CappedFor, row

\* An engine without rows has none over its cap.
LEMMA InitCapped == PoolInit /\ EngineInit => CInv
BY DEF PoolInit, EngineInit, CInv, At, CappedFor, NoMatch

\* Rows and profiles as they were, and one thread moved with the stock of its task.
LEMMA MovesCapped ==
    ASSUME IInv, CInv, NEW t \in Threads, NEW l, NEW f,
           pc' = [pc EXCEPT ![t] = l], frame' = [frame EXCEPT ![t] = f],
           l = "idle" \/ (l # "told" /\ (f.op = "one" => f.stock \in Stocks)),
           UNCHANGED <<profile, matches>>
    PROVE  CInv'
<1>1. pc'[t] = l /\ frame'[t] = f /\ \A u \in Threads : u # t => pc'[u] = pc[u] /\ frame'[u] = frame[u]
  BY DEF IInv, Workers
<1>2. ASSUME NEW u \in Threads, ~At(u, "idle")', frame'[u].op = "one" PROVE frame'[u].stock \in Stocks
  BY <1>1, <1>2 DEF CInv, At
<1>3. ASSUME NEW u \in Threads, At(u, "told")'
      PROVE  ~(Illiquid(profile[frame'[u].stock]) /\ frame'[u].signal = "BUY")
  BY <1>1, <1>3 DEF CInv, At
<1> QED
  BY <1>2, <1>3 DEF CInv, CappedFor, At

\* A row that a worker enters, if it is under its cap, leaves all rows under theirs.
LEMMA EntersCapped ==
    ASSUME IInv, CInv, NEW t \in Threads, NEW s, NEW row, s \in Stocks => CappedFor(row),
           matches' = [matches EXCEPT ![s] = row], Done(t), UNCHANGED profile
    PROVE  CInv'
<1>1. \A u \in Stocks : CappedFor(matches'[u])
  <2> TAKE u \in Stocks
  <2>1. CASE u = s
    BY <2>1 DEF IInv, Rows
  <2>2. CASE u # s
    BY <2>2 DEF IInv, Rows, CInv
  <2> QED
    BY <2>1, <2>2
<1>2. pc'[t] = "idle" /\ \A u \in Threads : u # t => pc'[u] = pc[u] /\ frame'[u] = frame[u]
  BY DEF IInv, Workers, Done, Go
<1>3. ASSUME NEW u \in Threads, ~At(u, "idle")', frame'[u].op = "one" PROVE frame'[u].stock \in Stocks
  BY <1>2, <1>3 DEF CInv, At
<1>4. ASSUME NEW u \in Threads, At(u, "told")'
      PROVE  ~(Illiquid(profile[frame'[u].stock]) /\ frame'[u].signal = "BUY")
  BY <1>2, <1>4 DEF CInv, At
<1> QED
  BY <1>1, <1>3, <1>4 DEF CInv, CappedFor, At

\* Every step of the engine keeps the caps.
LEMMA StepCapped == IInv /\ CInv /\ [EngineNext]_engineAll => CInv'
<1> SUFFICES ASSUME IInv, CInv, [EngineNext]_engineAll PROVE CInv'
  OBVIOUS
<1>1. CASE UNCHANGED engineAll
  BY <1>1 DEF CInv, engineAll, pool, engineVars, At, CappedFor
<1>2. CASE StartRun
  BY <1>2 DEF CInv, StartRun, At, CappedFor, NoMatch
<1>3. ASSUME NEW t \in Threads, TakeStock(t) PROVE CInv'
  <2>1. PICK f : Go(t, "load", f) /\ f.op = "screen"
    BY <1>3 DEF TakeStock, Task
  <2> QED
    BY <1>3, <2>1, MovesCapped DEF TakeStock, Go
<1>4. ASSUME NEW t \in Threads, StartOne(t) PROVE CInv'
  <2>1. PICK s \in Stocks : Begin(t, "load", Task("one", s))
    BY <1>4 DEF StartOne
  <2>2. Task("one", s).stock = s
    BY DEF Task
  <2> QED
    BY <1>4, <2>1, <2>2, MovesCapped DEF StartOne, Begin, engineVars
<1>5. ASSUME NEW t \in Threads, Load(t) \/ ReadIndex(t) PROVE CInv'
  <2>1. PICK l, f :
          l \in {"index", "score"} /\ Go(t, l, f) /\ (f = frame[t] \/ \E level : f = [frame[t] EXCEPT !.regime = level])
    BY <1>5 DEF Load, ReadIndex
  <2>2. IsTask(frame[t]) /\ (frame[t].op = "one" => frame[t].stock \in Stocks)
    BY <1>5 DEF Load, ReadIndex, IInv, Workers, At, CInv
  <2>3. f.op = frame[t].op /\ f.stock = frame[t].stock
    BY <2>1, <2>2 DEF IsTask
  <2> QED
    BY <1>5, <2>1, <2>2, <2>3, MovesCapped DEF Go, Load, ReadIndex, engineVars
<1>6. ASSUME NEW t \in Threads, BuildOne(t) \/ Tell(t) PROVE CInv'
  <2>1. /\ pc' = [pc EXCEPT ![t] = "idle"] /\ frame' = [frame EXCEPT ![t] = NoFrame]
        /\ UNCHANGED <<profile, matches>>
    BY <1>6 DEF BuildOne, Tell, Done, Go, engineVars
  <2> QED
    BY <2>1, MovesCapped, Zenon
<1>7. ASSUME NEW t \in Threads, LoadFails(t) PROVE CInv'
  <2>1. CASE frame[t].op = "screen"
    <3>1. CappedFor(MockRow(frame[t].stock))
      BY DEF CappedFor, MockRow
    <3> QED
      BY <1>7, <2>1, <3>1, EntersCapped DEF LoadFails
  <2>2. CASE frame[t].op # "screen"
    <3>1. /\ pc' = [pc EXCEPT ![t] = "idle"] /\ frame' = [frame EXCEPT ![t] = NoFrame]
          /\ UNCHANGED <<profile, matches>>
      BY <1>7, <2>2 DEF LoadFails, Done, Go
    <3> QED
      BY <3>1, MovesCapped, Zenon
  <2> QED
    BY <2>1, <2>2
<1>8. ASSUME NEW t \in Threads, BuildRow(t) PROVE CInv'
  <2>1. illiquid \in BOOLEAN
    BY DEF IInv, AttributeIsOfStock
  <2>2. frame[t].stock \in Stocks => profile[frame[t].stock] \in Profiles
    BY DEF CInv
  <2>3. frame[t].stock \in Stocks => CappedFor(Row(frame[t].stock, frame[t].regime, illiquid, frame[t].contested))
    BY <2>1, <2>2, RowIsCapped
  <2> QED
    BY <1>8, <2>3, EntersCapped DEF BuildRow
<1>9. ASSUME NEW t \in Threads, Score(t) PROVE CInv'
  <2>1. UNCHANGED <<profile, matches>> /\ pc' = [pc EXCEPT ![t] = "build"] /\ At(t, "score")
    BY <1>9 DEF Score, Scored
  <2>2. ASSUME NEW u \in Threads
        PROVE  /\ At(u, "build") => frame'[u] = [frame[u] EXCEPT !.contested = TRUE]
               /\ ~At(u, "build") => frame'[u] = frame[u]
    BY <1>9 DEF Score, Scored
  <2>3. ASSUME NEW u \in Threads, ~At(u, "idle")
        PROVE  frame'[u].op = frame[u].op /\ frame'[u].stock = frame[u].stock
    BY <2>2, <2>3 DEF IInv, Workers, IsTask
  <2>4. pc'[t] = "build" /\ pc[t] = "score" /\ \A u \in Threads : u # t => pc'[u] = pc[u]
    BY <2>1 DEF IInv, Workers, At
  <2>5. ASSUME NEW u \in Threads, ~At(u, "idle")', frame'[u].op = "one" PROVE frame'[u].stock \in Stocks
    <3>1. ~At(u, "idle")
      BY <2>4, <2>5 DEF At
    <3> QED
      BY <2>3, <2>5, <3>1 DEF CInv
  <2>6. ASSUME NEW u \in Threads, At(u, "told")'
        PROVE  ~(Illiquid(profile[frame'[u].stock]) /\ frame'[u].signal = "BUY")
    <3>1. At(u, "told") /\ ~At(u, "build")
      BY <2>4, <2>6 DEF At
    <3> QED
      BY <2>2, <3>1 DEF CInv
  <2> QED
    BY <2>1, <2>5, <2>6 DEF CInv, CappedFor, At
<1>10. ASSUME NEW t \in Threads, Analyze(t) PROVE CInv'
  <2>1. PICK p \in {NoData, 9} :
          Go(t, "told", [frame[t] EXCEPT
             !.told = illiquid,
             !.signal = SignalAndScore(MarketContext(frame[t].stock, frame[t].regime), p).signal])
    BY <1>10 DEF Analyze
  <2> DEFINE signal == SignalAndScore(MarketContext(frame[t].stock, frame[t].regime), p).signal
             f == [frame[t] EXCEPT !.told = illiquid, !.signal = signal]
  <2>2. ~At(t, "idle") /\ frame[t].op = "one" /\ UNCHANGED <<profile, matches>>
    BY <1>10 DEF Analyze, At, engineVars
  <2>3. frame[t].stock \in Stocks /\ profile[frame[t].stock] \in Profiles
    BY <2>2 DEF CInv
  <2>4. Illiquid(profile[frame[t].stock]) => signal # "BUY"
    <3>1. PICK ind : ind = MarketContext(frame[t].stock, frame[t].regime)
      OBVIOUS
    <3>2. Measured(ind) /\ Illiquid(ind) = Illiquid(profile[frame[t].stock])
      BY <2>3, <3>1, ContextKeeps
    <3>3. Illiquid(ind) => SignalAndScore(ind, p).signal # "BUY"
      BY <3>2, ScoreIsCapped
    <3> QED
      BY <3>1, <3>2, <3>3
  <2>5. pc' = [pc EXCEPT ![t] = "told"] /\ frame' = [frame EXCEPT ![t] = f]
    BY <2>1 DEF Go
  <2> HIDE DEF signal
  <2>6. f.stock = frame[t].stock /\ f.signal = signal
    <3> DEFINE h == [frame[t] EXCEPT !.told = illiquid]
    <3>1. IsTask(frame[t])
      BY <2>2 DEF IInv, Workers
    <3>2. h.stock = frame[t].stock /\ "stock" \in DOMAIN h /\ "signal" \in DOMAIN h
      BY <3>1 DEF IsTask
    <3>3. f = [h EXCEPT !.signal = signal]
      BY Zenon
    <3> HIDE DEF h, f
    <3> QED
      BY <3>2, <3>3
  <2> HIDE DEF f
  <2>7. pc'[t] = "told" /\ frame'[t] = f /\ \A u \in Threads : u # t => pc'[u] = pc[u] /\ frame'[u] = frame[u]
    BY <2>5 DEF IInv, Workers
  <2>8. ASSUME NEW u \in Threads, ~At(u, "idle")', frame'[u].op = "one" PROVE frame'[u].stock \in Stocks
    BY <2>3, <2>6, <2>7, <2>8 DEF CInv, At
  <2>9. ASSUME NEW u \in Threads, At(u, "told")'
        PROVE  ~(Illiquid(profile[frame'[u].stock]) /\ frame'[u].signal = "BUY")
    <3>1. CASE u = t
      BY <2>4, <2>6, <2>7, <3>1
    <3>2. CASE u # t
      BY <2>7, <2>9, <3>2 DEF CInv, At
    <3> QED
      BY <3>1, <3>2
  <2> QED
    BY <2>2, <2>8, <2>9 DEF CInv, CappedFor, At
<1> QED
  BY <1>1, <1>2, <1>3, <1>4, <1>5, <1>6, <1>7, <1>8, <1>9, <1>10 DEF EngineNext

\* However the workers' scores and reads interleave, no overlay lifts a stock over
\* what its turnover allows, nothing that is not investable is a BUY, in a row or on
\* its page, and what its row calls illiquid keeps its base score.
THEOREM TurnoverCaps == EngineSpec => []CappedByTurnover
<1>1. IInv /\ CInv => CappedByTurnover
  BY DEF CInv, CappedFor, CappedByTurnover, Screened
<1> QED
  BY <1>1, InitInv, StepInv, InitCapped, StepCapped, PTL DEF EngineSpec

-----------------------------------------------------------------------------
(* What a ranking returns.  A strict order of a finite set is given by the  *)
(* members that are above each one.                                         *)

IsOrder(above, S) ==
    /\ above \in [S -> SUBSET S]
    /\ \A x \in S : x \notin above[x]
    /\ \A x \in S : \A y \in above[x] : above[y] \subseteq above[x]
    /\ \A x, y \in S : x = y \/ x \in above[y] \/ y \in above[x]

\* Every member of S has its place in s, after those that are above it.
IsRanking(s, above, S) ==
    /\ s \in [1..Cardinality(S) -> S]
    /\ \A i \in 1..Cardinality(S) : Cardinality(above[s[i]]) = i - 1
    /\ \A x \in S : \E i \in 1..Cardinality(S) : s[i] = x
    /\ \A i, j \in 1..Cardinality(S) : s[i] \in above[s[j]] <=> i < j

\* No two members have as many above them, and there is one for every number.
LEMMA PlacesAreTaken ==
    ASSUME NEW S, IsFiniteSet(S), NEW above, IsOrder(above, S)
    PROVE  LET n == Cardinality(S) IN
           /\ n \in Nat
           /\ \A x \in S : Cardinality(above[x]) \in 0..(n - 1)
           /\ \A x, y \in S : y \in above[x] <=> Cardinality(above[y]) < Cardinality(above[x])
           /\ \A x, y \in S : Cardinality(above[x]) = Cardinality(above[y]) => x = y
           /\ \A k \in 0..(n - 1) : \E x \in S : Cardinality(above[x]) = k
<1> DEFINE n == Cardinality(S)
           place == [x \in S |-> Cardinality(above[x])]
<1>1. n \in Nat
  BY FS_CardinalityType
<1>2. ASSUME NEW x \in S PROVE IsFiniteSet(above[x]) /\ Cardinality(above[x]) \in 0..(n - 1)
  <2>1. IsFiniteSet(above[x]) /\ Cardinality(above[x]) \in Nat /\ Cardinality(above[x]) <= n
    BY FS_Subset, FS_CardinalityType DEF IsOrder
  <2>2. above[x] # S
    BY DEF IsOrder
  <2>3. Cardinality(above[x]) # n
    BY <2>2, FS_Subset DEF IsOrder
  <2> QED
    BY <1>1, <2>1, <2>3
<1>3. ASSUME NEW x \in S, NEW y \in above[x] PROVE Cardinality(above[y]) < Cardinality(above[x])
  <2>1. y \in S /\ above[y] \in SUBSET above[x] /\ above[y] # above[x]
    BY DEF IsOrder
  <2>2. Cardinality(above[y]) <= Cardinality(above[x]) /\ Cardinality(above[y]) # Cardinality(above[x])
    BY <1>2, <2>1, FS_Subset
  <2>3. Cardinality(above[y]) \in Int /\ Cardinality(above[x]) \in Int
    BY <1>1, <1>2, <2>1
  <2> QED
    BY <2>2, <2>3
<1>4. ASSUME NEW x \in S, NEW y \in S, Cardinality(above[x]) = Cardinality(above[y]) PROVE x = y
  <2>1. Cardinality(above[y]) \in Int
    BY <1>1, <1>2
  <2> QED
    BY <1>3, <1>4, <2>1 DEF IsOrder
<1>5. ASSUME NEW x \in S, NEW y \in S, Cardinality(above[y]) < Cardinality(above[x]) PROVE y \in above[x]
  <2>1. Cardinality(above[y]) \in Int /\ Cardinality(above[x]) \in Int
    BY <1>1, <1>2
  <2>2. x # y /\ x \notin above[y]
    BY <1>3, <1>5, <2>1
  <2> QED
    BY <2>2 DEF IsOrder
<1>6. place \in Surjection(S, 0..(n - 1))
  <2>1. place \in Injection(S, 0..(n - 1))
    BY <1>2, <1>4 DEF Injection, IsInjective
  <2>2. IsFiniteSet(0..(n - 1)) /\ Cardinality(0..(n - 1)) = n
    BY <1>1, FS_Interval
  <2> HIDE DEF place
  <2> QED
    BY <2>1, <2>2, FS_Injection
<1>7. \A k \in 0..(n - 1) : \E x \in S : Cardinality(above[x]) = k
  BY <1>6 DEF Surjection
<1> QED
  BY <1>1, <1>2, <1>3, <1>4, <1>5, <1>7

\* Whatever fills the places in that order is a ranking.
LEMMA RankingIs ==
    ASSUME NEW S, IsFiniteSet(S), NEW above, IsOrder(above, S), NEW s,
           s = [i \in 1..Cardinality(S) |-> s[i]],
           \A i \in 1..Cardinality(S) : \A x \in S :
               Cardinality(above[x]) = i - 1 => s[i] \in S /\ Cardinality(above[s[i]]) = i - 1
    PROVE  IsRanking(s, above, S)
<1> DEFINE n == Cardinality(S)
<1>1. /\ n \in Nat
      /\ \A x \in S : Cardinality(above[x]) \in 0..(n - 1)
      /\ \A x, y \in S : y \in above[x] <=> Cardinality(above[y]) < Cardinality(above[x])
      /\ \A x, y \in S : Cardinality(above[x]) = Cardinality(above[y]) => x = y
      /\ \A k \in 0..(n - 1) : \E x \in S : Cardinality(above[x]) = k
  BY PlacesAreTaken
<1> HIDE DEF n
<1>2. ASSUME NEW i \in 1..n PROVE s[i] \in S /\ Cardinality(above[s[i]]) = i - 1
  <2>1. i - 1 \in 0..(n - 1)
    BY <1>1
  <2>2. PICK x \in S : Cardinality(above[x]) = i - 1
    BY <1>1, <2>1
  <2> QED
    BY <2>2 DEF n
<1>3. s \in [1..n -> S]
  BY <1>2 DEF n
<1>4. ASSUME NEW x \in S PROVE \E i \in 1..n : s[i] = x
  <2>1. PICK k \in 0..(n - 1) : k = Cardinality(above[x])
    BY <1>1
  <2>2. k + 1 \in 1..n /\ (k + 1) - 1 = k
    BY <1>1, <2>1
  <2>3. s[k + 1] = x
    BY <1>1, <1>2, <2>1, <2>2
  <2> QED
    BY <2>2, <2>3
<1>5. ASSUME NEW i \in 1..n, NEW j \in 1..n PROVE s[i] \in above[s[j]] <=> i < j
  <2>1. PICK x \in S, y \in S : x = s[i] /\ y = s[j]
    BY <1>2
  <2>2. Cardinality(above[x]) = i - 1 /\ Cardinality(above[y]) = j - 1
    BY <1>2, <2>1
  <2>3. x \in above[y] <=> i - 1 < j - 1
    BY <1>1, <2>2
  <2> QED
    BY <1>1, <2>1, <2>3
<1> QED
  BY <1>2, <1>3, <1>4, <1>5 DEF IsRanking, n

\* There is only one: a ranking of the same order has the same member at each place.
LEMMA RankingIsOne ==
    ASSUME NEW S, IsFiniteSet(S), NEW above, IsOrder(above, S), NEW s, NEW r,
           IsRanking(s, above, S), IsRanking(r, above, S)
    PROVE  s = r
<1> DEFINE n == Cardinality(S)
<1>1. /\ s \in [1..n -> S] /\ r \in [1..n -> S]
      /\ \A i \in 1..n : s[i] \in S /\ r[i] \in S
      /\ \A i \in 1..n : Cardinality(above[s[i]]) = Cardinality(above[r[i]])
  BY DEF IsRanking
<1>2. \A x, y \in S : Cardinality(above[x]) = Cardinality(above[y]) => x = y
  BY PlacesAreTaken
<1> HIDE DEF n
<1>3. \A i \in 1..n : s[i] = r[i]
  BY <1>1, <1>2
<1>4. s = [i \in 1..n |-> s[i]] /\ r = [i \in 1..n |-> r[i]]
  BY <1>1
<1> QED
  BY <1>3, <1>4

\* The places of a selection, in their order.
PlaceOrder(I) == [i \in I |-> {j \in I : j < i}]

\* Numbers are ranked by the choice of the one with as many smaller ones as its place.
LEMMA PlacesAreRanked ==
    ASSUME NEW n \in Nat, NEW I \in SUBSET (1..n), NEW p,
           p = [k \in 1..Cardinality(I) |-> CHOOSE i \in I : Cardinality({j \in I : j < i}) = k - 1]
    PROVE  IsFiniteSet(I) /\ IsOrder(PlaceOrder(I), I) /\ IsRanking(p, PlaceOrder(I), I)
<1> DEFINE above == PlaceOrder(I)
<1>1. IsFiniteSet(I)
  <2>1. IsFiniteSet(1..n)
    BY FS_Interval
  <2> QED
    BY <2>1, FS_Subset
<1>2. IsOrder(above, I)
  <2>1. \A i \in I : above[i] = {j \in I : j < i} /\ i \in Nat
    BY DEF PlaceOrder
  <2>2. above \in [I -> SUBSET I]
    BY DEF PlaceOrder
  <2> HIDE DEF above
  <2>3. ASSUME NEW x \in I, NEW y \in above[x] PROVE above[y] \subseteq above[x]
    <3>1. y \in I /\ y < x /\ x \in Nat /\ y \in Nat
      BY <2>1
    <3>2. \A j \in above[y] : j \in I /\ j \in Nat /\ j < y
      BY <2>1, <3>1
    <3>3. \A j \in above[y] : j \in I /\ j < x
      BY <3>1, <3>2
    <3> QED
      BY <2>1, <3>3
  <2> QED
    BY <2>1, <2>2, <2>3 DEF IsOrder
<1>4. ASSUME NEW k \in 1..Cardinality(I), NEW i \in I, Cardinality(above[i]) = k - 1
      PROVE  p[k] \in I /\ Cardinality(above[p[k]]) = k - 1
  <2>1. Cardinality({j \in I : j < i}) = k - 1
    BY <1>4 DEF PlaceOrder
  <2>2. p[k] = CHOOSE x \in I : Cardinality({y \in I : y < x}) = k - 1
    OBVIOUS
  <2>3. p[k] \in I /\ Cardinality({y \in I : y < p[k]}) = k - 1
    BY <2>1, <2>2
  <2> QED
    BY <2>3 DEF PlaceOrder
<1>3. p = [k \in 1..Cardinality(I) |-> p[k]]
  <2> DEFINE member(k) == CHOOSE i \in I : Cardinality({j \in I : j < i}) = k - 1
  <2>1. p = [k \in 1..Cardinality(I) |-> member(k)]
    OBVIOUS
  <2> HIDE DEF member
  <2> QED
    BY <2>1
<1>5. IsRanking(p, above, I)
  <2> HIDE DEF above
  <2> QED
    BY <1>1, <1>2, <1>3, <1>4, RankingIs
<1> QED
  BY <1>1, <1>2, <1>5

\* As many members of U as places in T, if s has each of them at one place.
Enumerates(s, T, U) ==
    /\ \A i, j \in T : s[i] = s[j] => i = j
    /\ \A i \in T : s[i] \in U
    /\ \A x \in U : \E i \in T : s[i] = x

\* As many members as places, where each has one.
LEMMA MembersAreCounted ==
    ASSUME NEW T, IsFiniteSet(T), NEW U, NEW s, Enumerates(s, T, U)
    PROVE  IsFiniteSet(U) /\ Cardinality(U) = Cardinality(T)
<1> DEFINE f == [i \in T |-> s[i]]
<1>1. f \in Bijection(T, U)
  <2>1. f \in [T -> U] /\ (\A i, j \in T : f[i] = f[j] => i = j) /\ (\A x \in U : \E i \in T : f[i] = x)
    BY DEF Enumerates
  <2> HIDE DEF f
  <2> QED
    BY <2>1 DEF Bijection, Injection, Surjection, IsInjective
<1>2. ExistsBijection(T, U)
  BY <1>1 DEF ExistsBijection
<1> QED
  BY <1>2, FS_Bijection

\* What is left of an order among some.
Among(above, K) == [x \in K |-> above[x] \cap K]

\* What is left of an order is one.
LEMMA AmongIsOrder ==
    ASSUME NEW S, NEW above, IsOrder(above, S), NEW K \in SUBSET S
    PROVE  IsOrder(Among(above, K), K)
<1> DEFINE some == Among(above, K)
<1>1. \A x \in K : some[x] = above[x] \cap K /\ x \in S
  BY DEF Among
<1>2. some \in [K -> SUBSET K]
  BY DEF Among
<1> HIDE DEF some
<1>3. ASSUME NEW x \in K, NEW y \in some[x] PROVE some[y] \subseteq some[x]
  <2>1. y \in K /\ y \in above[x] /\ above[y] \subseteq above[x]
    BY <1>1 DEF IsOrder
  <2> QED
    BY <1>1, <2>1
<1>4. ASSUME NEW x \in K, NEW y \in K, x # y PROVE x \in some[y] \/ y \in some[x]
  BY <1>1, <1>4 DEF IsOrder
<1>5. \A x \in K : x \notin some[x]
  BY <1>1 DEF IsOrder
<1>6. IsOrder(some, K)
  BY <1>2, <1>3, <1>4, <1>5 DEF IsOrder
<1> QED
  BY <1>6 DEF some

\* I are the places of the members of K in s, and q what s has at the places p.
Selects(I, s, K) == I = {i \in DOMAIN s : s[i] \in K}
Follows(q, s, p) == q = [k \in DOMAIN p |-> s[p[k]]]

\* A selection from a ranking, in its order, is the ranking of what is selected.
LEMMA SelectionIsRanked ==
    ASSUME NEW S, IsFiniteSet(S), NEW above, IsOrder(above, S), NEW s, IsRanking(s, above, S),
           NEW K \in SUBSET S, NEW I, Selects(I, s, K),
           NEW p, IsRanking(p, PlaceOrder(I), I), NEW q, Follows(q, s, p)
    PROVE  Cardinality(I) = Cardinality(K) /\ IsRanking(q, Among(above, K), K)
<1> DEFINE n == Cardinality(S)
           some == Among(above, K)
<1>1. n \in Nat /\ s \in [1..n -> S] /\ (\A x \in S : \E i \in 1..n : s[i] = x)
      /\ \A i, j \in 1..n : s[i] \in above[s[j]] <=> i < j
  BY FS_CardinalityType DEF IsRanking
<1>2. \A i, j \in 1..n : s[i] = s[j] => i = j
  <2> TAKE i \in 1..n, j \in 1..n
  <2> SUFFICES ASSUME s[i] = s[j] PROVE i = j
    OBVIOUS
  <2>1. s[i] \notin above[s[j]] /\ s[j] \notin above[s[i]]
    BY <1>1 DEF IsOrder
  <2>2. ~(i < j) /\ ~(j < i)
    BY <1>1, <2>1
  <2> QED
    BY <2>2
<1>3. /\ I \in SUBSET (1..n)
      /\ \A i \in I : s[i] \in K
      /\ \A x \in K : \E i \in I : s[i] = x
  BY <1>1 DEF Selects
<1>4. IsFiniteSet(K) /\ Cardinality(K) = Cardinality(I)
  <2>1. IsFiniteSet(I)
    <3>1. IsFiniteSet(1..n)
      BY <1>1, FS_Interval
    <3> QED
      BY <1>3, <3>1, FS_Subset
  <2>2. Enumerates(s, I, K)
    BY <1>2, <1>3 DEF Enumerates
  <2> QED
    BY <2>1, <2>2, MembersAreCounted
<1>5. IsOrder(some, K)
  BY AmongIsOrder
<1>6. /\ p \in [1..Cardinality(I) -> I]
      /\ \A k \in 1..Cardinality(I) : Cardinality(PlaceOrder(I)[p[k]]) = k - 1
      /\ q = [k \in 1..Cardinality(I) |-> s[p[k]]]
  BY DEF IsRanking, Follows
<1>7. ASSUME NEW k \in 1..Cardinality(K) PROVE q[k] \in K /\ Cardinality(some[q[k]]) = k - 1
  <2>1. PICK i \in I : i = p[k] /\ q[k] = s[i]
    BY <1>4, <1>6
  <2> DEFINE T == {j \in I : j < i}
  <2>2. Cardinality(T) = k - 1
    BY <1>4, <1>6, <2>1 DEF PlaceOrder
  <2>3. s[i] \in K /\ T \in SUBSET (1..n)
    BY <1>3
  <2>4. (\A j \in T : s[j] \in some[s[i]]) /\ (\A x \in some[s[i]] : \E j \in T : s[j] = x)
    <3>1. some[s[i]] = above[s[i]] \cap K
      BY <2>3 DEF Among
    <3>2. ASSUME NEW j \in I PROVE s[j] \in above[s[i]] <=> j \in T
      BY <1>1, <1>3
    <3> HIDE DEF T, some
    <3>3. T \subseteq I
      BY DEF T
    <3> QED
      BY <1>3, <3>1, <3>2, <3>3
  <2> HIDE DEF T, some, n
  <2>5. Cardinality(some[s[i]]) = Cardinality(T)
    <3>1. IsFiniteSet(T)
      <4>1. IsFiniteSet(1..n)
        BY <1>1, FS_Interval
      <4> QED
        BY <2>3, <4>1, FS_Subset
    <3>2. Enumerates(s, T, some[s[i]])
      BY <1>2, <2>3, <2>4 DEF Enumerates
    <3> QED
      BY <3>1, <3>2, MembersAreCounted
  <2> QED
    BY <2>1, <2>2, <2>3, <2>5
<1>8. q = [k \in 1..Cardinality(K) |-> q[k]]
  BY <1>4, <1>6
<1> HIDE DEF some, n
<1>9. IsRanking(q, some, K)
  BY <1>4, <1>5, <1>7, <1>8, RankingIs
<1> QED
  BY <1>4, <1>9 DEF some

-----------------------------------------------------------------------------
(* The pages that are cut from a screen.                                    *)

\* What the sort of a screen needs of its rows: numbers, and one row of a stock.
Sortable(rows) ==
    /\ IsFiniteSet(rows)
    /\ \A r \in rows : r.final \in Int /\ r.today \in Int /\ r.change \in Int /\ r.at \in Int
    /\ \A a, b \in rows : a.at = b.at => a = b

RowOrder(rows) == [r \in rows |-> {b \in rows : Before(b, r)}]

\* The sort of a screen tells every two rows apart: by score, turnover, change or place.
LEMMA RowsAreOrdered ==
    ASSUME NEW rows, Sortable(rows)
    PROVE  IsOrder(RowOrder(rows), rows)
<1> DEFINE above == RowOrder(rows)
<1>1. above \in [rows -> SUBSET rows] /\ \A r, b \in rows : b \in above[r] <=> Before(b, r)
  BY DEF RowOrder
<1>2. \A r \in rows : ~Before(r, r)
  BY DEF Sortable, Before
<1>3. ASSUME NEW a \in rows, NEW b \in rows, NEW c \in rows, Before(a, b), Before(b, c) PROVE Before(a, c)
  <2> DEFINE numbers(r) == r.final \in Int /\ r.today \in Int /\ r.change \in Int /\ r.at \in Int
  <2>1. numbers(a) /\ numbers(b) /\ numbers(c)
    BY DEF Sortable
  <2> QED
    BY <1>3, <2>1 DEF Before
<1>4. ASSUME NEW a \in rows, NEW b \in rows, a # b PROVE Before(a, b) \/ Before(b, a)
  <2>1. a.at # b.at
    BY <1>4 DEF Sortable
  <2> QED
    BY <2>1 DEF Sortable, Before
<1> HIDE DEF above
<1>5. ASSUME NEW r \in rows, NEW b \in above[r] PROVE above[b] \subseteq above[r]
  BY <1>1, <1>3
<1>6. ASSUME NEW a \in rows, NEW b \in rows, a # b PROVE a \in above[b] \/ b \in above[a]
  BY <1>1, <1>4, <1>6
<1>7. IsOrder(above, rows)
  BY <1>1, <1>2, <1>5, <1>6 DEF IsOrder
<1> QED
  BY <1>7 DEF above

\* The member of rows at place i.
RowAt(rows, i) == CHOOSE r \in rows : Cardinality({b \in rows : Before(b, r)}) = i - 1

\* So the sort is the ranking of the rows.
LEMMA RowsAreRanked ==
    ASSUME NEW rows, Sortable(rows), NEW s, s = [i \in 1..Cardinality(rows) |-> RowAt(rows, i)]
    PROVE  IsRanking(s, RowOrder(rows), rows)
<1>1. ASSUME NEW i \in 1..Cardinality(rows), NEW r \in rows, Cardinality(RowOrder(rows)[r]) = i - 1
      PROVE  s[i] \in rows /\ Cardinality(RowOrder(rows)[s[i]]) = i - 1
  <2>1. Cardinality({b \in rows : Before(b, r)}) = i - 1
    BY <1>1 DEF RowOrder
  <2>2. PICK x : x = RowAt(rows, i)
    OBVIOUS
  <2>3. x \in rows /\ Cardinality({b \in rows : Before(b, x)}) = i - 1
    BY <2>1, <2>2 DEF RowAt
  <2> QED
    BY <2>2, <2>3 DEF RowOrder
<1>2. s = [i \in 1..Cardinality(rows) |-> s[i]]
  OBVIOUS
<1>3. IsFiniteSet(rows)
  BY DEF Sortable
<1> QED
  BY <1>1, <1>2, <1>3, RowsAreOrdered, RankingIs

\* The first rows of a sequence of n rows: all of them, if MAX_LIMIT is not exceeded.
LEMMA FirstAre ==
    ASSUME NEW n \in Nat, NEW S, NEW s \in [1..n -> S], NEW limit \in Nat \ {0}
    PROVE  /\ \E m \in 0..n : FirstOf(s, limit) = [i \in 1..m |-> s[i]]
           /\ limit = MaxLimit /\ n <= MaxLimit => FirstOf(s, limit) = s
<1>1. Len(s) = n /\ s \in Seq(S)
  BY LenProperties, SeqDef
<1>2. PICK a \in Int : a = Min({limit, MaxLimit}) /\ a = IF limit <= MaxLimit THEN limit ELSE MaxLimit
  BY LesserOf, LimitAssumption
<1>3. PICK b \in Int : b = Max({1, a}) /\ b = IF 1 >= a THEN 1 ELSE a
  BY GreaterOf
<1>4. PICK m \in Int : m = Min({b, n}) /\ m = IF b <= n THEN b ELSE n
  BY LesserOf
<1>5. FirstOf(s, limit) = SubSeq(s, 1, m)
  BY <1>1, <1>2, <1>3, <1>4 DEF FirstOf
<1>9. MaxLimit \in Nat /\ MaxLimit >= 1
  BY LimitAssumption
<1>6. m \in 0..n
  <2>1. 1 <= b
    BY <1>3
  <2> QED
    BY <1>4, <2>1
<1>7. SubSeq(s, 1, m) = [i \in 1..m |-> s[i]]
  BY <1>1, <1>6
<1>8. ASSUME limit = MaxLimit, n <= MaxLimit PROVE m = n
  <2>1. a = MaxLimit
    BY <1>2, <1>8
  <2>2. b = MaxLimit
    BY <1>3, <1>9, <2>1
  <2> QED
    BY <1>4, <1>8, <1>9, <2>2
<1> QED
  BY <1>5, <1>6, <1>7, <1>8

\* The rows that a screen keeps.
KeptOf(all, minScore, wanted, floor) ==
    {r \in all :
        /\ (\E l \in all : l.live) => r.live
        /\ r.score >= minScore
        /\ Durable(r) >= floor
        /\ Wanted(r, wanted)}

\* And those of them that a page shows.
PageOf(rows, minScore, wanted) == {r \in rows : r.score >= minScore /\ Wanted(r, wanted)}

\* What can be sorted can be filtered first.
LEMMA SomeAreSortable ==
    ASSUME NEW rows, Sortable(rows), NEW some \in SUBSET rows
    PROVE  Sortable(some)
BY FS_Subset DEF Sortable

\* A screen shows the first rows of the ranking of those that it keeps.
LEMMA FinalizeRanks ==
    ASSUME NEW all, Sortable(all), NEW limit, NEW minScore, NEW wanted, NEW floor
    PROVE  LET kept == KeptOf(all, minScore, wanted, floor) IN
           \E s : /\ IsRanking(s, RowOrder(kept), kept)
                 /\ Finalize(all, limit, minScore, wanted, floor) =
                        [matches |-> FirstOf(s, limit), total |-> Cardinality(kept)]
<1> DEFINE kept == KeptOf(all, minScore, wanted, floor)
           s == [i \in 1..Cardinality(kept) |-> RowAt(kept, i)]
<1>1. Sortable(kept)
  BY SomeAreSortable DEF KeptOf
<1>2. IsRanking(s, RowOrder(kept), kept)
  <2> HIDE DEF kept
  <2> QED
    BY <1>1, RowsAreRanked
<1>3. Finalize(all, limit, minScore, wanted, floor) = [matches |-> FirstOf(s, limit), total |-> Cardinality(kept)]
  <2> DEFINE taken == {r \in all :
                          /\ (\E l \in all : l.live) => r.live
                          /\ r.score >= minScore
                          /\ Durable(r) >= floor
                          /\ Wanted(r, wanted)}
             t == [i \in 1..Cardinality(taken) |-> CHOOSE x \in taken : Cardinality({y \in taken : Before(y, x)}) = i - 1]
  <2>1. Finalize(all, limit, minScore, wanted, floor) = [matches |-> FirstOf(t, limit), total |-> Cardinality(taken)]
    BY Zenon DEF Finalize, Ranked
  <2>2. taken = kept
    BY Zenon DEF KeptOf
  <2>3. t = [i \in 1..Cardinality(taken) |-> RowAt(taken, i)]
    BY Zenon DEF RowAt
  <2> HIDE DEF taken, kept, t
  <2>4. t = s
    BY <2>2, <2>3
  <2> HIDE DEF s
  <2> QED
    BY <2>1, <2>2, <2>4
<1> QED
  BY <1>2, <1>3

\* The page of a snapshot is ranked as it is.
LEMMA SliceRanks ==
    ASSUME NEW rows, Sortable(rows), NEW screen, IsRanking(screen.matches, RowOrder(rows), rows),
           NEW limit, NEW minScore, NEW wanted
    PROVE  LET kept == PageOf(rows, minScore, wanted) IN
           \E s : /\ IsRanking(s, RowOrder(kept), kept)
                 /\ Slice(screen, limit, minScore, wanted) =
                        [matches |-> FirstOf(s, limit), total |-> Cardinality(kept)]
<1> DEFINE kept == PageOf(rows, minScore, wanted)
           s == screen.matches
           n == Cardinality(rows)
           I == {i \in DOMAIN s : s[i].score >= minScore /\ Wanted(s[i], wanted)}
           member(k) == CHOOSE i \in I : Cardinality({j \in I : j < i}) = k - 1
           p == [k \in 1..Cardinality(I) |-> member(k)]
           q == [k \in DOMAIN p |-> s[p[k]]]
<1>1. IsFiniteSet(rows) /\ n \in Nat /\ s \in [1..n -> rows]
  BY FS_CardinalityType DEF Sortable, IsRanking
<1>2. I \in SUBSET (1..n) /\ I = {i \in 1..n : s[i] \in kept}
  BY <1>1 DEF PageOf
<1>3. IsFiniteSet(I) /\ IsRanking(p, PlaceOrder(I), I)
  <2> HIDE DEF I, n
  <2>1. p = [k \in 1..Cardinality(I) |-> CHOOSE i \in I : Cardinality({j \in I : j < i}) = k - 1]
    BY Zenon
  <2> QED
    BY <1>1, <1>2, <2>1, PlacesAreRanked
<1>4. q = [k \in 1..Cardinality(I) |-> s[p[k]]]
  <2> HIDE DEF member
  <2> QED
    OBVIOUS
<1>5. IsOrder(RowOrder(rows), rows)
  BY RowsAreOrdered
<1>6. Cardinality(I) = Cardinality(kept) /\ IsRanking(q, Among(RowOrder(rows), kept), kept)
  <2> HIDE DEF I, p, q, kept, s
  <2>1. kept \in SUBSET rows
    BY DEF kept, PageOf
  <2>2. IsRanking(s, RowOrder(rows), rows)
    BY DEF s
  <2>3. Selects(I, s, kept)
    BY <1>1, <1>2 DEF Selects
  <2>4. Follows(q, s, p)
    BY DEF Follows, q
  <2> QED
    BY <1>1, <1>3, <1>5, <2>1, <2>2, <2>3, <2>4, SelectionIsRanked
<1>7. Among(RowOrder(rows), kept) = RowOrder(kept)
  BY DEF Among, RowOrder, PageOf
<1>8. Slice(screen, limit, minScore, wanted) = [matches |-> FirstOf(q, limit), total |-> Len(q)]
  BY Zenon DEF Slice, Passing, Ranked
<1>9. Len(q) = Cardinality(kept)
  <2>1. IsFiniteSet(kept)
    BY SomeAreSortable DEF Sortable, PageOf
  <2> HIDE DEF kept, p, I
  <2> QED
    BY <1>4, <1>6, <2>1, FS_CardinalityType
<1> HIDE DEF q, kept
<1>10. /\ IsRanking(q, RowOrder(kept), kept)
       /\ Slice(screen, limit, minScore, wanted) = [matches |-> FirstOf(q, limit), total |-> Cardinality(kept)]
  BY <1>6, <1>7, <1>8, <1>9
<1>11. \E r : /\ IsRanking(r, RowOrder(kept), kept)
              /\ Slice(screen, limit, minScore, wanted) = [matches |-> FirstOf(r, limit), total |-> Cardinality(kept)]
  BY <1>10
<1> QED
  BY <1>11 DEF kept

\* A row is of its stock, and its numbers are known.
RowOf(r, s) ==
    r.at = s /\ r.score \in Int /\ r.final \in Int /\ r.today \in Int /\ r.change \in Int

RInv == \A s \in Stocks : matches[s] = NoMatch \/ RowOf(matches[s], s)

\* A row is of its stock, and has numbers to be sorted by.
LEMMA RowIsOf ==
    ASSUME NEW s, profile[s] \in Profiles, NEW r, NEW flag \in BOOLEAN, NEW raced
    PROVE  RowOf(Row(s, r, flag, raced), s)
<1> DEFINE ind == MarketContext(s, r)
           scored == SignalAndScore(ind, NoData)
           categories == Categorize(ind)
           overlay == ComputeOverlay(scored.score, categories, ind, ~flag)
           row == Row(s, r, flag, raced)
<1>1. /\ row.at = s /\ row.score = scored.score /\ row.final = overlay.final
      /\ row.today = ind.today /\ row.change = ind.change
  BY DEF Row
<1>2. Measured(ind) /\ ind.change \in Int
  BY ContextKeeps
<1>3. categories \subseteq DOMAIN CategoryWeight
  BY DEF Categorize
<1> HIDE DEF ind, categories, row
<1>4. PICK cap \in Int : cap = LiquidityCapFor(ValueTraded(ind)) /\ cap <= 10000
  BY <1>2, CapsTyped
<1>5. scored.score \in Int /\ scored.score <= cap
  BY <1>2, <1>4, ScoreIsCapped
<1> HIDE DEF scored
<1>6. overlay.final \in Int
  <2>1. PICK allow \in BOOLEAN : allow = ~flag
    OBVIOUS
  <2>2. ComputeOverlay(scored.score, categories, ind, allow).final \in Int
    BY <1>3, <1>4, <1>5, OverlayLifts
  <2>3. overlay = ComputeOverlay(scored.score, categories, ind, allow)
    BY <2>1
  <2> HIDE DEF overlay
  <2> QED
    BY <2>2, <2>3
<1> HIDE DEF overlay
<1>7. RowOf(row, s)
  BY <1>1, <1>2, <1>5, <1>6 DEF RowOf, Measured
<1> QED
  BY <1>7 DEF row

\* Every step of the engine keeps the rows so.
LEMMA StepRows == IInv /\ CInv /\ RInv /\ [EngineNext]_engineAll => RInv'
<1> SUFFICES ASSUME IInv, CInv, RInv, [EngineNext]_engineAll PROVE RInv'
  OBVIOUS
<1>1. ASSUME NEW s, NEW row, matches' = [matches EXCEPT ![s] = row], s \in Stocks => RowOf(row, s) PROVE RInv'
  BY <1>1 DEF RInv, IInv, Rows, RowOf
<1>2. ASSUME UNCHANGED matches PROVE RInv'
  BY <1>2 DEF RInv, RowOf
<1>3. CASE StartRun
  BY <1>3 DEF StartRun, RInv, NoMatch
<1>4. ASSUME NEW t \in Threads, LoadFails(t) PROVE RInv'
  <2>1. RowOf(MockRow(frame[t].stock), frame[t].stock)
    BY DEF RowOf, MockRow, P
  <2> QED
    BY <1>1, <1>2, <1>4, <2>1 DEF LoadFails
<1>5. ASSUME NEW t \in Threads, BuildRow(t) PROVE RInv'
  <2>1. frame[t].stock \in Stocks =>
          RowOf(Row(frame[t].stock, frame[t].regime, illiquid, frame[t].contested), frame[t].stock)
    BY RowIsOf DEF IInv, AttributeIsOfStock, CInv
  <2> QED
    BY <1>1, <1>5, <2>1 DEF BuildRow
<1>6. ASSUME NEW t \in Threads,
             \/ TakeStock(t) \/ StartOne(t) \/ Load(t) \/ ReadIndex(t) \/ Score(t)
             \/ BuildOne(t) \/ Analyze(t) \/ Tell(t)
      PROVE  UNCHANGED matches
  BY <1>6 DEF TakeStock, StartOne, Load, ReadIndex, Score, Scored, BuildOne, Analyze, Tell, engineVars
<1>7. CASE UNCHANGED engineAll
  BY <1>2, <1>7 DEF engineAll, engineVars
<1> QED
  BY <1>2, <1>3, <1>4, <1>5, <1>6, <1>7 DEF EngineNext

\* So the rows of a screen can be sorted, whichever are there.
LEMMA ScreenedAreSortable ==
    ASSUME RInv
    PROVE  Sortable(Screened) /\ \A r \in Screened : r.score \in Int
<1> DEFINE some == {s \in Stocks : matches[s] # NoMatch}
<1>1. \A s \in some : RowOf(matches[s], s)
  BY DEF RInv
<1>2. Screened = {matches[s] : s \in some}
  BY DEF Screened
<1>3. IsFiniteSet(some)
  BY StocksAssumption, FS_Subset
<1>4. \A s \in some : s \in Int
  BY StocksAssumption, FS_CardinalityType
<1> HIDE DEF some
<1>5. Enumerates(matches, some, Screened)
  BY <1>1, <1>2 DEF Enumerates, RowOf
<1>6. IsFiniteSet(Screened)
  BY <1>3, <1>5, MembersAreCounted
<1>7. \A r \in Screened : r.score \in Int /\ r.final \in Int /\ r.today \in Int /\ r.change \in Int /\ r.at \in Int
  BY <1>1, <1>2, <1>4 DEF RowOf
<1>8. \A a, b \in Screened : a.at = b.at => a = b
  BY <1>1, <1>2 DEF RowOf
<1> QED
  BY <1>6, <1>7, <1>8 DEF Sortable

\* A page that asks for a score of at least zero is the page of those that are kept for it.
LEMMA CutIsRun ==
    ASSUME RInv, NEW floor, Cardinality(KeptOf(Screened, 0, {}, floor)) <= MaxLimit,
           NEW limit \in Nat \ {0}, NEW minScore \in Nat, NEW wanted
    PROVE  Slice(Finalize(Screened, MaxLimit, 0, {}, floor), limit, minScore, wanted) =
           Finalize(Screened, limit, minScore, wanted, floor)
<1> DEFINE all == KeptOf(Screened, 0, {}, floor)
           kept == PageOf(all, minScore, wanted)
           screen == Finalize(Screened, MaxLimit, 0, {}, floor)
<1>1. Sortable(Screened) /\ \A r \in Screened : r.score \in Int
  BY ScreenedAreSortable
<1>2. all \in SUBSET Screened /\ kept \in SUBSET Screened
  BY DEF KeptOf, PageOf
<1>3. kept = KeptOf(Screened, minScore, wanted, floor)
  BY <1>1 DEF KeptOf, PageOf, Wanted
<1>4. PICK s : /\ IsRanking(s, RowOrder(all), all)
               /\ screen = [matches |-> FirstOf(s, MaxLimit), total |-> Cardinality(all)]
  BY <1>1, FinalizeRanks
<1>5. screen.matches = s
  <2> HIDE DEF all, screen
  <2>1. Cardinality(all) \in Nat
    BY <1>1, <1>2, FS_Subset, FS_CardinalityType DEF Sortable
  <2>2. s \in [1..Cardinality(all) -> all]
    BY <1>4 DEF IsRanking
  <2>3. FirstOf(s, MaxLimit) = s
    BY <2>1, <2>2, FirstAre, LimitAssumption DEF all
  <2> QED
    BY <1>4, <2>3
<1>6. PICK q : /\ IsRanking(q, RowOrder(kept), kept)
               /\ Slice(screen, limit, minScore, wanted) =
                      [matches |-> FirstOf(q, limit), total |-> Cardinality(kept)]
  <2>1. Sortable(all)
    BY <1>1, <1>2, SomeAreSortable
  <2> HIDE DEF all, screen
  <2> QED
    BY <1>4, <1>5, <2>1, SliceRanks
<1>7. PICK r : /\ IsRanking(r, RowOrder(kept), kept)
               /\ Finalize(Screened, limit, minScore, wanted, floor) =
                      [matches |-> FirstOf(r, limit), total |-> Cardinality(kept)]
  <2> HIDE DEF kept
  <2> QED
    BY <1>1, <1>3, FinalizeRanks
<1>8. q = r
  <2>1. Sortable(kept)
    BY <1>1, <1>2, SomeAreSortable
  <2> HIDE DEF kept
  <2> QED
    BY <1>6, <1>7, <2>1, RowsAreOrdered, RankingIsOne DEF Sortable
<1> QED
  BY <1>6, <1>7, <1>8

\* Whatever the universe, the workers' order, the filters and the floors: the page that is
\* cut from the snapshot of all is the one that a screen for the request would have made,
\* as long as no more stocks pass the floor than the snapshot holds.
THEOREM SliceIsTheRun == EngineSpec => []SliceIsRun
<1>1. RInv => SliceIsRun
  <2> SUFFICES ASSUME RInv, NEW floor, Finalize(Screened, MaxLimit, 0, {}, floor).total <= MaxLimit,
                      NEW limit \in {1, MaxLimit}, NEW minScore \in {P(50), P(70)}, NEW wanted
               PROVE  Slice(Finalize(Screened, MaxLimit, 0, {}, floor), limit, minScore, wanted) =
                      Finalize(Screened, limit, minScore, wanted, floor)
    BY DEF SliceIsRun
  <2>1. Finalize(Screened, MaxLimit, 0, {}, floor).total = Cardinality(KeptOf(Screened, 0, {}, floor))
    BY ScreenedAreSortable, FinalizeRanks
  <2>2. limit \in Nat \ {0} /\ minScore \in Nat
    BY LimitAssumption DEF P
  <2> QED
    BY <2>1, <2>2, CutIsRun
<1>2. PoolInit /\ EngineInit => RInv
  BY DEF EngineInit, RInv
<1> QED
  BY <1>1, <1>2, InitInv, StepInv, InitCapped, StepCapped, StepRows, PTL DEF EngineSpec

-----------------------------------------------------------------------------
(* Radar.  Its order and its percentiles only decide which opportunities    *)
(* come first: what the property says follows from the rows that they are   *)
(* made of, and from the weights of the market's score.                     *)

\* A share of at most c of every part.
LEMMA ShareUpTo ==
    ASSUME NEW a \in Int, NEW n \in Nat \ {0}, NEW c \in Nat, a <= c * n
    PROVE  a \div n \in Int /\ a \div n <= c
<1>1. PICK q \in Int : q = a \div n
  OBVIOUS
<1>2. n * q <= a
  BY <1>1
<1>3. ASSUME q >= c + 1 PROVE FALSE
  <2>1. n * q >= n * (c + 1)
    BY <1>3
  <2>2. n * (c + 1) = c * n + n
    OBVIOUS
  <2> QED
    BY <1>2, <2>1, <2>2
<1> QED
  BY <1>1, <1>3

\* A sum of numbers up to c.
LEMMA SumUpTo ==
    ASSUME NEW S, IsFiniteSet(S), NEW c \in Nat, NEW h \in [S -> Int], \A x \in S : h[x] <= c
    PROVE  SumTable(h, S)[S] \in Int /\ SumTable(h, S)[S] <= c * Cardinality(S)
<1> DEFINE table == SumTable(h, S)
<1>4. \A T \in SUBSET S : table[T] = IF T = {} THEN 0 ELSE h[Taken(T)] + table[T \ {Taken(T)}]
  BY SumsAdd
<1> HIDE DEF table
<1> DEFINE Bad == {T \in SUBSET S : ~(table[T] \in Int /\ table[T] <= c * Cardinality(T))}
<1>5. Bad = {}
  <2> SUFFICES ASSUME Bad # {} PROVE FALSE
    OBVIOUS
  <2>1. PICK T \in Bad : \A x \in T : T \ {x} \notin Bad
    <3>1. Bad \in SUBSET SUBSET S
      OBVIOUS
    <3> HIDE DEF Bad
    <3> QED
      BY <3>1, LeastSubset
  <2>2. IsFiniteSet(T) /\ Cardinality(T) \in Nat /\ T \in SUBSET S
    BY FS_Subset, FS_CardinalityType
  <2>3. CASE T = {}
    <3>1. table[T] = 0
      BY <1>4, <2>2, <2>3
    <3>2. c * Cardinality(T) = 0
      BY <2>3, FS_EmptySet
    <3> QED
      BY <3>1, <3>2
  <2>4. CASE T # {}
    <3>1. PICK x \in T : x = Taken(T)
      BY <2>4 DEF Taken
    <3>2. table[T] = h[x] + table[T \ {x}]
      BY <1>4, <2>2, <2>4, <3>1
    <3>3. table[T \ {x}] \in Int /\ table[T \ {x}] <= c * Cardinality(T \ {x})
      BY <2>1, <2>2
    <3>4. PICK m \in Int : m = Cardinality(T \ {x}) /\ m = Cardinality(T) - 1
      <4>1. Cardinality(T \ {x}) = Cardinality(T) - 1
        BY <2>2, FS_RemoveElement
      <4> QED
        BY <2>2, <4>1
    <3>5. h[x] \in Int /\ h[x] <= c
      BY <2>2
    <3>6. c * Cardinality(T) = c + c * m
      <4>1. Cardinality(T) = m + 1
        BY <2>2, <3>4
      <4> QED
        BY <4>1
    <3>7. table[T] \in Int /\ table[T] <= c * Cardinality(T)
      <4>1. PICK d : d = c * m
        OBVIOUS
      <4>2. d \in Int
        BY <4>1
      <4> QED
        BY <3>2, <3>3, <3>4, <3>5, <3>6, <4>1, <4>2
    <3> QED
      BY <3>7
  <2> QED
    BY <2>3, <2>4
<1>6. table[S] \in Int /\ table[S] <= c * Cardinality(S)
  BY <1>5
<1> QED
  BY <1>6 DEF table

\* A selection takes what it takes from the sequence.
InOrder(p, I) ==
    p = [k \in 1..Cardinality(I) |-> CHOOSE i \in I : Cardinality({j \in I : j < i}) = k - 1]

TakenFrom(q, s, S, I) == \E m \in Nat : q \in [1..m -> S] /\ \A k \in 1..m : \E i \in I : q[k] = s[i]

\* What passes a filter was in the sequence, at one of the places that pass.
LEMMA PassingTakes ==
    ASSUME NEW n \in Nat, NEW S, NEW s \in [1..n -> S], NEW I \in SUBSET (1..n), NEW p, InOrder(p, I),
           NEW q, Follows(q, s, p)
    PROVE  TakenFrom(q, s, S, I)
<1>1. IsFiniteSet(I) /\ IsRanking(p, PlaceOrder(I), I)
  BY PlacesAreRanked DEF InOrder
<1>2. Cardinality(I) \in Nat /\ p \in [1..Cardinality(I) -> I]
  BY <1>1, FS_CardinalityType DEF IsRanking
<1>3. q = [k \in 1..Cardinality(I) |-> s[p[k]]]
  BY <1>2 DEF Follows
<1> QED
  BY <1>2, <1>3 DEF TakenFrom

\* What the radar has to say of rows that it may show.
Shown(r) == ~r.illiquid /\ r.live

\* An opportunity as the sort needs it, of one of rows.
OpportunityOf(o, rows) ==
    o.row \in rows /\ Shown(o.row) /\ o.rank \in Int /\ o.place \in Int

ByRank(ops) == [o \in ops |-> {b \in ops : b.rank > o.rank \/ (b.rank = o.rank /\ b.place < o.place)}]

\* The rank and the place tell every two opportunities apart.
LEMMA OpportunitiesAreOrdered ==
    ASSUME NEW ops, \A o \in ops : o.rank \in Int /\ o.place \in Int,
           \A a, b \in ops : a.place = b.place => a = b
    PROVE  IsOrder(ByRank(ops), ops)
<1> DEFINE above == ByRank(ops)
<1>1. /\ above \in [ops -> SUBSET ops]
      /\ \A o, b \in ops : b \in above[o] <=> b.rank > o.rank \/ (b.rank = o.rank /\ b.place < o.place)
  BY DEF ByRank
<1> HIDE DEF above
<1>2. \A o \in ops : o \notin above[o]
  BY <1>1
<1>3. ASSUME NEW o \in ops, NEW b \in above[o] PROVE above[b] \subseteq above[o]
  <2>1. b \in ops
    BY <1>1
  <2>2. ASSUME NEW c \in above[b] PROVE c \in above[o]
    <3>1. c \in ops
      BY <1>1, <2>1
    <3>2. /\ b.rank > o.rank \/ (b.rank = o.rank /\ b.place < o.place)
          /\ c.rank > b.rank \/ (c.rank = b.rank /\ c.place < b.place)
      BY <1>1, <1>3, <2>1, <2>2, <3>1
    <3>3. c.rank > o.rank \/ (c.rank = o.rank /\ c.place < o.place)
      BY <2>1, <3>1, <3>2
    <3> QED
      BY <1>1, <3>1, <3>3
  <2> QED
    BY <2>2
<1>4. ASSUME NEW a \in ops, NEW b \in ops, a # b PROVE a \in above[b] \/ b \in above[a]
  <2>1. a.place # b.place
    BY <1>4
  <2> QED
    BY <1>1, <2>1
<1>5. IsOrder(above, ops)
  BY <1>1, <1>2, <1>3, <1>4 DEF IsOrder
<1> QED
  BY <1>5 DEF above

\* The percentile of a place is a number.
LEMMA PercentileTyped ==
    ASSUME NEW m \in Nat, NEW values, DOMAIN values = 1..m, values \in Seq(Int), NEW i \in 1..m
    PROVE  PercentileRanks(values)[i] \in Int
<1> DEFINE below == {j \in DOMAIN values : values[j] < values[i] \/ (values[j] = values[i] /\ j < i)}
<1>1. Len(values) = m
  OBVIOUS
<1>2. Cardinality(below) \in Nat
  <2>1. IsFiniteSet(1..m)
    BY FS_Interval
  <2>2. below \in SUBSET (1..m)
    OBVIOUS
  <2> HIDE DEF below
  <2> QED
    BY <2>1, <2>2, FS_Subset, FS_CardinalityType
<1> HIDE DEF below
<1>3. PercentileRanks(values)[i] =
        IF Len(values) = 1 THEN P(100) ELSE (P(100) * Cardinality(below)) \div (Len(values) - 1)
  BY DEF PercentileRanks, below
<1>4. m # 1 => m - 1 \in Nat \ {0}
  OBVIOUS
<1>5. PICK count \in Nat : count = Cardinality(below)
  BY <1>2
<1>6. m # 1 => (10000 * count) \div (m - 1) \in Int
  BY <1>4
<1> QED
  BY <1>1, <1>3, <1>5, <1>6 DEF P

\* The opportunities of a screen, and what they were selected from.
LEMMA OpportunitiesAre ==
    ASSUME NEW n \in Nat, NEW S, NEW s \in [1..n -> S],
           \A r \in S : r.score \in Int /\ r.today \in Int /\ r.change \in Int
    PROVE  \E m \in Nat : \E ops :
             Opportunities(s) \in [1..m -> ops] /\ \A o \in ops : OpportunityOf(o, S)
<1> DEFINE I == {i \in DOMAIN s : ~s[i].illiquid /\ s[i].live}
           p == [k \in 1..Cardinality(I) |-> CHOOSE i \in I : Cardinality({j \in I : j < i}) = k - 1]
           rows == [k \in DOMAIN p |-> s[p[k]]]
<1>1. PICK m \in Nat : rows \in [1..m -> S] /\ \A k \in 1..m : \E i \in I : rows[k] = s[i]
  <2>1. I \in SUBSET (1..n)
    OBVIOUS
  <2>2. Follows(rows, s, p)
    BY DEF Follows
  <2>3. InOrder(p, I)
    BY Zenon DEF InOrder
  <2> HIDE DEF I, p, rows
  <2>4. TakenFrom(rows, s, S, I)
    BY <2>1, <2>2, <2>3, PassingTakes
  <2> QED
    BY <2>4 DEF TakenFrom
<1>2. \A k \in 1..m : rows[k] \in S /\ Shown(rows[k])
  BY <1>1 DEF Shown
<1> DEFINE level == RegimeFromBreadth(Advancing(rows), Len(rows))
           strength == PercentileRanks([i \in DOMAIN rows |-> rows[i].change])
           liquidity == PercentileRanks([i \in DOMAIN rows |-> rows[i].today])
           rank(i) == (55 * rows[i].score + 20 * strength[i] + 15 * liquidity[i] + 10 * RegimeFactor(level)) \div 100
           opportunity(i) == [row |-> rows[i], place |-> i, regime |-> level, strength |-> strength[i], rank |-> rank(i)]
           ops == {opportunity(i) : i \in DOMAIN rows}
           first(k) == CHOOSE x \in ops : Cardinality({y \in ops : y.rank > x.rank \/ (y.rank = x.rank /\ y.place < x.place)}) = k - 1
           ranked == [k \in 1..Cardinality(ops) |-> first(k)]
<1>3. Opportunities(s) = ranked
  BY Zenon DEF Opportunities, Passing, Ranked
<1>4. ASSUME NEW i \in 1..m PROVE rank(i) \in Int
  <2>1. strength[i] \in Int
    <3> DEFINE values == [k \in DOMAIN rows |-> rows[k].change]
    <3>1. DOMAIN values = 1..m /\ values \in [1..m -> Int]
      <4> HIDE DEF rows
      <4> QED
        BY <1>1
    <3> HIDE DEF values, rows
    <3>2. values \in Seq(Int)
      BY <3>1, SeqDef
    <3>3. PercentileRanks(values)[i] \in Int
      BY <3>1, <3>2, PercentileTyped
    <3> QED
      BY <3>3 DEF values
  <2>2. liquidity[i] \in Int
    <3> DEFINE values == [k \in DOMAIN rows |-> rows[k].today]
    <3>1. DOMAIN values = 1..m /\ values \in [1..m -> Int]
      <4> HIDE DEF rows
      <4> QED
        BY <1>1
    <3> HIDE DEF values, rows
    <3>2. values \in Seq(Int)
      BY <3>1, SeqDef
    <3>3. PercentileRanks(values)[i] \in Int
      BY <3>1, <3>2, PercentileTyped
    <3> QED
      BY <3>3 DEF values
  <2>3. RegimeFactor(level) \in Int
    <3> HIDE DEF level
    <3> QED
      BY DEF RegimeFactor, P
  <2>4. rows[i].score \in Int
    BY <1>2
  <2>5. PICK a, b, c, d : a = rows[i].score /\ b = strength[i] /\ c = liquidity[i] /\ d = RegimeFactor(level)
    OBVIOUS
  <2>6. rank(i) = (55 * a + 20 * b + 15 * c + 10 * d) \div 100
    BY <2>5, Zenon
  <2> HIDE DEF strength, liquidity, level, rows, rank
  <2>7. a \in Int /\ b \in Int /\ c \in Int /\ d \in Int
    BY <2>1, <2>2, <2>3, <2>4, <2>5
  <2> QED
    BY <2>6, <2>7
<1> HIDE DEF rows, strength, liquidity, level, rank
<1>5. \A i \in 1..m : opportunity(i).row = rows[i] /\ opportunity(i).place = i /\ opportunity(i).rank = rank(i)
  OBVIOUS
<1>6. DOMAIN rows = 1..m
  BY <1>1
<1> HIDE DEF opportunity
<1>7. \A o \in ops : OpportunityOf(o, S)
  BY <1>2, <1>4, <1>5, <1>6 DEF OpportunityOf
<1>8. \A a, b \in ops : a.place = b.place => a = b
  BY <1>5, <1>6
<1>9. IsFiniteSet(ops)
  <2>1. IsFiniteSet(1..m)
    BY FS_Interval
  <2> DEFINE f == [i \in 1..m |-> opportunity(i)]
  <2>2. Enumerates(f, 1..m, ops)
    BY <1>5, <1>6 DEF Enumerates
  <2> HIDE DEF f, ops
  <2> QED
    BY <2>1, <2>2, MembersAreCounted
<1>10. IsRanking(ranked, ByRank(ops), ops)
  <2> HIDE DEF ops
  <2>1. IsOrder(ByRank(ops), ops)
    BY <1>7, <1>8, OpportunitiesAreOrdered DEF OpportunityOf
  <2>2. ASSUME NEW k \in 1..Cardinality(ops), NEW o \in ops, Cardinality(ByRank(ops)[o]) = k - 1
        PROVE  ranked[k] \in ops /\ Cardinality(ByRank(ops)[ranked[k]]) = k - 1
    <3>1. Cardinality({y \in ops : y.rank > o.rank \/ (y.rank = o.rank /\ y.place < o.place)}) = k - 1
      BY <2>2 DEF ByRank
    <3>2. PICK x : x = first(k)
      OBVIOUS
    <3>3. x \in ops /\ Cardinality({y \in ops : y.rank > x.rank \/ (y.rank = x.rank /\ y.place < x.place)}) = k - 1
      BY <3>1, <3>2
    <3>4. ranked[k] = x
      BY <3>2
    <3> HIDE DEF ranked, first
    <3> QED
      BY <3>3, <3>4 DEF ByRank
  <2>3. ranked = [k \in 1..Cardinality(ops) |-> ranked[k]]
    <3> HIDE DEF first
    <3> QED
      OBVIOUS
  <2> HIDE DEF ranked
  <2> QED
    BY <1>9, <2>1, <2>2, <2>3, RankingIs
<1>11. Cardinality(ops) \in Nat /\ ranked \in [1..Cardinality(ops) -> ops]
  <2> HIDE DEF ops, ranked
  <2> QED
    BY <1>9, <1>10, FS_CardinalityType DEF IsRanking
<1> HIDE DEF ranked, ops
<1> QED
  BY <1>3, <1>7, <1>11

\* The first twenty of some.
LEMMA TopAre ==
    ASSUME NEW m \in Nat, NEW S, NEW s \in [1..m -> S]
    PROVE  \E k \in 0..m : (m # 0 => k # 0) /\ Top20(s) = [i \in 1..k |-> s[i]]
<1>1. Len(s) = m /\ s \in Seq(S)
  BY LenProperties, SeqDef
<1>2. PICK k \in Int : k = Min({20, m}) /\ k = IF 20 <= m THEN 20 ELSE m
  BY LesserOf
<1>3. Top20(s) = SubSeq(s, 1, k)
  BY <1>1, <1>2 DEF Top20
<1>4. k \in 0..m /\ (m # 0 => k # 0)
  BY <1>2
<1>5. SubSeq(s, 1, k) = [i \in 1..k |-> s[i]]
  BY <1>1, <1>4
<1> QED
  BY <1>3, <1>4, <1>5

\* Every name that the radar calls a multibagger is an opportunity with the marks of one.
LEMMA MultibaggersAre ==
    ASSUME NEW m \in Nat, NEW S, NEW s \in [1..m -> S], NEW o \in Range(Multibaggers(s))
    PROVE  o \in S /\ IsMultibagger(o)
<1> DEFINE I == {i \in DOMAIN s : IsMultibagger(s[i])}
           p == [k \in 1..Cardinality(I) |-> CHOOSE i \in I : Cardinality({j \in I : j < i}) = k - 1]
           q == [k \in DOMAIN p |-> s[p[k]]]
<1>1. TakenFrom(q, s, S, I)
  <2>1. I \in SUBSET (1..m)
    OBVIOUS
  <2>2. Follows(q, s, p)
    BY DEF Follows
  <2>3. InOrder(p, I)
    BY Zenon DEF InOrder
  <2> HIDE DEF I, p, q
  <2> QED
    BY <2>1, <2>2, <2>3, PassingTakes
<1>2. Multibaggers(s) = Top20(q)
  BY Zenon DEF Multibaggers, Passing, Ranked
<1>3. \A i \in I : s[i] \in S /\ IsMultibagger(s[i])
  OBVIOUS
<1> HIDE DEF I, q, p
<1>4. PICK c \in Nat : q \in [1..c -> S] /\ \A k \in 1..c : \E i \in I : q[k] = s[i]
  BY <1>1 DEF TakenFrom
<1>5. PICK d \in 0..c : Top20(q) = [i \in 1..d |-> q[i]]
  BY <1>4, TopAre
<1>6. PICK k \in 1..d : o = q[k]
  <2> DEFINE top == Top20(q)
  <2>1. o \in Range(top)
    BY <1>2
  <2>2. DOMAIN top = 1..d /\ \A k \in 1..d : top[k] = q[k]
    BY <1>5
  <2> HIDE DEF top
  <2> QED
    BY <2>1, <2>2 DEF Range
<1>7. k \in 1..c
  BY <1>5, <1>6
<1> QED
  BY <1>3, <1>4, <1>6, <1>7

\* The sum of a sequence's numbers, none of which is over c.
LEMMA FunctionSumUpTo ==
    ASSUME NEW k \in Nat, NEW c \in Nat, NEW h \in [1..k -> Int], \A i \in 1..k : h[i] <= c
    PROVE  SumFunction(h) \in Int /\ SumFunction(h) <= c * k
<1> DEFINE S == 1..k
           Step(i) == [T \in SUBSET S |-> IF T = {} THEN 0 ELSE h[Taken(T)] + i[T \ {Taken(T)}]]
           sum == (CHOOSE i : i = Step(i))[S]
<1>1. SumFunction(h) = sum
  <2>1. DOMAIN h = S
    OBVIOUS
  <2> QED
    BY <2>1, Zenon DEF SumFunction, SumFunctionOnSet, FoldFunctionOnSet, MapThenFoldSet, Taken
<1>2. \A i : Step(i) = Sums(i, h, S)
  BY DEF Sums
<1>3. (CHOOSE i : i = Step(i)) = (CHOOSE i : i = Sums(i, h, S))
  BY <1>2, Zenon
<1>4. IsFiniteSet(S) /\ Cardinality(S) = k
  BY FS_Interval
<1>5. h \in [S -> Int] /\ \A i \in S : h[i] <= c
  OBVIOUS
<1> HIDE DEF Step, S
<1>6. SumTable(h, S)[S] \in Int /\ SumTable(h, S)[S] <= c * Cardinality(S)
  BY <1>4, <1>5, SumUpTo
<1>7. sum = SumTable(h, S)[S]
  BY <1>3, Zenon DEF SumTable
<1> HIDE DEF sum
<1> QED
  BY <1>1, <1>4, <1>6, <1>7

\* Opportunities of at most 75 points.
Under75(S) == \A o \in S : o.row.score \in Int /\ o.row.score <= 7500

\* No score of over 75 points leaves a market's score under the 60 of a neutral stance.
LEMMA RotationUnder ==
    ASSUME NEW m \in Nat, NEW S, NEW s \in [1..m -> S], Under75(S)
    PROVE  RotationScore(s) \in Int /\ RotationScore(s) < 6000
<1>0. PICK k \in 0..m : (m # 0 => k # 0) /\ Top20(s) = [i \in 1..k |-> s[i]]
  BY TopAre
<1> DEFINE n == Len(s)
           top == Top20(s)
           atLeast(least) == {i \in 1..n : s[i].row.score >= P(least)}
           strong == Counted(Cardinality(atLeast(85)), 12)
           elite == Counted(Cardinality(atLeast(90)), 6)
           average == SumFunction([i \in DOMAIN top |-> top[i].row.score]) \div Len(top)
           gaining == Cardinality({i \in 1..n : s[i].row.change > 0})
           breadth == (P(100) * gaining) \div n
           factor == RegimeFactor(s[1].regime)
           points == (40 * average + 20 * strong + 15 * elite
                      + 15 * breadth + 10 * factor) \div 100
<1>2. RotationScore(s) = IF n = 0 THEN 0 ELSE Clamp(points)
  BY Zenon DEF RotationScore
<1>1. n = m
  BY LenProperties, SeqDef
<1> HIDE DEF n
<1>3. CASE m = 0
  BY <1>1, <1>2, <1>3
<1>4. CASE m # 0
  <2>1. average \in Int /\ average <= 7500
    <3> DEFINE h == [i \in DOMAIN top |-> top[i].row.score]
    <3>1. k \in Nat /\ k # 0 /\ top = [i \in 1..k |-> s[i]] /\ 7500 \in Nat
      BY <1>0, <1>4
    <3>2. h \in [1..k -> Int] /\ \A i \in 1..k : h[i] <= 7500
      BY <1>0, <3>1 DEF Under75
    <3>3. Len(top) = k
      BY <3>1
    <3> HIDE DEF h, top
    <3>4. SumFunction(h) \in Int /\ SumFunction(h) <= 7500 * k
      BY <3>1, <3>2, FunctionSumUpTo
    <3>5. SumFunction(h) \div k \in Int /\ SumFunction(h) \div k <= 7500
      BY <1>4, <3>1, <3>4, ShareUpTo
    <3> QED
      BY <3>3, <3>5 DEF h
  <2>2. strong = 0 /\ elite = 0
    <3>1. atLeast(85) = {} /\ atLeast(90) = {}
      BY <1>1 DEF P, Under75
    <3>2. Cardinality(atLeast(85)) = 0 /\ Cardinality(atLeast(90)) = 0
      BY <3>1, FS_EmptySet, Zenon
    <3>3. Counted(0, 12) = 0 /\ Counted(0, 6) = 0
      <4>3. /\ Counted(0, 12) = Min({P(100), (P(100) * 0) \div 12})
            /\ Counted(0, 6) = Min({P(100), (P(100) * 0) \div 6})
        BY DEF Counted
      <4>4. PICK d, e, f : d = P(100) /\ e = (d * 0) \div 12 /\ f = (d * 0) \div 6
        OBVIOUS
      <4>5. Counted(0, 12) = Min({d, e}) /\ Counted(0, 6) = Min({d, f})
        BY <4>3, <4>4, Zenon
      <4>6. d = 10000 /\ e = 0 /\ f = 0
        BY <4>4 DEF P
      <4> QED
        BY <4>5, <4>6, LesserOf
    <3> QED
      BY <3>2, <3>3
  <2>3. breadth \in Int /\ breadth <= 10000
    <3>1. gaining \in Nat /\ gaining <= m
      <4> DEFINE some == {i \in 1..n : s[i].row.change > 0}
      <4>1. some \in SUBSET (1..m) /\ IsFiniteSet(1..m) /\ Cardinality(1..m) = m
        BY <1>1, FS_Interval
      <4> HIDE DEF some
      <4>2. IsFiniteSet(some) /\ Cardinality(some) <= Cardinality(1..m)
        BY <4>1, FS_Subset
      <4> QED
        BY <4>1, <4>2, FS_CardinalityType DEF some
    <3> HIDE DEF gaining
    <3>2. P(100) * gaining \in Int /\ P(100) * gaining <= 10000 * m
      BY <3>1 DEF P
    <3> QED
      BY <1>1, <1>4, <3>2, ShareUpTo
  <2>4. factor \in Int /\ factor <= 10000
    BY DEF RegimeFactor, P
  <2> HIDE DEF average, breadth, factor, strong, elite
  <2>5. PICK a, b, c, d, e : /\ a = average /\ b = breadth /\ c = factor
                            /\ d = strong /\ e = elite
    OBVIOUS
  <2>6. points = (40 * a + 20 * d + 15 * e + 15 * b + 10 * c) \div 100
    BY <2>5, Zenon
  <2> HIDE DEF points
  <2>7. d = 0 /\ e = 0 /\ a \in Int /\ b \in Int /\ c \in Int /\ a <= 7500 /\ b <= 10000 /\ c <= 10000
    BY <2>1, <2>2, <2>3, <2>4, <2>5
  <2>8. points \in Int /\ points <= 5500
    BY <2>6, <2>7
  <2>9. Clamp(points) \in Int /\ Clamp(points) <= 5500
    BY <2>8, Clamped, ClampedUnder
  <2> QED
    BY <1>1, <1>2, <1>4, <2>9
<1> QED
  BY <1>3, <1>4

\* The board is of rows of the screen.
LEMMA BoardIs ==
    ASSUME RInv
    PROVE  \E m \in Nat : Board \in [1..m -> Range(Board)] /\ \A o \in Range(Board) : OpportunityOf(o, Screened)
<1> DEFINE screen == Finalize(Screened, MaxLimit, 0, {}, 0)
           all == KeptOf(Screened, 0, {}, 0)
           kept == PageOf(all, 0, {})
           page == Slice(screen, MaxLimit, 0, {})
<1>1. Sortable(Screened) /\ \A r \in Screened : r.score \in Int
  BY ScreenedAreSortable
<1>2. all \in SUBSET Screened /\ kept \in SUBSET Screened
  BY DEF KeptOf, PageOf
<1>3. Sortable(all) /\ Sortable(kept)
  BY <1>1, <1>2, SomeAreSortable
<1>4. PICK s : /\ IsRanking(s, RowOrder(all), all)
               /\ screen = [matches |-> FirstOf(s, MaxLimit), total |-> Cardinality(all)]
  BY <1>1, FinalizeRanks
<1> HIDE DEF screen, all
<1>5. \E n \in Nat : screen.matches \in [1..n -> Screened]
  <2>1. Cardinality(all) \in Nat /\ s \in [1..Cardinality(all) -> all]
    BY <1>3, <1>4, FS_CardinalityType DEF IsRanking, Sortable
  <2>2. PICK n \in 0..Cardinality(all) : FirstOf(s, MaxLimit) = [i \in 1..n |-> s[i]]
    BY <2>1, FirstAre, LimitAssumption
  <2>3. [i \in 1..n |-> s[i]] \in [1..n -> Screened]
    BY <1>2, <2>1
  <2> QED
    BY <1>4, <2>1, <2>2, <2>3
<1>6. \E n \in Nat : page.matches \in [1..n -> Screened]
  <2> DEFINE rows == screen.matches
             I == {i \in DOMAIN rows : rows[i].score >= 0 /\ Wanted(rows[i], {})}
             p == [k \in 1..Cardinality(I) |-> CHOOSE i \in I : Cardinality({j \in I : j < i}) = k - 1]
             q == [k \in DOMAIN p |-> rows[p[k]]]
  <2>1. page.matches = FirstOf(q, MaxLimit)
    BY Zenon DEF Slice, Passing, Ranked
  <2>2. PICK n \in Nat : rows \in [1..n -> Screened]
    BY <1>5
  <2>3. I \in SUBSET (1..n)
    BY <2>2
  <2>4. Follows(q, rows, p)
    BY DEF Follows
  <2>5. InOrder(p, I)
    BY Zenon DEF InOrder
  <2> HIDE DEF rows, I, p, q
  <2>6. TakenFrom(q, rows, Screened, I)
    BY <2>2, <2>3, <2>4, <2>5, PassingTakes
  <2>7. PICK c \in Nat : q \in [1..c -> Screened]
    BY <2>6 DEF TakenFrom
  <2>8. PICK d \in 0..c : FirstOf(q, MaxLimit) = [i \in 1..d |-> q[i]]
    BY <2>7, FirstAre, LimitAssumption
  <2>9. [i \in 1..d |-> q[i]] \in [1..d -> Screened]
    BY <2>7
  <2> QED
    BY <2>1, <2>8, <2>9
<1>7. Board = Opportunities(page.matches)
  BY DEF Board, screen
<1> DEFINE rows == page.matches
<1>8. PICK n \in Nat : rows \in [1..n -> Screened]
  BY <1>6
<1>9. \A r \in Screened : r.score \in Int /\ r.today \in Int /\ r.change \in Int
  BY <1>1 DEF Sortable
<1> HIDE DEF rows, page
<1>10. PICK m \in Nat : \E ops : Opportunities(rows) \in [1..m -> ops] /\ \A o \in ops : OpportunityOf(o, Screened)
  BY <1>8, <1>9, OpportunitiesAre
<1>11. PICK ops : Board \in [1..m -> ops] /\ \A o \in ops : OpportunityOf(o, Screened)
  BY <1>7, <1>10 DEF rows
<1>12. Board \in [1..m -> Range(Board)] /\ Range(Board) \subseteq ops
  BY <1>11 DEF Range
<1> QED
  BY <1>11, <1>12

\* What a turnover allows.
LEMMA CapsAre ==
    ASSUME NEW ind, Measured(ind)
    PROVE  LiquidityCapFor(ValueTraded(ind)) \in {5000, 6000, 7500, 10000}
<1>1. ValueTraded(ind) \in Int
  BY DEF Measured, ValueTraded
<1> QED
  BY <1>1 DEF LiquidityCapFor, P

\* Whether the radar says to buy.
Recommended(o) == Recommendation(o) \in {"Buy", "Strong Buy"}

\* What the invariants say of an opportunity.
LEMMA OpportunityIsSound ==
    ASSUME IInv, CInv, RInv, NEW o, OpportunityOf(o, Screened)
    PROVE  LET cap == LiquidityCapFor(ValueTraded(profile[o.row.at])) IN
           /\ cap \in {5000, 6000, 7500, 10000}
           /\ o.row.score \in Int /\ o.row.score <= cap
           /\ Illiquid(profile[o.row.at]) => o.row.contested
           /\ Recommended(o) =>
                  ~Illiquid(profile[o.row.at]) /\ profile[o.row.at].stack # "bear"
<1> DEFINE cap == LiquidityCapFor(ValueTraded(profile[o.row.at]))
<1>1. PICK s \in Stocks : matches[s] # NoMatch /\ o.row = matches[s]
  BY DEF OpportunityOf, Screened
<1>2. RowOf(o.row, s) /\ ~o.row.illiquid /\ o.row.live
  BY <1>1 DEF RInv, OpportunityOf, Shown
<1>3. FlaggedFor(o.row) /\ CappedFor(o.row)
  BY <1>1 DEF IInv, Rows, CInv
<1>4. o.row.at = s /\ profile[s] \in Indicators
  BY <1>2, ProfilesAssumption DEF RowOf, CInv
<1>5. Measured(profile[s])
  BY <1>4 DEF Measured, Indicators
<1>6. cap \in {5000, 6000, 7500, 10000}
  BY <1>4, <1>5, CapsAre
<1> HIDE DEF cap
<1>7. o.row.score <= o.row.final /\ o.row.final <= cap /\ o.row.score \in Int /\ o.row.final \in Int
  BY <1>2, <1>3 DEF CappedFor, RowOf, cap
<1>8. o.row.score <= cap
  BY <1>6, <1>7
<1>9. Illiquid(profile[o.row.at]) => o.row.contested
  BY <1>2, <1>3 DEF FlaggedFor
<1>10. ASSUME Recommended(o) PROVE o.row.signal = "BUY"
  <2>1. o.row.signal \in {"BUY", "HOLD", "SELL"}
    BY <1>2, <1>3 DEF CappedFor
  <2> QED
    BY <1>10, <2>1 DEF Recommended, Recommendation
<1>11. o.row.signal = "BUY" => ~Illiquid(profile[o.row.at]) /\ profile[o.row.at].stack # "bear"
  BY <1>2, <1>3 DEF CappedFor
<1> QED
  BY <1>6, <1>7, <1>8, <1>9, <1>10, <1>11 DEF cap

\* Whatever the universe and the workers' order: the radar shows a stock that is not
\* investable only where another one's score was read for its own, never recommends it,
\* nor a downtrend, calls none a multibagger whose turnover is capped, and where all are
\* capped the market is at most underweight.
THEOREM RadarShowsInvestable == EngineSpec => []RadarIsInvestable
<1>1. IInv /\ CInv /\ RInv => RadarIsInvestable
  <2> SUFFICES ASSUME IInv, CInv, RInv PROVE RadarIsInvestable
    OBVIOUS
  <2> DEFINE shown == Range(Board)
             cap(o) == LiquidityCapFor(ValueTraded(profile[o.row.at]))
  <2>1. PICK m \in Nat : Board \in [1..m -> shown] /\ \A o \in shown : OpportunityOf(o, Screened)
    BY BoardIs
  <2>2. ASSUME NEW o \in shown
        PROVE  /\ cap(o) \in {5000, 6000, 7500, 10000}
               /\ o.row.score \in Int /\ o.row.score <= cap(o)
               /\ Illiquid(profile[o.row.at]) => o.row.contested
               /\ Recommended(o) =>
                      ~Illiquid(profile[o.row.at]) /\ profile[o.row.at].stack # "bear"
    BY <2>1, OpportunityIsSound
  <2> HIDE DEF shown, cap
  <2>3. ASSUME NEW o \in Range(Multibaggers(Board)) PROVE cap(o) = 10000
    <3>1. o \in shown /\ IsMultibagger(o)
      BY <2>1, MultibaggersAre
    <3>2. o.row.score > 8500
      BY <3>1 DEF IsMultibagger, P
    <3> QED
      BY <2>2, <3>1, <3>2
  <2>4. ASSUME \A o \in shown : cap(o) < 10000 PROVE Stance(Board) \in {"UNDERWEIGHT", "AVOID"}
    <3>1. Under75(shown)
      BY <2>2, <2>4 DEF Under75
    <3>2. RotationScore(Board) \in Int /\ RotationScore(Board) < 6000
      BY <2>1, <3>1, RotationUnder
    <3> QED
      BY <3>2 DEF Stance, P
  <2>5. \A o \in shown :
          /\ Illiquid(profile[o.row.at]) => o.row.contested
          /\ Recommendation(o) \in {"Buy", "Strong Buy"} =>
                 ~Illiquid(profile[o.row.at]) /\ profile[o.row.at].stack # "bear"
    <3>1. \A o \in shown :
            /\ Illiquid(profile[o.row.at]) => o.row.contested
            /\ Recommended(o) => ~Illiquid(profile[o.row.at]) /\ profile[o.row.at].stack # "bear"
      BY <2>2
    <3> QED
      BY <3>1, Zenon DEF Recommended
  <2>6. P(100) = 10000
    BY DEF P
  <2>7. \A o \in Range(Multibaggers(Board)) : cap(o) = P(100)
    BY <2>3, <2>6
  <2>8. (\A o \in shown : cap(o) < P(100)) => Stance(Board) \in {"UNDERWEIGHT", "AVOID"}
    BY <2>4, <2>6
  <2> QED
    BY <2>5, <2>7, <2>8, Zenon DEF RadarIsInvestable, shown, cap
<1>2. PoolInit /\ EngineInit => RInv
  BY DEF EngineInit, RInv
<1> QED
  BY <1>1, <1>2, InitInv, StepInv, InitCapped, StepCapped, StepRows, PTL DEF EngineSpec

-----------------------------------------------------------------------------
(* PortfolioAdvice.  The inductive invariant says what a request that no    *)
(* change has crossed knows of the names: the qualities are of the scores   *)
(* that still hold.                                                         *)

\* What may be said of a name without a score.
Honest(a) ==
    ~a.scored => /\ a.action \notin {"EXIT", "ADD", "AVERAGE"}
                 /\ a.action = "REDUCE" => a.reasons \subseteq {"concentration", "regime"}

\* What may be said of a strong one.
Patient(a) ==
    a.scored /\ a.score >= 75 /\ a.signal # "SELL" =>
        a.action # "EXIT" /\ a.reasons \subseteq {"concentration", "profit", "regime"}

IsAdvice(a) ==
    a = [action |-> a.action, reasons |-> a.reasons, score |-> a.score, signal |-> a.signal,
         pnl |-> a.pnl, scored |-> a.scored]

IsConsultation(f) ==
    f = [op |-> f.op, left |-> f.left, qualities |-> f.qualities, book |-> f.book,
         advice |-> f.advice, report |-> f.report, steady |-> f.steady]

IsBook(b) == DOMAIN b \subseteq Names /\ \A n \in DOMAIN b : b[n] \in Holdings

\* A holding that is over 30% of a book, and so crowds it.
Dominates(b, n) == n \in DOMAIN b /\ Weight(b[n].value, b) > P(30)

\* What a request knows, as long as nothing has changed.
UpToDate(f) ==
    /\ \A n \in DOMAIN f.qualities : n \in Names /\ f.qualities[n] = Quality(match[n])
    /\ \A n \in DOMAIN f.advice : IsAdvice(f.advice[n]) /\ Honest(f.advice[n]) /\ Patient(f.advice[n])
    /\ \A n \in f.report.strong : n \in DOMAIN f.qualities /\ f.qualities[n].quality >= 8000
    /\ \A n \in f.report.crowded : Dominates(f.book, n)

AInv ==
    /\ pc = [t \in Threads |-> pc[t]]
    /\ frame = [t \in Threads |-> frame[t]]
    /\ match \in [Names -> Matches \cup {Nothing}]
    /\ held \in [Names -> Holdings \cup {Nothing}]
    /\ \A t \in Threads : ~At(t, "idle") =>
         /\ IsConsultation(frame[t]) /\ IsBook(frame[t].book) /\ frame[t].left \subseteq Names
         /\ ~At(t, "advised") => frame[t].report = NoReport
         /\ frame[t].steady => UpToDate(frame[t])

-----------------------------------------------------------------------------
(* Decide.                                                                  *)

\* The order of the returns.
LEMMA DecideIs ==
    ASSUME NEW x
    PROVE  /\ ExitReasons(x) # {} => Decide(x) = [action |-> "EXIT", reasons |-> ExitReasons(x)]
           /\ ExitReasons(x) = {} /\ ReduceReasons(x) # {} =>
                Decide(x) = [action |-> "REDUCE", reasons |-> ReduceReasons(x)]
           /\ ExitReasons(x) = {} /\ ReduceReasons(x) = {} =>
                \E action \in {"ADD", "AVERAGE", "REVIEW", "HOLD"} :
                    /\ Decide(x) = [action |-> action, reasons |-> {}]
                    /\ action = "ADD" => Add(x)
                    /\ action = "AVERAGE" => AverageDown(x)
<1>1. CASE ExitReasons(x) # {}
  BY <1>1, Zenon DEF Decide
<1>2. CASE ExitReasons(x) = {} /\ ReduceReasons(x) # {}
  BY <1>2, Zenon DEF Decide
<1>3. CASE ExitReasons(x) = {} /\ ReduceReasons(x) = {}
  <2>1. Decide(x) = IF Add(x) THEN [action |-> "ADD", reasons |-> {}]
                    ELSE IF AverageDown(x) THEN [action |-> "AVERAGE", reasons |-> {}]
                    ELSE IF ~x.real /\ x.pnl <= -10 THEN [action |-> "REVIEW", reasons |-> {}]
                    ELSE [action |-> "HOLD", reasons |-> {}]
    BY <1>3, Zenon DEF Decide
  <2>2. CASE Add(x)
    BY <1>3, <2>1, <2>2, Zenon
  <2>3. CASE ~Add(x) /\ AverageDown(x)
    BY <1>3, <2>1, <2>3, Zenon
  <2>4. CASE ~Add(x) /\ ~AverageDown(x)
    <3>1. \E action \in {"REVIEW", "HOLD"} : Decide(x) = [action |-> action, reasons |-> {}]
      BY <2>1, <2>4, Zenon
    <3> QED
      BY <1>3, <3>1
  <2> QED
    BY <2>2, <2>3, <2>4
<1> QED
  BY <1>1, <1>2, <1>3

\* Each reason, and when it is one.
LEMMA ExitReasonsAre ==
    ASSUME NEW x, NEW r \in ExitReasons(x)
    PROVE  (x.real /\ (x.score < 45 \/ x.score < 55 \/ x.quality < 4000)) \/ x.signal = "SELL"
<1> DEFINE score == x.real /\ x.score < 45
           sell == x.signal = "SELL"
           low == x.real /\ x.quality < 4000
           loss == x.real /\ x.pnl <= -20 /\ x.score < 55
<1>1. r \in {<<"score", score>>, <<"sell", sell>>, <<"quality", low>>, <<"loss", loss>>} /\ r[2]
  BY Zenon DEF ExitReasons
<1>2. score \/ sell \/ low \/ loss
  <2> HIDE DEF score, sell, low, loss
  <2> QED
    BY <1>1
<1> QED
  BY <1>2

\* The reasons to reduce are of the weight, the regime or the quality.
LEMMA ReduceReasonsAre ==
    ASSUME NEW x, NEW r \in ReduceReasons(x)
    PROVE  \/ r[1] \in {"concentration", "regime"}
           \/ r[1] = "score" /\ x.real /\ x.score < 65
           \/ r[1] = "quality" /\ x.real /\ x.score < 75
           \/ r[1] = "profit" /\ x.real
<1> DEFINE heavy == x.weight > P(30) \/ (x.weight > 2 * x.average /\ x.weight > P(15))
           soft == x.score < 65
           low == x.quality < 6000 /\ x.score < 75
           profit == x.pnl >= 30 /\ x.score < 80
           bear == x.bearish /\ x.weight >= x.target - 50 /\ x.weight > 0
<1>1. /\ r \in {<<"concentration", heavy>>, <<"score", soft>>, <<"quality", low>>, <<"profit", profit>>, <<"regime", bear>>}
      /\ r[2]
      /\ r[1] \in {"score", "quality", "profit"} => x.real
  BY Zenon DEF ReduceReasons, Trusted, Triggers
<1>2. \/ r[1] \in {"concentration", "regime"}
      \/ r[1] = "score" /\ x.real /\ soft
      \/ r[1] = "quality" /\ x.real /\ low
      \/ r[1] = "profit" /\ x.real
  <2> HIDE DEF heavy, soft, low, profit, bear
  <2> QED
    BY <1>1
<1> QED
  BY <1>2

\* A fabricated read decides nothing but what weight and regime say.
LEMMA FabricatedDecides ==
    ASSUME NEW x, x.score = 50, x.signal = "HOLD", x.real = FALSE
    PROVE  /\ Decide(x).action \notin {"EXIT", "ADD", "AVERAGE"}
           /\ {r[1] : r \in Decide(x).reasons} \subseteq {"concentration", "regime"}
<1>1. ExitReasons(x) = {}
  BY ExitReasonsAre
<1>2. \A r \in ReduceReasons(x) : r[1] \in {"concentration", "regime"}
  BY ReduceReasonsAre
<1>3. ~Add(x) /\ ~AverageDown(x)
  BY DEF Add, AverageDown
<1>4. CASE ReduceReasons(x) # {}
  <2>1. Decide(x) = [action |-> "REDUCE", reasons |-> ReduceReasons(x)]
    BY <1>1, <1>4, DecideIs
  <2> QED
    BY <1>2, <2>1
<1>5. CASE ReduceReasons(x) = {}
  <2>1. \E action \in {"REVIEW", "HOLD"} : Decide(x) = [action |-> action, reasons |-> {}]
    BY <1>1, <1>3, <1>5, DecideIs
  <2> QED
    BY <2>1
<1> QED
  BY <1>4, <1>5

\* A sound score with a fair quality is no reason to exit.
LEMMA SoundStays ==
    ASSUME NEW x, x.score \in Int, x.score >= 55, x.signal # "SELL",
           x.quality \in Int, x.quality >= 4000
    PROVE  Decide(x).action # "EXIT" /\ ExitReasons(x) = {}
<1>1. ExitReasons(x) = {}
  <2>1. ~(x.score < 45) /\ ~(x.score < 55) /\ ~(x.quality < 4000)
    OBVIOUS
  <2> QED
    BY <2>1, ExitReasonsAre
<1>2. CASE ReduceReasons(x) # {}
  BY <1>1, <1>2, DecideIs
<1>3. CASE ReduceReasons(x) = {}
  <2>1. \E action \in {"ADD", "AVERAGE", "REVIEW", "HOLD"} : Decide(x) = [action |-> action, reasons |-> {}]
    BY <1>1, <1>3, DecideIs
  <2> QED
    BY <1>1, <2>1
<1> QED
  BY <1>2, <1>3

\* A strong one is reduced for its weight, its profit or the regime only.
LEMMA StrongDecides ==
    ASSUME NEW x, x.score \in Int, x.score >= 75, x.signal # "SELL",
           x.quality \in Int, x.quality >= 4000
    PROVE  /\ Decide(x).action # "EXIT"
           /\ {r[1] : r \in Decide(x).reasons} \subseteq {"concentration", "profit", "regime"}
<1>1. ExitReasons(x) = {} /\ Decide(x).action # "EXIT"
  BY SoundStays
<1>2. \A r \in ReduceReasons(x) : r[1] \in {"concentration", "profit", "regime"}
  <2>1. ~(x.score < 65) /\ ~(x.score < 75)
    OBVIOUS
  <2> QED
    BY <2>1, ReduceReasonsAre
<1>3. CASE ReduceReasons(x) # {}
  <2>1. Decide(x) = [action |-> "REDUCE", reasons |-> ReduceReasons(x)]
    BY <1>1, <1>3, DecideIs
  <2> QED
    BY <1>1, <1>2, <2>1
<1>4. CASE ReduceReasons(x) = {}
  <2>1. \E action \in {"ADD", "AVERAGE", "REVIEW", "HOLD"} : Decide(x) = [action |-> action, reasons |-> {}]
    BY <1>1, <1>4, DecideIs
  <2> QED
    BY <1>1, <2>1
<1> QED
  BY <1>3, <1>4

\* What weighs too much goes, at least in part.
LEMMA HeavyGoes ==
    ASSUME NEW x, x.weight > P(30)
    PROVE  Decide(x).action \in {"EXIT", "REDUCE"}
<1>1. <<"concentration", TRUE>> \in ReduceReasons(x)
  BY Zenon DEF ReduceReasons, Trusted, Triggers
<1> QED
  BY <1>1, DecideIs

-----------------------------------------------------------------------------
(* Quality.                                                                 *)

\* A bounded number is a number between the bounds.
LEMMA BoundedTyped ==
    ASSUME NEW p \in Int
    PROVE  /\ Bounded(p) \in Int /\ 0 <= Bounded(p) /\ Bounded(p) <= 100
           /\ p >= 0 /\ p <= 100 => Bounded(p) = p
           /\ p > 100 => Bounded(p) = 100
           /\ p < 0 => Bounded(p) = 0
<1>1. PICK m : m = Min({100, p})
  OBVIOUS
<1>2. m \in Int /\ m = IF 100 <= p THEN 100 ELSE p
  BY <1>1, LesserOf
<1>3. Max({0, m}) \in Int /\ Max({0, m}) = IF 0 >= m THEN 0 ELSE m
  BY <1>2, GreaterOf
<1>4. Bounded(p) = Max({0, m})
  BY <1>1 DEF Bounded
<1> QED
  BY <1>2, <1>3, <1>4

\* A day takes 25 points at most.
LEMMA DayTyped ==
    ASSUME NEW change \in Int, NEW up \in Nat, NEW down \in Nat
    PROVE  LET after == AfterDay(change, up, down) IN after \in Int /\ 25 <= after /\ after <= 100
<1> DEFINE move == IF change >= 0 THEN change * up ELSE Max({-25, (change * down) \div 10})
<1>1. move \in Int /\ move >= -25
  <2>1. CASE change >= 0
    <3>1. change * up \in Nat
      BY <2>1
    <3> QED
      BY <2>1, <3>1
  <2>2. CASE ~(change >= 0)
    <3>1. PICK product \in Int : product = change * down
      OBVIOUS
    <3>2. PICK tenth \in Int : tenth = product \div 10
      BY <3>1
    <3>3. Max({-25, tenth}) \in Int /\ Max({-25, tenth}) >= -25
      BY <3>2, GreaterOf
    <3> QED
      BY <2>2, <3>1, <3>2, <3>3
  <2> QED
    BY <2>1, <2>2
<1>2. AfterDay(change, up, down) = Bounded(50 + move)
  BY Zenon DEF AfterDay
<1> HIDE DEF move
<1>3. PICK p \in Int : p = 50 + move /\ p >= 25
  BY <1>1
<1> QED
  BY <1>2, <1>3, BoundedTyped

\* A score of 75 keeps the quality over 40 after any day, and only a sound score
\* reaches a quality of 80.
Fitting(m, q) ==
    /\ q.lowConfidence = FALSE /\ q.quality \in Int
    /\ m.score >= 75 /\ m.signal # "SELL" => q.quality >= 4000
    /\ q.quality >= 8000 => m.score >= 55 /\ m.signal # "SELL"

\* A good quality takes a score that goes with it.
LEMMA QualityFollowsScore ==
    ASSUME NEW m \in Matches
    PROVE  Fitting(m, Quality(m))
<1> DEFINE day == AfterDay(m.change, 5, 20)
           momentum == AfterDay(m.change, 6, 24)
           risk == (6 * m.score + 4 * m.volume) \div 10
           safety == Bounded(IF m.signal = "SELL" THEN risk - 25 ELSE risk)
           quality == 40 * m.score + 20 * day + 15 * momentum + 10 * m.volume + 15 * safety
<1>1. /\ m.score \in Int /\ 0 <= m.score /\ m.score <= 100
      /\ m.volume \in Int /\ 0 <= m.volume /\ m.volume <= 100
      /\ m.change \in Int /\ (m.signal = "SELL" => m.score <= 50)
  BY MatchesAssumption
<1>2. m # Nothing
  BY MatchesAssumption DEF Nothing
<1>3. day \in Int /\ 25 <= day /\ day <= 100
  BY <1>1, DayTyped
<1>4. momentum \in Int /\ 25 <= momentum /\ momentum <= 100
  BY <1>1, DayTyped
<1>5. PICK r \in Int : r = risk
  BY <1>1
<1>6. 10 * r <= 6 * m.score + 4 * m.volume /\ 6 * m.score + 4 * m.volume < 10 * r + 10
  BY <1>1, <1>5
<1>7. safety \in Int /\ 0 <= safety
      /\ (m.signal # "SELL" => safety <= r \/ r < 0) /\ (m.signal # "SELL" /\ r >= 0 /\ r <= 100 => safety = r)
      /\ (m.signal = "SELL" /\ r >= 25 => safety <= r)
      /\ (m.signal = "SELL" /\ r < 25 => safety <= 25)
  <2>1. CASE m.signal = "SELL"
    <3>1. safety = Bounded(r - 25)
      BY <1>5, <2>1
    <3>2. PICK p \in Int : p = r - 25
      OBVIOUS
    <3> HIDE DEF safety
    <3>3. /\ Bounded(p) \in Int /\ 0 <= Bounded(p) /\ Bounded(p) <= 100
          /\ p >= 0 /\ p <= 100 => Bounded(p) = p
          /\ p > 100 => Bounded(p) = 100
          /\ p < 0 => Bounded(p) = 0
      BY BoundedTyped
    <3> QED
      BY <2>1, <3>1, <3>2, <3>3
  <2>2. CASE m.signal # "SELL"
    <3>1. safety = Bounded(r)
      BY <1>5, <2>2
    <3> HIDE DEF safety
    <3>2. /\ Bounded(r) \in Int /\ 0 <= Bounded(r) /\ Bounded(r) <= 100
          /\ r >= 0 /\ r <= 100 => Bounded(r) = r
          /\ r > 100 => Bounded(r) = 100
      BY BoundedTyped
    <3> QED
      BY <2>2, <3>1, <3>2
  <2> QED
    BY <2>1, <2>2
<1>8. Quality(m) = [lowConfidence |-> FALSE, quality |-> quality]
  BY <1>2 DEF Quality
<1> HIDE DEF day, momentum, risk, safety
<1>9. quality \in Int
  BY <1>1, <1>3, <1>4, <1>7
<1>10. m.score >= 75 /\ m.signal # "SELL" => quality >= 4000
  BY <1>1, <1>3, <1>4, <1>6, <1>7
<1>11. quality >= 8000 => m.score >= 55 /\ m.signal # "SELL"
  BY <1>1, <1>3, <1>4, <1>6, <1>7
<1> HIDE DEF quality
<1> QED
  BY <1>8, <1>9, <1>10, <1>11 DEF Fitting

-----------------------------------------------------------------------------
(* Weights.                                                                 *)

\* A finite set of numbers has a greatest.
LEMMA GreatestOf ==
    ASSUME NEW S \in SUBSET Nat, IsFiniteSet(S), S # {}
    PROVE  Max(S) \in S
<1> DEFINE Bad == {T \in SUBSET S : T # {} /\ ~\E x \in T : \A y \in T : x >= y}
<1>1. Bad = {}
  <2> SUFFICES ASSUME Bad # {} PROVE FALSE
    OBVIOUS
  <2>1. PICK T \in Bad : \A x \in T : T \ {x} \notin Bad
    <3>1. Bad \in SUBSET SUBSET S
      OBVIOUS
    <3> HIDE DEF Bad
    <3> QED
      BY <3>1, LeastSubset
  <2>2. PICK a \in T : TRUE
    OBVIOUS
  <2>3. CASE T \ {a} = {}
    <3>1. \A y \in T : y = a
      BY <2>3
    <3>2. a >= a
      OBVIOUS
    <3> QED
      BY <2>2, <3>1, <3>2
  <2>4. CASE T \ {a} # {}
    <3>1. PICK m \in T \ {a} : \A y \in T \ {a} : m >= y
      BY <2>1, <2>2, <2>4
    <3>2. a \in Nat /\ m \in Nat
      OBVIOUS
    <3>3. CASE m >= a
      <4>1. \A y \in T : m >= y
        BY <3>1, <3>3
      <4> QED
        BY <4>1
    <3>4. CASE ~(m >= a)
      <4>1. \A y \in T : a >= y
        BY <3>1, <3>2, <3>4
      <4> QED
        BY <2>2, <4>1
    <3> QED
      BY <3>3, <3>4
  <2> QED
    BY <2>3, <2>4
<1>2. \E x \in S : \A y \in S : x >= y
  BY <1>1
<1> QED
  BY <1>2 DEF Max

\* Something is invested, if anything is held.
LEMMA InvestedTyped ==
    ASSUME NEW b, IsBook(b), DOMAIN b # {}
    PROVE  Invested(b) \in Nat \ {0}
<1> DEFINE S == DOMAIN b
           h == [n \in S |-> b[n].value]
           Step(i) == [T \in SUBSET S |-> IF T = {} THEN 0 ELSE b[Taken(T)].value + i[T \ {Taken(T)}]]
           sum == (CHOOSE i : i = Step(i))[S]
<1>1. Invested(b) = Rest * RestValue + sum
  BY Zenon DEF Invested, MapThenSumSet, MapThenFoldSet, Taken
<1>2. \A i : Step(i) = Sums(i, h, S)
  BY DEF Sums, Taken
<1>3. (CHOOSE i : i = Step(i)) = (CHOOSE i : i = Sums(i, h, S))
  BY <1>2, Zenon
<1>4. IsFiniteSet(S)
  BY NamesAssumption, FS_Subset DEF IsBook
<1>5. h \in [S -> Nat] /\ \A n \in S : h[n] >= 1
  BY HoldingsAssumption DEF IsBook
<1> HIDE DEF Step, h, S
<1>6. sum \in Nat /\ (S # {} => \E n \in S : sum >= h[n])
  BY <1>3, <1>4, <1>5, SumIsNat
<1>7. sum \in Nat \ {0}
  <2> HIDE DEF sum
  <2>1. PICK n \in S : sum >= h[n]
    BY <1>6 DEF S
  <2> QED
    BY <1>5, <1>6, <2>1
<1> HIDE DEF sum
<1>8. Rest * RestValue \in Nat
  BY RestAssumption
<1> QED
  BY <1>1, <1>7, <1>8

\* What the report says of names.
LEMMA ReportSays ==
    ASSUME NEW f, IsBook(f.book), NEW entry, NEW cash
    PROVE  LET report == Recommendations(f, entry, cash) IN
           /\ \A n \in report.strong : n \in DOMAIN f.qualities /\ f.qualities[n].quality >= 8000
           /\ \A n \in report.crowded : Dominates(f.book, n)
<1> DEFINE b == f.book
           values == {b[n].value : n \in DOMAIN b}
           largest == Max({RestValue} \cup values)
           share == Weight(largest, b)
           dominant == {n \in DOMAIN b : b[n].value = largest}
           report == Recommendations(f, entry, cash)
           none == Rest + Cardinality(DOMAIN b) = 0
           names == DOMAIN f.qualities
           fallen == {n \in names : 100 * entry[n] - f.qualities[n].quality >= 1500}
           strong == {n \in names \ fallen : f.qualities[n].quality >= 8000}
           crowded == IF share < P(35) \/ largest = RestValue THEN {} ELSE {Min(dominant)}
<1>1. CASE none
  <2>1. report = NoReport
    BY <1>1, Zenon DEF Recommendations
  <2>2. report.strong = {} /\ report.crowded = {}
    <3> HIDE DEF report
    <3> QED
      BY <2>1 DEF NoReport
  <2> QED
    BY <2>2
<1>2. CASE ~none
  <2>1. report.strong = strong /\ report.crowded = crowded
    BY <1>2 DEF Recommendations
  <2>2. \A n \in strong : n \in DOMAIN f.qualities /\ f.qualities[n].quality >= 8000
    OBVIOUS
  <2>3. ASSUME NEW n \in crowded PROVE Dominates(b, n)
    <3>1. ~(share < P(35)) /\ largest # RestValue /\ n = Min(dominant)
      BY <2>3
    <3>2. \A m \in DOMAIN b : b[m].value \in Nat
      BY HoldingsAssumption DEF IsBook
    <3>3. {RestValue} \cup values \in SUBSET Nat /\ {RestValue} \cup values # {}
      BY <3>2, RestAssumption
    <3>4. IsFiniteSet({RestValue} \cup values)
      <4>1. IsFiniteSet(DOMAIN b)
        BY NamesAssumption, FS_Subset DEF IsBook
      <4> DEFINE h == [m \in DOMAIN b |-> b[m].value]
      <4>2. h \in [DOMAIN b -> values] /\ \A v \in values : \E m \in DOMAIN b : h[m] = v
        OBVIOUS
      <4>4. h \in Surjection(DOMAIN b, values)
        <5> HIDE DEF h, values
        <5> QED
          BY <4>2 DEF Surjection
      <4>5. IsFiniteSet(values)
        <5> HIDE DEF h, values
        <5> QED
          BY <4>1, <4>4, FS_Surjection
      <4>3. IsFiniteSet({RestValue})
        BY FS_Singleton
      <4> HIDE DEF values, h
      <4> QED
        BY <4>3, <4>5, FS_Union
    <3>5. largest \in {RestValue} \cup values
      <4> HIDE DEF values
      <4> QED
        BY <3>3, <3>4, GreatestOf
    <3>6. dominant # {} /\ dominant \in SUBSET Nat
      <4> HIDE DEF largest
      <4> QED
        BY <3>1, <3>5, NamesAssumption DEF IsBook
    <3>7. n \in dominant
      <4> HIDE DEF dominant
      <4> QED
        BY <3>1, <3>6, LeastOf
    <3>8. n \in DOMAIN b /\ b[n].value = largest /\ largest \in Nat
      <4> HIDE DEF largest
      <4> QED
        BY <3>2, <3>7
    <3>9. Invested(b) \in Nat \ {0}
      BY <3>8, InvestedTyped
    <3>10. share \in Int
      <4> HIDE DEF largest
      <4>1. PICK i \in Nat \ {0} : i = Invested(b)
        BY <3>9
      <4>2. PICK v \in Nat : v = P(100) * largest
        BY <3>8 DEF P
      <4> QED
        BY <4>1, <4>2 DEF Weight
    <3>11. share > P(30)
      <4> HIDE DEF share
      <4> QED
        BY <3>1, <3>10 DEF P
    <3> QED
      BY <3>8, <3>11 DEF Dominates
  <2> HIDE DEF strong, crowded
  <2> QED
    BY <2>1, <2>2, <2>3
<1> QED
  BY <1>1, <1>2

-----------------------------------------------------------------------------
(* The steps.                                                               *)

Consultation(op, left, qualities, book, advice, report, steady) ==
    [op |-> op, left |-> left, qualities |-> qualities, book |-> book,
     advice |-> advice, report |-> report, steady |-> steady]

\* The locals after each kind of step.
Stepped(f, v, w) ==
    /\ [f EXCEPT !.left = v, !.qualities = w] = Consultation(f.op, v, w, f.book, f.advice, f.report, f.steady)
    /\ [f EXCEPT !.left = v, !.book = w] = Consultation(f.op, v, f.qualities, w, f.advice, f.report, f.steady)
    /\ [f EXCEPT !.left = v, !.advice = w] = Consultation(f.op, v, f.qualities, f.book, w, f.report, f.steady)
    /\ [f EXCEPT !.left = v, !.report = w] = Consultation(f.op, v, f.qualities, f.book, f.advice, w, f.steady)
    /\ [f EXCEPT !.advice = v] = Consultation(f.op, f.left, f.qualities, f.book, v, f.report, f.steady)
    /\ [f EXCEPT !.steady = v] = Consultation(f.op, f.left, f.qualities, f.book, f.advice, f.report, v)

\* A step of a request changes the locals that it names, and no others.
LEMMA Updated ==
    ASSUME NEW f, IsConsultation(f), NEW v, NEW w
    PROVE  Stepped(f, v, w)
<1> DEFINE h == [f EXCEPT !.left = v]
<1>1. f = Consultation(f.op, f.left, f.qualities, f.book, f.advice, f.report, f.steady)
  BY DEF IsConsultation, Consultation
<1>2. h = Consultation(f.op, v, f.qualities, f.book, f.advice, f.report, f.steady)
  BY <1>1 DEF Consultation
<1>3. /\ [f EXCEPT !.left = v, !.qualities = w] = [h EXCEPT !.qualities = w]
      /\ [f EXCEPT !.left = v, !.book = w] = [h EXCEPT !.book = w]
      /\ [f EXCEPT !.left = v, !.advice = w] = [h EXCEPT !.advice = w]
      /\ [f EXCEPT !.left = v, !.report = w] = [h EXCEPT !.report = w]
  BY Zenon
<1> HIDE DEF h
<1>4. /\ [h EXCEPT !.qualities = w] = Consultation(f.op, v, w, f.book, f.advice, f.report, f.steady)
      /\ [h EXCEPT !.book = w] = Consultation(f.op, v, f.qualities, w, f.advice, f.report, f.steady)
      /\ [h EXCEPT !.advice = w] = Consultation(f.op, v, f.qualities, f.book, w, f.report, f.steady)
      /\ [h EXCEPT !.report = w] = Consultation(f.op, v, f.qualities, f.book, f.advice, w, f.steady)
  BY <1>2 DEF Consultation
<1>5. /\ [f EXCEPT !.advice = v] = Consultation(f.op, f.left, f.qualities, f.book, v, f.report, f.steady)
      /\ [f EXCEPT !.steady = v] = Consultation(f.op, f.left, f.qualities, f.book, f.advice, f.report, v)
  BY <1>1 DEF Consultation
<1> QED
  BY <1>3, <1>4, <1>5 DEF Stepped

\* A thread that moves on knows what it is to know.
LEMMA MovesOn ==
    ASSUME AInv, NEW t \in Threads, NEW l, NEW g,
           pc' = [pc EXCEPT ![t] = l], frame' = [frame EXCEPT ![t] = g], UNCHANGED <<held, match>>,
           l # "idle" => /\ IsConsultation(g) /\ IsBook(g.book) /\ g.left \subseteq Names
                         /\ l # "advised" => g.report = NoReport
                         /\ g.steady => UpToDate(g)
    PROVE  AInv'
<1>1. pc'[t] = l /\ frame'[t] = g /\ \A u \in Threads : u # t => pc'[u] = pc[u] /\ frame'[u] = frame[u]
  BY DEF AInv
<1>2. ASSUME NEW u \in Threads, pc'[u] # "idle"
      PROVE  /\ IsConsultation(frame'[u]) /\ IsBook(frame'[u].book) /\ frame'[u].left \subseteq Names
             /\ pc'[u] # "advised" => frame'[u].report = NoReport
             /\ frame'[u].steady => UpToDate(frame'[u])
  <2>1. CASE u = t
    BY <1>1, <1>2, <2>1
  <2>2. CASE u # t
    BY <1>1, <1>2, <2>2 DEF AInv, At
  <2> QED
    BY <2>1, <2>2
<1>3. match' \in [Names -> Matches \cup {Nothing}] /\ held' \in [Names -> Holdings \cup {Nothing}]
  BY DEF AInv
<1>4. ASSUME NEW u \in Threads, pc'[u] # "idle" PROVE (frame[u].steady => UpToDate(frame[u]))'
  BY <1>2, <1>4 DEF UpToDate
<1>5. pc' = [u \in Threads |-> pc'[u]] /\ frame' = [u \in Threads |-> frame'[u]]
  BY DEF AInv
<1> QED
  BY <1>2, <1>3, <1>4, <1>5 DEF AInv, At

\* Nobody is asking yet.
LEMMA InitAdvice == PoolInit /\ AdviceInit => AInv
BY DEF PoolInit, AdviceInit, AInv, At

\* A request begins with every owned name to ask for, and has read nothing.
LEMMA StartAdviceInv ==
    ASSUME AInv, NEW t \in Threads, StartAdvice(t)
    PROVE  AInv'
<1>1. PICK op : Begin(t, "health", Consultation(op, Owned, NoAdvice, NoAdvice, NoAdvice, NoReport, TRUE))
  BY DEF StartAdvice, Consultation
<1>2. PICK g : g = Consultation(op, Owned, NoAdvice, NoAdvice, NoAdvice, NoReport, TRUE)
  OBVIOUS
<1>3. IsConsultation(g) /\ g.left = Owned /\ g.qualities = NoAdvice /\ g.book = NoAdvice
      /\ g.advice = NoAdvice /\ g.report = NoReport
  BY <1>2 DEF Consultation, IsConsultation
<1>4. DOMAIN NoAdvice = {} /\ NoReport.strong = {} /\ NoReport.crowded = {} /\ Owned \subseteq Names
  BY DEF NoAdvice, NoReport, Owned
<1>5. IsBook(g.book) /\ UpToDate(g)
  BY <1>3, <1>4 DEF IsBook, UpToDate
<1>6. pc' = [pc EXCEPT ![t] = "health"] /\ frame' = [frame EXCEPT ![t] = g] /\ UNCHANGED <<held, match>>
  BY <1>1, <1>2 DEF StartAdvice, Begin, adviceVars
<1> QED
  BY <1>3, <1>4, <1>5, <1>6, MovesOn

\* The qualities that a request reads are of the scores that hold when it reads them.
LEMMA ReadQualityInv ==
    ASSUME AInv, NEW t \in Threads, ReadQuality(t)
    PROVE  AInv'
<1> DEFINE f == frame[t]
           n == Min(f.left)
           left == f.left \ {n}
           qualities == With(f.qualities, n, Quality(match[n]))
           g == [f EXCEPT !.left = left, !.qualities = qualities]
<1>1. At(t, "health") /\ f.left # {} /\ Go(t, "health", g) /\ UNCHANGED adviceVars
  BY DEF ReadQuality
<1>2. IsConsultation(f) /\ IsBook(f.book) /\ f.left \subseteq Names /\ (f.steady => UpToDate(f)) /\ f.report = NoReport
  BY <1>1 DEF AInv, At
<1>3. n \in Names
  BY <1>1, <1>2, LeastOf, NamesAssumption
<1>4. g = Consultation(f.op, left, qualities, f.book, f.advice, f.report, f.steady)
  <2> HIDE DEF left, qualities, f
  <2>1. Stepped(f, left, qualities)
    BY <1>2, Updated
  <2> QED
    BY <2>1 DEF Stepped
<1>5. /\ IsConsultation(g) /\ g.left = left /\ g.qualities = qualities /\ g.book = f.book
      /\ g.advice = f.advice /\ g.report = f.report /\ g.steady = f.steady
  BY <1>4 DEF Consultation, IsConsultation
<1>6. /\ DOMAIN qualities = {n} \cup DOMAIN f.qualities
      /\ qualities[n] = Quality(match[n])
      /\ \A m \in DOMAIN f.qualities : m # n => qualities[m] = f.qualities[m]
  <2> HIDE DEF n, f
  <2> QED
    BY DEF With
<1>7. left \subseteq Names
  BY <1>2
<1> HIDE DEF g, qualities, left, n, f
<1>8. ASSUME g.steady PROVE UpToDate(g)
  <2>1. UpToDate(f)
    BY <1>2, <1>5, <1>8
  <2>2. \A m \in DOMAIN qualities : m \in Names /\ qualities[m] = Quality(match[m])
    BY <1>3, <1>6, <2>1 DEF UpToDate
  <2>3. ASSUME NEW m \in f.report.strong PROVE m \in DOMAIN qualities /\ qualities[m].quality >= 8000
    <3>1. m \in DOMAIN f.qualities /\ f.qualities[m].quality >= 8000 /\ f.qualities[m] = Quality(match[m])
      BY <2>1, <2>3 DEF UpToDate
    <3> QED
      BY <1>6, <2>2, <3>1
  <2> QED
    BY <1>5, <2>1, <2>2, <2>3 DEF UpToDate
<1>9. pc' = [pc EXCEPT ![t] = "health"] /\ frame' = [frame EXCEPT ![t] = g] /\ UNCHANGED <<held, match>>
  BY <1>1 DEF Go, adviceVars
<1> QED
  BY <1>2, <1>5, <1>7, <1>8, <1>9, MovesOn

\* The holdings that it reads are those that hold then.
LEMMA ReadBookInv ==
    ASSUME AInv, NEW t \in Threads, ReadBook(t)
    PROVE  AInv'
<1> DEFINE f == frame[t]
           book == [n \in Owned |-> held[n]]
           g == [f EXCEPT !.left = Owned, !.book = book]
<1>1. PICK l \in {"decide", "report"} : At(t, "health") /\ Go(t, l, g) /\ UNCHANGED adviceVars
  BY DEF ReadBook
<1>2. IsConsultation(f) /\ (f.steady => UpToDate(f)) /\ f.report = NoReport
  BY <1>1 DEF AInv, At
<1>3. g = Consultation(f.op, Owned, f.qualities, book, f.advice, f.report, f.steady)
  <2>2. PICK owned : owned = Owned
    OBVIOUS
  <2> HIDE DEF book, f
  <2>1. Stepped(f, owned, book)
    BY <1>2, Updated
  <2> QED
    BY <2>1, <2>2 DEF Stepped
<1>4. /\ IsConsultation(g) /\ g.left = Owned /\ g.qualities = f.qualities /\ g.book = book
      /\ g.advice = f.advice /\ g.report = f.report /\ g.steady = f.steady
  BY <1>3 DEF Consultation, IsConsultation
<1>5. Owned \subseteq Names /\ IsBook(book)
  BY DEF Owned, IsBook, AInv
<1>6. NoReport.strong = {} /\ NoReport.crowded = {}
  BY DEF NoReport
<1> HIDE DEF g, book, f
<1>8. f.steady => UpToDate(g)
  BY <1>2, <1>4, <1>6 DEF UpToDate
<1>9. pc' = [pc EXCEPT ![t] = l] /\ frame' = [frame EXCEPT ![t] = g] /\ UNCHANGED <<held, match>>
  BY <1>1 DEF Go, adviceVars
<1> QED
  BY <1>1, <1>2, <1>4, <1>5, <1>8, <1>9, MovesOn

\* The decision on a name keeps to what may be said of it.
LEMMA DecideOneInv ==
    ASSUME AInv, NEW t \in Threads, DecideOne(t)
    PROVE  AInv'
<1> DEFINE f == frame[t]
           n == Min(f.left)
           left == f.left \ {n}
<1>1. PICK tape \in Tapes :
        LET x == Considered(f, n, tape)
            decided == Decide(x)
        IN Go(t, "decide", [f EXCEPT
                !.left = @ \ {n},
                !.advice = With(@, n, [action |-> decided.action, reasons |-> {r[1] : r \in decided.reasons},
                                  score |-> x.score, signal |-> x.signal, pnl |-> x.pnl,
                                  scored |-> match[n] # Nothing])])
  BY DEF DecideOne
<1>2. At(t, "decide") /\ f.left # {} /\ UNCHANGED adviceVars
  BY DEF DecideOne
<1> DEFINE x == Considered(f, n, tape)
           a == [action |-> Decide(x).action, reasons |-> {r[1] : r \in Decide(x).reasons},
                 score |-> x.score, signal |-> x.signal, pnl |-> x.pnl, scored |-> match[n] # Nothing]
           advice == With(f.advice, n, a)
           g == [f EXCEPT !.left = left, !.advice = advice]
<1>3. Go(t, "decide", g)
  BY <1>1, Zenon
<1>4. IsConsultation(f) /\ IsBook(f.book) /\ f.left \subseteq Names /\ (f.steady => UpToDate(f)) /\ f.report = NoReport
  BY <1>2 DEF AInv, At
<1>5. n \in Names
  BY <1>2, <1>4, LeastOf, NamesAssumption
<1>6. g = Consultation(f.op, left, f.qualities, f.book, advice, f.report, f.steady)
  <2> HIDE DEF advice, left, f
  <2>1. Stepped(f, left, advice)
    BY <1>4, Updated
  <2> QED
    BY <2>1 DEF Stepped
<1>7. /\ IsConsultation(g) /\ g.left = left /\ g.qualities = f.qualities /\ g.book = f.book
      /\ g.advice = advice /\ g.report = f.report /\ g.steady = f.steady
  <2> HIDE DEF g, advice, left, f
  <2> QED
    BY <1>6 DEF Consultation, IsConsultation
<1>8. left \subseteq Names
  BY <1>4
<1>9. ASSUME f.steady PROVE IsAdvice(a) /\ Honest(a) /\ Patient(a)
  <2>1. UpToDate(f)
    BY <1>4, <1>9
  <2>2. /\ a.action = Decide(x).action /\ a.reasons = {r[1] : r \in Decide(x).reasons}
        /\ a.score = x.score /\ a.signal = x.signal /\ a.scored = (match[n] # Nothing) /\ IsAdvice(a)
    <3> HIDE DEF x
    <3> QED
      BY DEF IsAdvice
  <2>3. n \in DOMAIN f.qualities => f.qualities[n] = Quality(match[n])
    BY <2>1 DEF UpToDate
  <2>4. /\ x.score = (IF match[n] = Nothing THEN 50 ELSE match[n].score)
        /\ x.signal = (IF match[n] = Nothing THEN "HOLD" ELSE match[n].signal)
        /\ x.quality = (IF n \in DOMAIN f.qualities THEN f.qualities[n].quality ELSE 5000)
        /\ x.real = (IF n \in DOMAIN f.qualities THEN ~f.qualities[n].lowConfidence ELSE match[n] # Nothing)
    <3> HIDE DEF f, n
    <3> QED
      BY DEF Considered
  <2> HIDE DEF x, a, f, n
  <2>5. CASE match[n] = Nothing
    <3>1. Quality(match[n]).lowConfidence = TRUE
      BY <2>5 DEF Quality
    <3>2. x.score = 50 /\ x.signal = "HOLD"
      BY <2>4, <2>5
    <3>5. x.real = FALSE
      <4>1. CASE n \in DOMAIN f.qualities
        <5>1. x.real = ~f.qualities[n].lowConfidence /\ f.qualities[n].lowConfidence = TRUE
          BY <2>3, <2>4, <3>1, <4>1
        <5> QED
          BY <5>1
      <4>2. CASE n \notin DOMAIN f.qualities
        <5>1. x.real = (match[n] # Nothing)
          BY <2>4, <4>2
        <5> QED
          BY <2>5, <5>1
      <4> QED
        BY <4>1, <4>2
    <3>3. /\ Decide(x).action \notin {"EXIT", "ADD", "AVERAGE"}
          /\ {r[1] : r \in Decide(x).reasons} \subseteq {"concentration", "regime"}
      BY <3>2, <3>5, FabricatedDecides
    <3>4. ~a.scored
      BY <2>2, <2>5
    <3> QED
      BY <2>2, <3>3, <3>4 DEF Honest, Patient
  <2>6. CASE match[n] # Nothing
    <3>1. match[n] \in Matches
      BY <1>5, <2>6 DEF AInv
    <3>2. x.quality \in Int /\ (match[n].score >= 75 /\ match[n].signal # "SELL" => x.quality >= 4000)
      <4>1. PICK m \in Matches : m = match[n]
        BY <3>1
      <4>5. Fitting(m, Quality(m))
        BY QualityFollowsScore
      <4>2. Quality(m).quality \in Int /\ (m.score >= 75 /\ m.signal # "SELL" => Quality(m).quality >= 4000)
        BY <4>5 DEF Fitting
      <4>3. x.quality = Quality(m).quality \/ x.quality = 5000
        BY <2>3, <2>4, <4>1
      <4> QED
        BY <4>1, <4>2, <4>3
    <3>3. x.score = match[n].score /\ x.score \in Int /\ x.signal = match[n].signal
      BY <2>4, <2>6, <3>1, MatchesAssumption
    <3>4. a.scored
      BY <2>2, <2>6
    <3>5. x.score >= 75 /\ x.signal # "SELL" =>
            /\ Decide(x).action # "EXIT"
            /\ {r[1] : r \in Decide(x).reasons} \subseteq {"concentration", "profit", "regime"}
      BY <3>2, <3>3, StrongDecides
    <3> QED
      BY <2>2, <3>4, <3>5 DEF Honest, Patient
  <2> QED
    BY <2>5, <2>6
<1>10. /\ DOMAIN advice = {n} \cup DOMAIN f.advice
       /\ advice[n] = a
       /\ \A m \in DOMAIN f.advice : m # n => advice[m] = f.advice[m]
  <2> HIDE DEF a, n, f
  <2> QED
    BY DEF With
<1> HIDE DEF g, advice, left, a, x, n, f
<1>11. ASSUME g.steady PROVE UpToDate(g)
  <2>1. UpToDate(f) /\ IsAdvice(a) /\ Honest(a) /\ Patient(a)
    BY <1>4, <1>7, <1>9, <1>11
  <2>2. \A m \in DOMAIN advice : IsAdvice(advice[m]) /\ Honest(advice[m]) /\ Patient(advice[m])
    BY <1>10, <2>1 DEF UpToDate
  <2> QED
    BY <1>7, <2>1, <2>2 DEF UpToDate
<1>12. pc' = [pc EXCEPT ![t] = "decide"] /\ frame' = [frame EXCEPT ![t] = g] /\ UNCHANGED <<held, match>>
  BY <1>2, <1>3 DEF Go, adviceVars
<1> QED
  BY <1>4, <1>7, <1>8, <1>11, <1>12, MovesOn

\* An average that is not among the best becomes a HOLD, for the same reasons.
LEMMA AdviseInv ==
    ASSUME AInv, NEW t \in Threads, Advise(t)
    PROVE  AInv'
<1> DEFINE f == frame[t]
           advice == CapAverages(f.advice)
           g == [f EXCEPT !.advice = advice]
<1>1. At(t, "decide") /\ Go(t, "advised", g) /\ UNCHANGED adviceVars
  BY DEF Advise
<1>2. IsConsultation(f) /\ IsBook(f.book) /\ f.left \subseteq Names /\ (f.steady => UpToDate(f))
  BY <1>1 DEF AInv, At
<1>3. g = Consultation(f.op, f.left, f.qualities, f.book, advice, f.report, f.steady)
  <2> HIDE DEF advice, f
  <2>1. Stepped(f, advice, advice)
    BY <1>2, Updated
  <2> QED
    BY <2>1 DEF Stepped
<1>4. /\ IsConsultation(g) /\ g.left = f.left /\ g.qualities = f.qualities /\ g.book = f.book
      /\ g.advice = advice /\ g.report = f.report /\ g.steady = f.steady
  BY <1>3 DEF Consultation, IsConsultation
<1>5. /\ DOMAIN advice = DOMAIN f.advice
      /\ \A n \in DOMAIN f.advice : \/ advice[n] = f.advice[n]
                                     \/ advice[n] = [f.advice[n] EXCEPT !.action = "HOLD"]
  BY DEF CapAverages
<1>6. ASSUME NEW a, IsAdvice(a), Honest(a), Patient(a)
      PROVE  LET h == [a EXCEPT !.action = "HOLD"] IN IsAdvice(h) /\ Honest(h) /\ Patient(h)
  <2> DEFINE h == [a EXCEPT !.action = "HOLD"]
  <2>1. h = [action |-> "HOLD", reasons |-> a.reasons, score |-> a.score, signal |-> a.signal,
             pnl |-> a.pnl, scored |-> a.scored]
    BY <1>6 DEF IsAdvice
  <2> HIDE DEF h
  <2>2. IsAdvice(h) /\ h.action = "HOLD" /\ h.reasons = a.reasons /\ h.score = a.score
        /\ h.signal = a.signal /\ h.scored = a.scored
    BY <2>1 DEF IsAdvice
  <2>3. Honest(h) /\ Patient(h)
    BY <1>6, <2>2 DEF Honest, Patient
  <2> QED
    BY <2>2, <2>3 DEF h
<1> HIDE DEF g, advice, f
<1>7. ASSUME g.steady PROVE UpToDate(g)
  <2>1. UpToDate(f)
    BY <1>2, <1>4, <1>7
  <2>2. ASSUME NEW n \in DOMAIN advice PROVE IsAdvice(advice[n]) /\ Honest(advice[n]) /\ Patient(advice[n])
    <3>1. IsAdvice(f.advice[n]) /\ Honest(f.advice[n]) /\ Patient(f.advice[n])
      BY <1>5, <2>1, <2>2 DEF UpToDate
    <3>2. PICK a : a = f.advice[n]
      OBVIOUS
    <3>3. LET h == [a EXCEPT !.action = "HOLD"] IN IsAdvice(h) /\ Honest(h) /\ Patient(h)
      BY <1>6, <3>1, <3>2
    <3>4. n \in DOMAIN f.advice
      BY <1>5, <2>2
    <3>5. advice[n] = a \/ advice[n] = [a EXCEPT !.action = "HOLD"]
      BY <1>5, <3>2, <3>4
    <3> QED
      BY <3>1, <3>2, <3>3, <3>5
  <2> QED
    BY <1>4, <2>1, <2>2 DEF UpToDate
<1>8. pc' = [pc EXCEPT ![t] = "advised"] /\ frame' = [frame EXCEPT ![t] = g] /\ UNCHANGED <<held, match>>
  BY <1>1 DEF Go, adviceVars
<1> QED
  BY <1>2, <1>4, <1>7, <1>8, MovesOn

\* The manager's report is of what it read.
LEMMA ReportInv ==
    ASSUME AInv, NEW t \in Threads, Report(t)
    PROVE  AInv'
<1> DEFINE f == frame[t]
<1>1. PICK entry \in [DOMAIN f.qualities -> Entries], cash \in Shares :
        Go(t, "advised", [f EXCEPT !.left = {}, !.report = Recommendations(f, entry, cash)])
  BY DEF Report
<1>2. At(t, "report") /\ UNCHANGED adviceVars
  BY DEF Report
<1> DEFINE report == Recommendations(f, entry, cash)
           g == [f EXCEPT !.left = {}, !.report = report]
<1>3. IsConsultation(f) /\ IsBook(f.book) /\ (f.steady => UpToDate(f))
  BY <1>2 DEF AInv, At
<1>4. /\ \A n \in report.strong : n \in DOMAIN f.qualities /\ f.qualities[n].quality >= 8000
      /\ \A n \in report.crowded : Dominates(f.book, n)
  BY <1>3, ReportSays
<1>5. pc' = [pc EXCEPT ![t] = "advised"] /\ frame' = [frame EXCEPT ![t] = g] /\ UNCHANGED <<held, match>>
  BY <1>1, <1>2 DEF Go, adviceVars
<1> HIDE DEF report, f
<1>6. g = Consultation(f.op, {}, f.qualities, f.book, f.advice, report, f.steady)
  <2>1. Stepped(f, {}, report)
    BY <1>3, Updated
  <2> QED
    BY <2>1 DEF Stepped
<1>7. /\ IsConsultation(g) /\ g.left = {} /\ g.qualities = f.qualities /\ g.book = f.book
      /\ g.advice = f.advice /\ g.report = report /\ g.steady = f.steady
  BY <1>6 DEF Consultation, IsConsultation
<1> HIDE DEF g
<1>8. g.steady => UpToDate(g)
  BY <1>3, <1>4, <1>7 DEF UpToDate
<1> QED
  BY <1>3, <1>5, <1>7, <1>8, MovesOn DEF f

\* After a change no running request is steady.
LEMMA ChangeInv ==
    ASSUME AInv, Change
    PROVE  AInv'
<1>1. /\ match' \in [Names -> Matches \cup {Nothing}]
      /\ held' \in [Names -> Holdings \cup {Nothing}]
  <2>1. CASE \E n \in Names, h \in Holdings \cup {Nothing} : held' = [held EXCEPT ![n] = h] /\ UNCHANGED <<match, regime>>
    BY <2>1 DEF AInv
  <2>2. CASE \E n \in Names, m \in Matches \cup {Nothing} : match' = [match EXCEPT ![n] = m] /\ UNCHANGED <<held, regime>>
    BY <2>2 DEF AInv
  <2> QED
    BY <2>1, <2>2 DEF Change
<1>2. UNCHANGED pc /\ frame' = [t \in Threads |-> IF At(t, "idle") THEN frame[t] ELSE [frame[t] EXCEPT !.steady = FALSE]]
  BY DEF Change
<1>3. ASSUME NEW t \in Threads, ~At(t, "idle")
      PROVE  /\ IsConsultation(frame'[t]) /\ IsBook(frame'[t].book) /\ frame'[t].left \subseteq Names
             /\ pc[t] # "advised" => frame'[t].report = NoReport
             /\ frame'[t].steady = FALSE
  <2> DEFINE f == frame[t]
  <2>1. IsConsultation(f) /\ IsBook(f.book) /\ f.left \subseteq Names /\ (pc[t] # "advised" => f.report = NoReport)
    BY <1>3 DEF AInv, At
  <2>2. frame'[t] = [f EXCEPT !.steady = FALSE]
    BY <1>2, <1>3
  <2> HIDE DEF f
  <2>3. frame'[t] = Consultation(f.op, f.left, f.qualities, f.book, f.advice, f.report, FALSE)
    <3>1. Stepped(f, FALSE, FALSE)
      BY <2>1, Updated
    <3> QED
      BY <2>2, <3>1 DEF Stepped
  <2>4. PICK g : g = frame'[t]
    OBVIOUS
  <2>6. g = Consultation(f.op, f.left, f.qualities, f.book, f.advice, f.report, FALSE)
    BY <2>3, <2>4
  <2>5. IsConsultation(g) /\ g.left = f.left /\ g.book = f.book /\ g.report = f.report /\ g.steady = FALSE
    BY <2>6 DEF Consultation, IsConsultation
  <2> QED
    BY <2>1, <2>4, <2>5
<1>4. pc' = [t \in Threads |-> pc'[t]] /\ frame' = [t \in Threads |-> frame'[t]]
  BY <1>2 DEF AInv
<1> QED
  BY <1>1, <1>2, <1>3, <1>4 DEF AInv, At

\* Every step of the pages of advice keeps the invariant.
LEMMA StepAdvice == AInv /\ [AdviceNext]_adviceAll => AInv'
<1> SUFFICES ASSUME AInv, [AdviceNext]_adviceAll PROVE AInv'
  OBVIOUS
<1>1. CASE UNCHANGED adviceAll
  BY <1>1 DEF AInv, adviceAll, pool, adviceVars, At, UpToDate
<1>2. ASSUME NEW t \in Threads, Advised(t) PROVE AInv'
  <2>1. pc' = [pc EXCEPT ![t] = "idle"] /\ frame' = [frame EXCEPT ![t] = NoFrame] /\ UNCHANGED <<held, match>>
    BY <1>2 DEF Advised, Done, Go, adviceVars
  <2> QED
    BY <2>1, MovesOn, Zenon
<1> QED
  BY <1>1, <1>2, ChangeInv, StartAdviceInv, ReadQualityInv, ReadBookInv, DecideOneInv, AdviseInv, ReportInv
  DEF AdviceNext

-----------------------------------------------------------------------------

\* rebalance/service.py: "an 'unknown' name is never auto-EXITed / auto-REDUCEd on a
\* fabricated read": whatever is held and scored, a name without a score is told to go
\* for its weight or the regime only, and never bought, unless a change crossed the request.
THEOREM NothingIsFabricated == AdviceSpec => []NothingFabricated
<1>1. AInv => NothingFabricated
  <2> SUFFICES ASSUME AInv, NEW t \in Threads, At(t, "advised"), frame[t].steady,
                      NEW n \in DOMAIN frame[t].advice
               PROVE  Honest(frame[t].advice[n])
    BY DEF NothingFabricated, SteadyAdvice, Honest
  <2> QED
    BY DEF AInv, UpToDate, At
<1> QED
  BY <1>1, InitAdvice, StepAdvice, PTL DEF AdviceSpec

\* "a strong high-score name whose quality merely dipped after a down day is NOT
\* trimmed on that alone": for any fall and any liquidity, with the same proviso.
THEOREM StrongNamesAreKept == AdviceSpec => []StrongNamesStay
<1>1. AInv => StrongNamesStay
  <2> SUFFICES ASSUME AInv, NEW t \in Threads, At(t, "advised"), frame[t].steady,
                      NEW n \in DOMAIN frame[t].advice
               PROVE  Patient(frame[t].advice[n])
    BY DEF StrongNamesStay, SteadyAdvice, Patient
  <2> QED
    BY DEF AInv, UpToDate, At
<1> QED
  BY <1>1, InitAdvice, StepAdvice, PTL DEF AdviceSpec

\* On the same holdings and scores, what the report calls strong the rebalance does not
\* exit, and what it finds too large is told to go at least in part.
THEOREM ReportAndRebalanceAgree == AdviceSpec => []PagesAgree
<1>1. AInv => PagesAgree
  <2> SUFFICES ASSUME AInv, NEW t \in Threads, At(t, "advised"), frame[t].steady, NEW tape \in Tapes
               PROVE  LET action(n) == Decide(Considered(frame[t], n, tape)).action
                      IN /\ \A n \in frame[t].report.strong : action(n) # "EXIT"
                         /\ \A n \in frame[t].report.crowded : action(n) \in {"EXIT", "REDUCE"}
    BY DEF PagesAgree
  <2> DEFINE f == frame[t]
  <2>1. UpToDate(f)
    BY DEF AInv, At
  <2> HIDE DEF f
  <2>2. ASSUME NEW n \in f.report.strong PROVE Decide(Considered(f, n, tape)).action # "EXIT"
    <3>1. n \in DOMAIN f.qualities /\ n \in Names /\ f.qualities[n] = Quality(match[n]) /\ Quality(match[n]).quality >= 8000
      BY <2>1, <2>2 DEF UpToDate
    <3>2. match[n] # Nothing
      BY <3>1 DEF Quality
    <3>3. match[n] \in Matches
      BY <3>1, <3>2 DEF AInv
    <3>4. Quality(match[n]).quality \in Int /\ match[n].score >= 55 /\ match[n].signal # "SELL"
      <4>1. PICK m \in Matches : m = match[n]
        BY <3>3
      <4>5. Fitting(m, Quality(m))
        BY QualityFollowsScore
      <4>2. Quality(m).quality \in Int /\ (Quality(m).quality >= 8000 => m.score >= 55 /\ m.signal # "SELL")
        BY <4>5 DEF Fitting
      <4> QED
        BY <3>1, <4>1, <4>2
    <3>5. PICK x : x = Considered(f, n, tape)
      OBVIOUS
    <3>6. x.score = match[n].score /\ x.signal = match[n].signal /\ x.quality = Quality(match[n]).quality
      BY <3>1, <3>2, <3>5 DEF Considered
    <3>7. x.score \in Int
      BY <3>3, <3>6, MatchesAssumption
    <3>8. Decide(x).action # "EXIT"
      BY <3>1, <3>4, <3>6, <3>7, SoundStays
    <3> QED
      BY <3>5, <3>8
  <2>3. ASSUME NEW n \in f.report.crowded PROVE Decide(Considered(f, n, tape)).action \in {"EXIT", "REDUCE"}
    <3>1. Weight(f.book[n].value, f.book) > P(30)
      BY <2>1, <2>3 DEF UpToDate, Dominates
    <3>2. PICK x : x = Considered(f, n, tape)
      OBVIOUS
    <3>3. x.weight = Weight(f.book[n].value, f.book)
      BY <3>2 DEF Considered
    <3> QED
      BY <3>1, <3>2, <3>3, HeavyGoes
  <2> QED
    BY <2>2, <2>3 DEF f
<1> QED
  BY <1>1, InitAdvice, StepAdvice, PTL DEF AdviceSpec

=============================================================================
