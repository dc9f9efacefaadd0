------------------------- MODULE MoomooSltp_proofs -------------------------
(***************************************************************************)
(* Theorems about MoomooSltp, for every set of tickers, symbols, inputs    *)
(* and faults, and every bound.                                            *)
(***************************************************************************)
EXTENDS MoomooSltp, SequenceTheorems, TLAPS

-----------------------------------------------------------------------------
(* The inductive invariant.  A ticker that has sold for a bracket never     *)
(* meets it again: the bracket leaves ACTIVE in the step that ends the      *)
(* sale, ids are not used twice, and the lists of brackets still to         *)
(* evaluate hold each bracket once.                                         *)

Busy == {"preview", "place", "mark"}

\* A ticker at work on a bracket has one.
Shapes ==
    /\ TypeOK
    /\ \A t \in Tickers : pc[t] \in Busy => frame[t].cur \in Brackets

\* A bracket some ticker holds: attached before, and if it is still ACTIVE then
\* under its own symbol.
Known(b) ==
    /\ b.id < nextId
    /\ \A s \in Symbols : bracket[s].id = b.id => b.symbol = s

\* Brackets are told apart by their ids.
Identities ==
    /\ \A s \in Symbols : IsActive(s) => Known(bracket[s])
    /\ \A t \in Tickers : \A b \in frame[t].todo :
           Known(b) /\ \A c \in frame[t].todo : b.id = c.id => b = c
    /\ \A t \in Tickers : pc[t] \in Busy =>
           Known(frame[t].cur) /\ \A b \in frame[t].todo : b.id # frame[t].cur.id
    /\ \A o \in DOMAIN orders : orders[o].bracket < nextId

\* Ticker t has sold for bracket id and will not do so again.
Done(t, id) ==
    /\ \A b \in frame[t].todo : b.id # id
    /\ pc[t] \in {"preview", "place"} => frame[t].cur.id # id
    /\ \A s \in Symbols : bracket[s].id = id =>
           pc[t] = "mark" /\ frame[t].cur.id = id /\ frame[t].mark \in Fired

SoldOnce ==
    \A o \in DOMAIN orders :
        orders[o].bracket \in faulted \/ Done(orders[o].ticker, orders[o].bracket)

IInv == Shapes /\ Identities /\ SoldOnce /\ RepeatOnlyAfterFault

-----------------------------------------------------------------------------
(* Facts about the locals of a tick. *)

\* What a bracket consists of.
LEMMA BracketFields ==
    ASSUME NEW b \in Brackets
    PROVE  /\ b.id \in Nat /\ b.id # 0 /\ b.id <= MaxAttach
           /\ b.symbol \in Symbols /\ b.qty \in Quantities /\ b # NoBracket
           /\ b.stop \in Int /\ b.target \in Int
<1>1. b.id \in 1..MaxAttach
  BY DEF Brackets, BracketIds
<1>2. b.id # 0
  BY <1>1, BoundsAssumption
<1>3. NoBracket.id = 0
  BY DEF NoBracket
<1> QED
  BY <1>1, <1>2, <1>3, BoundsAssumption DEF Brackets

\* A ticker that begins has no quote and nothing to evaluate.
LEMMA QuoteTypes ==
    /\ NoQuote \in Quotes
    /\ IdleFrame \in Frames
    /\ IdleFrame.todo = {}
<1>1. NoQuote \in Quotes
  BY DEF NoQuote, Quotes
<1> QED
  BY <1>1 DEF IdleFrame, Frames, Hits, Statuses, Fired

\* A ticker goes on with the rest of its list.
LEMMA RestType ==
    ASSUME NEW f \in Frames, NEW todo \in SUBSET Brackets
    PROVE  /\ Rest(f, todo) \in Frames
           /\ Rest(f, todo).todo = todo
<1>1. [s \in Symbols |-> IF \E b \in todo : b.symbol = s THEN f.pos[s] ELSE NoQuote]
         \in [Symbols -> Quotes]
  BY QuoteTypes DEF Frames
<1> QED
  BY <1>1, QuoteTypes DEF Rest, IdleFrame, Frames

-----------------------------------------------------------------------------
(* Steps of a ticker that touch neither the brackets nor the orders. *)

\* Ticker t goes on to label l with the locals f, evaluating no bracket it did
\* not hold before; a sell it does not get to record is in faulted.
LEMMA TickerMoves ==
    ASSUME IInv,
           NEW t \in Tickers, NEW l \in Labels, NEW f \in Frames,
           Goto(t, l, f), UNCHANGED <<store, market, orders, wasFlat>>,
           faults' \in 0..MaxFaults,
           faulted \subseteq faulted', faulted' \subseteq BracketIds,
           f.todo \subseteq frame[t].todo,
           l \in Busy => /\ f.cur \notin f.todo
                        /\ \/ f.cur \in frame[t].todo
                           \/ pc[t] \in {"preview", "place"} /\ f.cur = frame[t].cur,
           pc[t] = "mark" /\ frame[t].mark \in Fired => frame[t].cur.id \in faulted'
    PROVE  IInv'
<1> USE DEF IInv, store, market
<1>1. /\ pc' = [pc EXCEPT ![t] = l]
      /\ frame' = [frame EXCEPT ![t] = f]
  BY DEF Goto
<1>2. /\ pc'[t] = l /\ frame'[t] = f
      /\ \A u \in Tickers \ {t} : pc'[u] = pc[u] /\ frame'[u] = frame[u]
      /\ pc' \in [Tickers -> Labels] /\ frame' \in [Tickers -> Frames]
  BY <1>1 DEF Shapes, TypeOK
<1>3. frame[t].todo \subseteq Brackets
  BY DEF Shapes, TypeOK, Frames
<1>4. ASSUME l \in Busy
      PROVE  f.cur \in Brackets /\ Known(f.cur)
  BY <1>3, <1>4 DEF Shapes, Identities, Busy
<1>5. Shapes'
  BY <1>2, <1>4 DEF Shapes, TypeOK
<1>6. Identities'
  <2>1. \A b : Known(b) => Known(b)'
    BY DEF Known
  <2>2. (\A s \in Symbols : IsActive(s) => Known(bracket[s]))'
    BY <2>1 DEF Identities, IsActive
  <2>3. (\A u \in Tickers : \A b \in frame[u].todo :
            Known(b) /\ \A c \in frame[u].todo : b.id = c.id => b = c)'
    BY <1>2, <2>1 DEF Identities
  <2>4. (\A u \in Tickers : pc[u] \in Busy =>
            Known(frame[u].cur) /\ \A b \in frame[u].todo : b.id # frame[u].cur.id)'
    <3>1. ASSUME l \in Busy
          PROVE  \A b \in f.todo : b.id # f.cur.id
      <4>1. CASE f.cur \in frame[t].todo
        <5>1. \A b \in f.todo : b \in frame[t].todo /\ b # f.cur
          BY <3>1
        <5>2. \A b, c \in frame[t].todo : b.id = c.id => b = c
          BY DEF Identities
        <5> QED
          BY <4>1, <5>1, <5>2
      <4>2. CASE pc[t] \in {"preview", "place"} /\ f.cur = frame[t].cur
        BY <4>2 DEF Identities, Busy
      <4> QED
        BY <3>1, <4>1, <4>2
    <3> QED
      BY <1>2, <1>4, <2>1, <3>1 DEF Identities
  <2> QED
    BY <2>2, <2>3, <2>4 DEF Identities
<1>7. SoldOnce'
  <2> SUFFICES ASSUME NEW o \in DOMAIN orders, orders[o].bracket \notin faulted'
               PROVE  Done(orders[o].ticker, orders[o].bracket)'
    BY DEF SoldOnce
  <2> DEFINE u == orders[o].ticker  id == orders[o].bracket
  <2>1. Done(u, id) /\ u \in Tickers
    <3>1. orders[o] \in Orders
      BY DEF Shapes, TypeOK
    <3>2. orders[o].bracket \notin faulted
      OBVIOUS
    <3> QED
      BY <3>1, <3>2 DEF SoldOnce, Orders
  <2>2. CASE u = t
    <3>1. \A s \in Symbols : bracket[s].id # id
      BY <2>1, <2>2 DEF Done
    <3> QED
      BY <1>2, <2>1, <2>2, <3>1 DEF Done, Busy
  <2>3. CASE u # t
    BY <1>2, <2>1, <2>3 DEF Done
  <2> QED
    BY <2>2, <2>3
<1>8. RepeatOnlyAfterFault'
  BY DEF RepeatOnlyAfterFault
<1> QED
  BY <1>5, <1>6, <1>7, <1>8

\* The broker's positions are a quote for every symbol.
LEMMA PositionsType ==
    ASSUME TypeOK
    PROVE  Positions \in [Symbols -> Quotes]
BY QuoteTypes DEF TypeOK, Positions, Sellable, Quotes

\* What GotoMark leaves in the frame.
MarkedFrame(f, b, status, o) ==
    LET g == [Rest(f, f.todo) EXCEPT !.cur = b, !.mark = status, !.order = o]
    IN  /\ g \in Frames
        /\ g.todo = f.todo /\ g.cur = b /\ g.mark = status /\ g.order = o

\* A ticker that is about to mark a bracket holds it, its new status and its order.
LEMMA MarkFrame ==
    ASSUME NEW f \in Frames, NEW b \in Brackets, NEW status \in Statuses,
           NEW o \in OrderIds \cup {0}
    PROVE  MarkedFrame(f, b, status, o)
<1> DEFINE g == [Rest(f, f.todo) EXCEPT !.cur = b, !.mark = status, !.order = o]
<1>1. f.todo \in SUBSET Brackets
  BY DEF Frames
<1>2. Rest(f, f.todo) \in Frames /\ Rest(f, f.todo).todo = f.todo
  BY <1>1, RestType
<1>3. g.todo = f.todo /\ g.cur = b /\ g.mark = status /\ g.order = o
  BY <1>2 DEF Frames
<1>4. g \in Frames
  BY <1>2 DEF Frames
<1> QED
  BY <1>3, <1>4 DEF MarkedFrame

\* GotoMark on a bracket of the tick, when no sell waits to be recorded.
LEMMA GoesToMark ==
    ASSUME IInv,
           NEW t \in Tickers, NEW f \in Frames, NEW b \in Brackets, NEW status \in Statuses,
           GotoMark(t, f, b, status, 0), UNCHANGED <<store, market, orders, wasFlat>>,
           faults' \in 0..MaxFaults, UNCHANGED faulted,
           f.todo \subseteq frame[t].todo, b \notin f.todo,
           \/ b \in frame[t].todo /\ pc[t] = "each"
           \/ b = frame[t].cur /\ pc[t] \in {"preview", "place"}
    PROVE  IInv'
<1> DEFINE g == [Rest(f, f.todo) EXCEPT !.cur = b, !.mark = status, !.order = 0]
<1>1. g \in Frames /\ g.todo = f.todo /\ g.cur = b
  <2>1. MarkedFrame(f, b, status, 0)
    BY MarkFrame
  <2> QED
    BY <2>1 DEF MarkedFrame
<1>2. Goto(t, "mark", g)
  BY DEF GotoMark
<1>3. faulted' \subseteq BracketIds
  BY DEF IInv, Shapes, TypeOK
<1>4. "mark" \in Labels /\ pc[t] # "mark" /\ "mark" \in Busy
  BY DEF Labels, Busy
<1>5. g.todo \subseteq frame[t].todo /\ g.cur \notin g.todo
  BY <1>1
<1>6. g.cur \in frame[t].todo \/ (pc[t] \in {"preview", "place"} /\ g.cur = frame[t].cur)
  BY <1>1
<1> HIDE DEF g
<1> QED
  BY <1>1, <1>2, <1>3, <1>4, <1>5, <1>6, TickerMoves

LEMMA TickReads ==
    ASSUME IInv, NEW t \in Tickers,
           ReadPositions(t) \/ ReadNoPositions(t) \/ EndTick(t)
    PROVE  IInv'
<1>1. /\ frame[t] \in Frames /\ pc[t] # "mark"
      /\ {"each", "idle"} \subseteq Labels /\ {"each", "idle"} \cap Busy = {}
      /\ faults \in 0..MaxFaults /\ faulted \subseteq BracketIds
  BY DEF IInv, Shapes, TypeOK, Labels, Busy, ReadPositions, ReadNoPositions, EndTick
<1>2. CASE ReadPositions(t)
  <2> DEFINE f == [frame[t] EXCEPT !.pos = Positions]
  <2>1. f \in Frames /\ f.todo = frame[t].todo
    BY <1>1, PositionsType DEF Frames, IInv, Shapes
  <2>2. Goto(t, "each", f) /\ UNCHANGED <<store, market, orders, faults, faulted, wasFlat>>
    BY <1>2 DEF ReadPositions
  <2> HIDE DEF f
  <2> QED
    BY <1>1, <2>1, <2>2, TickerMoves
<1>3. CASE ReadNoPositions(t)
  <2>1. faults' \in 0..MaxFaults
    BY <1>1, <1>3, FaultsAssumption DEF ReadNoPositions
  <2> QED
    BY <1>1, <1>3, <2>1, TickerMoves DEF ReadNoPositions
<1>4. CASE EndTick(t)
  BY <1>1, <1>4, QuoteTypes, TickerMoves DEF EndTick
<1> QED
  BY <1>2, <1>3, <1>4

LEMMA TickEvaluates ==
    ASSUME IInv, NEW t \in Tickers, NEW b \in frame[t].todo,
           FindGone(t, b) \/ FindQuiet(t, b) \/ FindHit(t, b)
    PROVE  IInv'
<1> DEFINE w == Without(t, b)
<1>1. /\ frame[t] \in Frames /\ pc[t] = "each" /\ b \in Brackets
      /\ faults \in 0..MaxFaults /\ faulted \subseteq BracketIds
      /\ frame[t].todo \subseteq Brackets
  BY DEF IInv, Shapes, TypeOK, FindGone, FindQuiet, FindHit, Taking, Frames
<1>2. /\ w \in Frames /\ w.todo = frame[t].todo \ {b}
  BY <1>1, RestType DEF Without
<1>3. {"each", "preview"} \subseteq Labels /\ "each" \notin Busy
  BY DEF Labels, Busy
<1>4. {"ACTIVE", "CLOSED_NO_POSITION"} \subseteq Statuses
  BY DEF Statuses
<1> HIDE DEF w
<1>5. CASE FindGone(t, b)
  <2>1. /\ GotoMark(t, w, b, "CLOSED_NO_POSITION", 0)
        /\ UNCHANGED <<store, market, orders, faults, faulted, wasFlat>>
    BY <1>5 DEF FindGone, w
  <2> QED
    BY <1>1, <1>2, <1>4, <2>1, GoesToMark
<1>6. CASE FindQuiet(t, b)
  <2>1. /\ Goto(t, "each", w)
        /\ UNCHANGED <<store, market, orders, faults, faulted, wasFlat>>
    BY <1>6 DEF FindQuiet, w
  <2> QED
    BY <1>1, <1>2, <1>3, <2>1, TickerMoves
<1>7. CASE FindHit(t, b)
  <2> DEFINE q == frame[t].pos[b.symbol]
             n == SellQty(b, q)
             g == [w EXCEPT !.cur = b, !.seen = q, !.qty = n,
                            !.hit = HitOf(b, q.last), !.ext = ~sessionOpen]
  <2>1. UNCHANGED <<store, market, orders, faults, faulted, wasFlat>>
    BY <1>7 DEF FindHit
  <2>2. \/ GotoMark(t, w, b, "ACTIVE", 0)
        \/ Goto(t, "preview", g)
    BY <1>7 DEF FindHit, w
  <2>3. q \in Quotes /\ b.qty \in Nat
    BY <1>1, BracketFields, InputsAssumption DEF Frames
  <2>4. n \in Int
    BY <2>3 DEF SellQty, Lesser, Quotes
  <2>5. HitOf(b, q.last) \in Hits
    BY DEF HitOf, Hits
  <2>6. g \in Frames /\ g.todo = w.todo /\ g.cur = b
    BY <1>1, <1>2, <2>3, <2>4, <2>5 DEF Frames
  <2> HIDE DEF g
  <2>7. CASE GotoMark(t, w, b, "ACTIVE", 0)
    BY <1>1, <1>2, <1>4, <2>1, <2>7, GoesToMark
  <2>8. CASE Goto(t, "preview", g)
    BY <1>1, <1>2, <1>3, <2>1, <2>6, <2>8, TickerMoves
  <2> QED
    BY <2>2, <2>7, <2>8
<1> QED
  BY <1>5, <1>6, <1>7

\* A sell that is refused, or fails before it is placed, leaves the bracket as it was.
LEMMA TickDoesNotSell ==
    ASSUME IInv, NEW t \in Tickers,
           Preview(t) \/ PreviewOutage(t) \/ PlaceRefused(t) \/ PlaceOutage(t)
    PROVE  IInv'
<1>1. /\ frame[t] \in Frames /\ pc[t] \in {"preview", "place"}
      /\ faults \in 0..MaxFaults /\ faulted \subseteq BracketIds
  BY DEF IInv, Shapes, TypeOK, Preview, PreviewOutage, PlaceRefused, PlaceOutage
<1>2. frame[t].cur \in Brackets /\ frame[t].cur \notin frame[t].todo
  BY <1>1 DEF IInv, Shapes, Identities, Busy
<1>3. faults' \in 0..MaxFaults
  BY <1>1, FaultsAssumption DEF Preview, PreviewOutage, PlaceRefused, PlaceOutage
<1>4. /\ UNCHANGED <<store, market, orders, faulted, wasFlat>>
      /\ \/ Goto(t, "place", frame[t])
         \/ GotoMark(t, frame[t], frame[t].cur, "ACTIVE", 0)
  BY DEF Preview, PreviewOutage, PlaceRefused, PlaceOutage, AfterFailure
<1>5. "ACTIVE" \in Statuses /\ "place" \in Labels
  BY DEF Statuses, Labels
<1>6. CASE Goto(t, "place", frame[t])
  BY <1>1, <1>2, <1>3, <1>4, <1>5, <1>6, TickerMoves
<1>7. CASE GotoMark(t, frame[t], frame[t].cur, "ACTIVE", 0)
  BY <1>1, <1>2, <1>3, <1>4, <1>5, <1>7, GoesToMark
<1> QED
  BY <1>4, <1>6, <1>7

LEMMA MarkNotWritten ==
    ASSUME IInv, NEW t \in Tickers, MarkFails(t)
    PROVE  IInv'
<1>1. /\ frame[t] \in Frames /\ pc[t] = "mark" /\ frame[t].cur \in Brackets
      /\ faults \in 0..MaxFaults /\ faulted \subseteq BracketIds
      /\ UNCHANGED <<store, market, orders, wasFlat>>
      /\ {"each", "idle"} \subseteq Labels /\ {"each", "idle"} \cap Busy = {}
  BY DEF IInv, Shapes, TypeOK, Busy, MarkFails, Labels
<1>2. faults' \in 0..MaxFaults
  BY <1>1, FaultsAssumption DEF MarkFails
<1>3. /\ faulted \subseteq faulted' /\ faulted' \subseteq BracketIds
      /\ frame[t].mark \in Fired => frame[t].cur.id \in faulted'
  BY <1>1 DEF MarkFails, Brackets
<1> DEFINE r == Rest(frame[t], frame[t].todo)
<1>4. r \in Frames /\ r.todo = frame[t].todo
  BY <1>1, RestType DEF Frames
<1>5. Goto(t, "each", r) \/ Goto(t, "idle", IdleFrame)
  BY DEF MarkFails
<1> HIDE DEF r
<1>6. CASE Goto(t, "each", r)
  BY <1>1, <1>2, <1>3, <1>4, <1>6, TickerMoves
<1>7. CASE Goto(t, "idle", IdleFrame)
  BY <1>1, <1>2, <1>3, <1>7, QuoteTypes, TickerMoves
<1> QED
  BY <1>5, <1>6, <1>7

-----------------------------------------------------------------------------
(* Steps that change the brackets. *)

\* The history stays within its length when a bracket is retired into it.
LEMMA RetiredType ==
    ASSUME TypeOK, NEW s \in Symbols, IsActive(s),
           NEW status \in Statuses \ {"ACTIVE"}, NEW o \in OrderIds \cup {0}
    PROVE  Retired(s, status, o) \in Seq(Rows) /\ Len(Retired(s, status, o)) <= MaxHistory
<1> DEFINE row == [id |-> bracket[s].id, symbol |-> s, status |-> status, order |-> o]
           rows == <<row>> \o history
           n == Lesser(Len(rows), MaxHistory)
<1>1. bracket[s] \in Brackets
  BY DEF TypeOK, IsActive
<1>2. row \in Rows
  BY <1>1 DEF Rows, Brackets
<1>3. <<row>> \in Seq(Rows) /\ history \in Seq(Rows)
  BY <1>2 DEF TypeOK
<1> HIDE DEF row
<1>4. rows \in Seq(Rows)
  BY <1>3, ConcatProperties
<1> HIDE DEF rows
<1>5. Len(rows) \in Nat /\ MaxHistory \in Nat
  BY <1>4, BoundsAssumption
<1>6. n \in Nat /\ n <= Len(rows) /\ n <= MaxHistory
  BY <1>5 DEF Lesser
<1> HIDE DEF n
<1>7. \A i \in 1..n : rows[i] \in Rows
  BY <1>4, <1>5, <1>6
<1>8. SubSeq(rows, 1, n) \in Seq(Rows) /\ Len(SubSeq(rows, 1, n)) = IF 1 <= n THEN n - 1 + 1 ELSE 0
  BY <1>6, <1>7, SubSeqProperties
<1>9. Len(SubSeq(rows, 1, n)) <= MaxHistory
  BY <1>5, <1>6, <1>8
<1> QED
  BY <1>8, <1>9 DEF Retired, Prune, rows, row, n

\* Nothing but the brackets changes, and no ACTIVE bracket appears but one with
\* a fresh id.
LEMMA OwnerMoves ==
    ASSUME IInv, TypeOK', nextId <= nextId',
           UNCHANGED <<orders, pc, frame, faulted>>,
           \A s \in Symbols :
               \/ bracket'[s] \in {bracket[s], NoBracket}
               \/ /\ bracket'[s].id = nextId /\ nextId < nextId'
                  /\ bracket'[s].symbol = s
                  /\ \A r \in Symbols \ {s} : bracket'[r] = bracket[r]
    PROVE  IInv'
<1> USE DEF IInv
<1>1. nextId \in Nat /\ nextId' \in Nat /\ NoBracket.id = 0
  BY BoundsAssumption DEF Shapes, TypeOK, NoBracket
<1>2. ASSUME NEW b \in Brackets, Known(b)
      PROVE  Known(b)'
  <2>1. b.id \in Nat /\ b.id # 0 /\ b.id < nextId
    BY <1>2, BracketFields DEF Known
  <2> QED
    BY <1>1, <1>2, <2>1 DEF Known
<1>3. \A s \in Symbols : bracket[s] \in Brackets \cup {NoBracket}
  BY DEF Shapes, TypeOK
<1>4. Shapes'
  BY DEF Shapes
<1>5. Identities'
  <2>1. ASSUME NEW s \in Symbols, IsActive(s)'
        PROVE  Known(bracket[s])'
    <3>1. CASE bracket'[s] = bracket[s]
      <4>1. bracket[s] \in Brackets /\ Known(bracket[s])
        BY <1>3, <2>1, <3>1 DEF IsActive, Identities
      <4> QED
        BY <1>2, <3>1, <4>1 DEF Known
    <3>2. CASE bracket'[s] # bracket[s]
      <4>1. /\ bracket'[s].id = nextId /\ nextId < nextId' /\ bracket'[s].symbol = s
            /\ \A r \in Symbols \ {s} : bracket'[r] = bracket[r]
        BY <2>1, <3>2 DEF IsActive
      <4>2. \A r \in Symbols : bracket[r].id # nextId
        <5> TAKE r \in Symbols
        <5>1. CASE bracket[r] = NoBracket
          <6>1. nextId # 0
            BY BoundsAssumption DEF Shapes, TypeOK
          <6> QED
            BY <1>1, <5>1, <6>1
        <5>2. CASE bracket[r] \in Brackets
          <6>1. bracket[r].id \in Nat /\ bracket[r] # NoBracket
            BY <5>2, BracketFields
          <6>2. bracket[r].id < nextId
            BY <6>1 DEF Identities, IsActive, Known
          <6> QED
            BY <1>1, <6>1, <6>2
        <5> QED
          BY <1>3, <5>1, <5>2
      <4> QED
        BY <4>1, <4>2 DEF Known
    <3> QED
      BY <3>1, <3>2
  <2>2. ASSUME NEW t \in Tickers, NEW b \in frame[t].todo
        PROVE  Known(b)' /\ \A c \in frame[t].todo : b.id = c.id => b = c
    <3>1. b \in Brackets
      BY DEF Shapes, TypeOK, Frames
    <3> QED
      BY <1>2, <3>1 DEF Identities
  <2>3. ASSUME NEW t \in Tickers, pc[t] \in Busy
        PROVE  Known(frame[t].cur)' /\ \A b \in frame[t].todo : b.id # frame[t].cur.id
    BY <1>2, <2>3 DEF Identities, Shapes
  <2>4. \A o \in DOMAIN orders : orders[o].bracket < nextId'
    <3> TAKE o \in DOMAIN orders
    <3>1. orders[o] \in Orders
      BY DEF Shapes, TypeOK
    <3>2. orders[o].bracket \in Nat
      BY <3>1, BoundsAssumption DEF Orders, BracketIds
    <3> QED
      BY <1>1, <3>2 DEF Identities
  <2> QED
    BY <2>1, <2>2, <2>3, <2>4 DEF Identities
<1>6. SoldOnce'
  <2> SUFFICES ASSUME NEW o \in DOMAIN orders, orders[o].bracket \notin faulted
               PROVE  Done(orders[o].ticker, orders[o].bracket)'
    BY DEF SoldOnce
  <2>1. orders[o] \in Orders
    BY DEF Shapes, TypeOK
  <2>2. orders[o].bracket \in Nat /\ orders[o].bracket # 0 /\ orders[o].bracket < nextId
    BY <2>1, BoundsAssumption DEF Orders, BracketIds, Identities
  <2>3. \A s \in Symbols : bracket'[s].id = orders[o].bracket => bracket[s].id = orders[o].bracket
    BY <1>1, <2>2
  <2> QED
    BY <2>3 DEF SoldOnce, Done
<1>7. RepeatOnlyAfterFault'
  BY DEF RepeatOnlyAfterFault
<1> QED
  BY <1>4, <1>5, <1>6, <1>7

LEMMA OwnerAttaches ==
    ASSUME IInv, NEW s \in Symbols, NEW q \in Quantities, NEW ref \in References,
           Attach(s, q, ref)
    PROVE  IInv'
<1> DEFINE new == [id |-> nextId, symbol |-> s, qty |-> q,
                   stop |-> StopPrice(ref), target |-> TargetPrice(ref)]
<1>1. nextId \in 1..MaxAttach /\ MaxAttach \in Nat
  BY BoundsAssumption DEF Attach, IInv, Shapes, TypeOK
<1>2. new \in Brackets /\ new.id = nextId /\ new.symbol = s
  BY <1>1, InputsAssumption DEF Brackets, BracketIds, StopPrice, TargetPrice
<1>3. bracket' = [bracket EXCEPT ![s] = new] /\ nextId' = nextId + 1
  BY DEF Attach
<1> HIDE DEF new
<1>4. wasFlat' \subseteq BracketIds
  BY <1>1 DEF Attach, IInv, Shapes, TypeOK, BracketIds
<1>5. TypeOK'
  BY <1>1, <1>2, <1>3, <1>4 DEF Attach, market, IInv, Shapes, TypeOK
<1>6. \A r \in Symbols : bracket'[r] = IF r = s THEN new ELSE bracket[r]
  BY <1>3 DEF IInv, Shapes, TypeOK
<1> QED
  BY <1>1, <1>2, <1>3, <1>5, <1>6, OwnerMoves DEF Attach

LEMMA OwnerCancels ==
    ASSUME IInv, NEW s \in Symbols, Cancel(s)
    PROVE  IInv'
<1>1. history' \in Seq(Rows) /\ Len(history') <= MaxHistory
  <2>1. "CANCELLED" \in Statuses \ {"ACTIVE"} /\ IsActive(s) /\ TypeOK
    BY DEF Statuses, Cancel, IInv, Shapes
  <2>2. 0 \in OrderIds \cup {0}
    OBVIOUS
  <2> QED
    BY <2>1, <2>2, RetiredType DEF Cancel
<1>2. TypeOK'
  BY <1>1 DEF Cancel, market, IInv, Shapes, TypeOK
<1>3. \A r \in Symbols : bracket'[r] \in {bracket[r], NoBracket}
  BY DEF Cancel, IInv, Shapes, TypeOK
<1>4. nextId <= nextId'
  BY BoundsAssumption DEF Cancel, IInv, Shapes, TypeOK
<1> QED
  BY <1>2, <1>3, <1>4, OwnerMoves DEF Cancel

\* The tick starts with the ACTIVE brackets, none of which it has sold for.
LEMMA TickStarts ==
    ASSUME IInv, NEW t \in Tickers, StartTick(t)
    PROVE  IInv'
<1> USE DEF IInv
<1> DEFINE todo == {bracket[s] : s \in {x \in Symbols : IsActive(x)}}
           f == [IdleFrame EXCEPT !.todo = todo]
<1>1. todo \subseteq Brackets
  BY DEF Shapes, TypeOK, IsActive
<1>2. f \in Frames /\ f.todo = todo
  BY <1>1, QuoteTypes DEF Frames
<1>3. \A b \in todo : \E s \in Symbols : IsActive(s) /\ b = bracket[s]
  OBVIOUS
<1> HIDE DEF todo
<1> HIDE DEF f
<1>4. /\ pc' = [pc EXCEPT ![t] = "positions"] /\ frame' = [frame EXCEPT ![t] = f]
      /\ pc[t] = "idle" /\ UNCHANGED <<store, market, orders, faults, faulted, wasFlat>>
  BY DEF StartTick, Goto, todo, f
<1>5. /\ pc'[t] = "positions" /\ frame'[t].todo = todo
      /\ \A u \in Tickers \ {t} : pc'[u] = pc[u] /\ frame'[u] = frame[u]
      /\ pc' \in [Tickers -> Labels] /\ frame' \in [Tickers -> Frames]
      /\ "positions" \notin Busy
  BY <1>2, <1>4 DEF Shapes, TypeOK, Labels, Busy
<1>6. Shapes'
  BY <1>4, <1>5 DEF Shapes, TypeOK, store, market
<1>7. \A b : Known(b) => Known(b)'
  BY <1>4 DEF Known, store
<1>8. \A b, c \in todo : Known(b) /\ (b.id = c.id => b = c)
  <2> SUFFICES ASSUME NEW b \in todo, NEW c \in todo
               PROVE  Known(b) /\ (b.id = c.id => b = c)
    OBVIOUS
  <2>1. PICK r \in Symbols : IsActive(r) /\ b = bracket[r]
    BY <1>3
  <2>2. PICK s \in Symbols : IsActive(s) /\ c = bracket[s]
    BY <1>3
  <2>3. Known(b) /\ Known(c)
    BY <2>1, <2>2 DEF Identities
  <2>4. b.symbol = r /\ c.symbol = s
    BY <2>1, <2>2, <2>3 DEF Known
  <2>5. b.id = c.id => b.symbol = s
    BY <2>2, <2>3 DEF Known
  <2> QED
    BY <2>1, <2>2, <2>3, <2>4, <2>5
<1>9. Identities'
  <2>1. (\A s \in Symbols : IsActive(s) => Known(bracket[s]))'
    BY <1>4, <1>7 DEF Identities, IsActive, store
  <2>2. (\A u \in Tickers : \A b \in frame[u].todo :
            Known(b) /\ \A c \in frame[u].todo : b.id = c.id => b = c)'
    BY <1>5, <1>7, <1>8 DEF Identities
  <2>3. (\A u \in Tickers : pc[u] \in Busy =>
            Known(frame[u].cur) /\ \A b \in frame[u].todo : b.id # frame[u].cur.id)'
    BY <1>5, <1>7 DEF Identities
  <2>4. (\A o \in DOMAIN orders : orders[o].bracket < nextId)'
    BY <1>4 DEF Identities, store
  <2> QED
    BY <2>1, <2>2, <2>3, <2>4 DEF Identities
<1>10. SoldOnce'
  <2>1. orders' = orders /\ faulted' = faulted /\ bracket' = bracket
    BY <1>4 DEF store
  <2> SUFFICES ASSUME NEW o \in DOMAIN orders, orders[o].bracket \notin faulted
               PROVE  Done(orders[o].ticker, orders[o].bracket)'
    BY <2>1 DEF SoldOnce
  <2> DEFINE u == orders[o].ticker  id == orders[o].bracket
  <2>2. orders[o] \in Orders
    BY DEF Shapes, TypeOK
  <2>3. Done(u, id) /\ u \in Tickers
    BY <2>2 DEF SoldOnce, Orders
  <2>4. CASE u = t
    <3>1. \A s \in Symbols : bracket[s].id # id
      BY <1>4, <2>3, <2>4 DEF Done
    <3>2. \A b \in todo : b.id # id
      BY <1>3, <3>1
    <3> QED
      BY <1>5, <2>1, <2>4, <3>1, <3>2 DEF Done
  <2>5. CASE u # t
    BY <1>5, <2>1, <2>3, <2>5 DEF Done
  <2> QED
    BY <2>4, <2>5
<1>11. RepeatOnlyAfterFault'
  BY <1>4 DEF RepeatOnlyAfterFault
<1> QED
  BY <1>6, <1>9, <1>10, <1>11

\* The step that ends a sale: the bracket leaves ACTIVE, if it still was.
LEMMA TickMarks ==
    ASSUME IInv, NEW t \in Tickers, Mark(t)
    PROVE  IInv'
<1> USE DEF IInv
<1> DEFINE f == frame[t]
           s == f.cur.symbol
           r == Rest(f, f.todo)
<1>1. /\ pc[t] = "mark" /\ f \in Frames /\ f.cur \in Brackets /\ s \in Symbols
      /\ f.todo \in SUBSET Brackets /\ NoBracket.id = 0 /\ "each" \notin Busy
      /\ UNCHANGED <<nextId, market, orders, faults, faulted, wasFlat>>
  <2>1. pc[t] = "mark" /\ UNCHANGED <<nextId, market, orders, faults, faulted, wasFlat>>
    BY DEF Mark
  <2>2. f \in Frames /\ f.cur \in Brackets
    BY <2>1 DEF Shapes, TypeOK, Busy
  <2> QED
    BY <2>1, <2>2 DEF Frames, Brackets, NoBracket, Busy
<1>2. r \in Frames /\ r.todo = f.todo
  BY <1>1, RestType
<1>3. /\ bracket' \in [Symbols -> Brackets \cup {NoBracket}]
      /\ \A x \in Symbols : bracket'[x] \in {bracket[x], NoBracket}
      /\ f.mark \in Fired => bracket'[s] = NoBracket
  BY <1>1 DEF Mark, AfterMark, IsActive, Shapes, TypeOK, Fired, Hits
<1>4. history' \in Seq(Rows) /\ Len(history') <= MaxHistory
  <2>1. CASE IsActive(s) /\ f.mark # "ACTIVE"
    <3>1. f.mark \in Statuses \ {"ACTIVE"} /\ f.order \in OrderIds \cup {0}
      BY <1>1, <2>1 DEF Frames
    <3>2. history' = Retired(s, f.mark, f.order)
      BY <2>1 DEF Mark
    <3> QED
      BY <1>1, <2>1, <3>1, <3>2, RetiredType DEF Shapes
  <2>2. CASE ~(IsActive(s) /\ f.mark # "ACTIVE")
    <3>1. history' = history
      BY <2>2 DEF Mark
    <3> QED
      BY <3>1 DEF Shapes, TypeOK
  <2> QED
    BY <2>1, <2>2
<1>5. Goto(t, "each", r)
  BY DEF Mark
<1> HIDE DEF r
<1>6. /\ pc'[t] = "each" /\ frame'[t].todo = f.todo
      /\ \A u \in Tickers \ {t} : pc'[u] = pc[u] /\ frame'[u] = frame[u]
      /\ pc' \in [Tickers -> Labels] /\ frame' \in [Tickers -> Frames]
  BY <1>2, <1>5 DEF Goto, Shapes, TypeOK, Labels
<1>7. TypeOK'
  BY <1>1, <1>3, <1>4, <1>6 DEF Shapes, TypeOK, market
<1>8. Shapes'
  BY <1>1, <1>6, <1>7 DEF Shapes
<1>9. ASSUME NEW b \in Brackets, Known(b)
      PROVE  Known(b)'
  <2>1. b.id # 0
    BY BracketFields
  <2> QED
    BY <1>1, <1>3, <1>9, <2>1 DEF Known
<1>10. Identities'
  <2>1. (\A x \in Symbols : IsActive(x) => Known(bracket[x]))'
    <3> SUFFICES ASSUME NEW x \in Symbols, bracket'[x] # NoBracket
                 PROVE  Known(bracket[x])'
      BY DEF IsActive
    <3>1. bracket'[x] = bracket[x] /\ bracket[x] \in Brackets
      BY <1>3
    <3>2. Known(bracket[x])
      BY <3>1 DEF Identities, IsActive
    <3> QED
      BY <1>9, <3>1, <3>2 DEF Known
  <2>2. ASSUME NEW u \in Tickers, NEW b \in frame'[u].todo
        PROVE  Known(b)' /\ \A c \in frame'[u].todo : b.id = c.id => b = c
    <3>1. frame'[u].todo = frame[u].todo /\ frame[u].todo \subseteq Brackets
      BY <1>1, <1>6 DEF Shapes, TypeOK, Frames
    <3> QED
      BY <1>9, <3>1 DEF Identities
  <2>3. ASSUME NEW u \in Tickers, pc'[u] \in Busy
        PROVE  Known(frame[u].cur)' /\ \A b \in frame'[u].todo : b.id # frame'[u].cur.id
    <3>1. u # t /\ pc'[u] = pc[u] /\ frame'[u] = frame[u]
      BY <1>1, <1>6, <2>3
    <3>2. Known(frame[u].cur) /\ frame[u].cur \in Brackets
      BY <2>3, <3>1 DEF Identities, Shapes
    <3> QED
      BY <1>9, <2>3, <3>1, <3>2 DEF Identities, Known
  <2>4. (\A o \in DOMAIN orders : orders[o].bracket < nextId)'
    BY <1>1 DEF Identities
  <2> QED
    BY <2>1, <2>2, <2>3, <2>4 DEF Identities
<1>11. SoldOnce'
  <2> SUFFICES ASSUME NEW o \in DOMAIN orders, orders[o].bracket \notin faulted
               PROVE  Done(orders[o].ticker, orders[o].bracket)'
    BY <1>1 DEF SoldOnce
  <2> DEFINE u == orders[o].ticker  id == orders[o].bracket
  <2>1. orders[o] \in Orders
    BY DEF Shapes, TypeOK
  <2>2. Done(u, id) /\ u \in Tickers /\ id # 0
    BY <2>1, BoundsAssumption DEF SoldOnce, Orders, BracketIds
  <2>3. \A x \in Symbols : bracket'[x].id = id => bracket[x].id = id /\ bracket'[x] # NoBracket
    BY <1>1, <1>3, <2>2
  <2>4. CASE u = t
    <3>1. ASSUME NEW x \in Symbols, bracket'[x].id = id
          PROVE  FALSE
      <4>1. f.cur.id = id /\ f.mark \in Fired /\ bracket[x].id = id
        BY <2>2, <2>3, <2>4, <3>1 DEF Done
      <4>2. Known(f.cur)
        BY <1>1 DEF Identities, Busy
      <4>3. s = x
        BY <4>1, <4>2 DEF Known
      <4> QED
        BY <1>3, <2>3, <3>1, <4>1, <4>3
    <3>2. \A b \in frame'[t].todo : b.id # id
      BY <1>6, <2>2, <2>4 DEF Done
    <3>3. \A x \in Symbols : bracket'[x].id # id
      BY <3>1
    <3>4. pc'[t] \notin {"preview", "place"}
      BY <1>6
    <3> QED
      BY <1>1, <2>4, <3>2, <3>3, <3>4 DEF Done
  <2>5. CASE u # t
    <3>1. pc'[u] = pc[u] /\ frame'[u] = frame[u]
      BY <1>6, <2>2, <2>5
    <3>2. \A x \in Symbols : bracket'[x].id = id => bracket[x].id = id
      BY <2>3
    <3> QED
      BY <1>1, <2>2, <3>1, <3>2 DEF Done
  <2> QED
    BY <2>4, <2>5
<1>12. RepeatOnlyAfterFault'
  BY <1>1 DEF RepeatOnlyAfterFault
<1> QED
  BY <1>8, <1>10, <1>11, <1>12

-----------------------------------------------------------------------------
(* The step that sells. *)

\* A sale either waits to be recorded or is in faulted.
LEMMA TickSells ==
    ASSUME IInv, NEW t \in Tickers,
           NEW status \in Statuses, NEW n \in OrderIds \cup {0},
           pc[t] = "place", Submit(t), GotoMark(t, frame[t], frame[t].cur, status, n),
           UNCHANGED <<store, wasFlat>>, faults' \in 0..MaxFaults,
           faulted \subseteq faulted', faulted' \subseteq BracketIds,
           status \in Fired \/ frame[t].cur.id \in faulted'
    PROVE  IInv'
<1> USE DEF IInv
<1> DEFINE f == frame[t]
           g == [Rest(f, f.todo) EXCEPT !.cur = f.cur, !.mark = status, !.order = n]
           sell == [symbol |-> f.cur.symbol, bracket |-> f.cur.id, ticker |-> t,
                    qty |-> f.qty, market |-> ~f.ext, working |-> TRUE]
           new == Len(orders) + 1
<1>1. /\ f \in Frames /\ f.cur \in Brackets /\ f.cur.symbol \in Symbols
      /\ f.cur.id \in BracketIds /\ f.qty \in Int
      /\ Known(f.cur) /\ \A b \in f.todo : b.id # f.cur.id
  <2>1. f \in Frames /\ f.cur \in Brackets
    BY DEF Shapes, TypeOK, Busy
  <2>2. Known(f.cur) /\ \A b \in f.todo : b.id # f.cur.id
    BY DEF Identities, Busy
  <2> QED
    BY <2>1, <2>2 DEF Frames, Brackets
<1>2. sell \in Orders
  BY <1>1 DEF Orders, Frames
<1>3. MarkedFrame(f, f.cur, status, n)
  BY <1>1, MarkFrame
<1>4. /\ g \in Frames /\ g.todo = f.todo /\ g.cur = f.cur /\ g.mark = status
  BY <1>3 DEF MarkedFrame
<1>5. Goto(t, "mark", g)
  BY DEF GotoMark
<1>6. orders' = Append(orders, sell)
  BY DEF Submit
<1> HIDE DEF g, sell
<1>7. /\ pc'[t] = "mark" /\ frame'[t] = g
      /\ \A u \in Tickers \ {t} : pc'[u] = pc[u] /\ frame'[u] = frame[u]
      /\ pc' \in [Tickers -> Labels] /\ frame' \in [Tickers -> Frames]
  BY <1>4, <1>5 DEF Goto, Shapes, TypeOK, Labels
<1>8. /\ orders' \in Seq(Orders) /\ DOMAIN orders' = DOMAIN orders \cup {new}
      /\ new \notin DOMAIN orders /\ orders'[new] = sell
      /\ \A o \in DOMAIN orders : orders'[o] = orders[o]
  BY <1>2, <1>6 DEF Shapes, TypeOK
<1> HIDE DEF new
<1>9. sell.bracket = f.cur.id /\ sell.ticker = t
  BY DEF sell
<1>10. TypeOK'
  <2>1. frozen' \in [Symbols -> Int] /\ UNCHANGED <<sessionOpen, held, price>>
    BY <1>1 DEF Submit, Shapes, TypeOK
  <2> QED
    BY <1>7, <1>8, <2>1 DEF Shapes, TypeOK, store
<1>11. Shapes'
  BY <1>1, <1>4, <1>7, <1>10 DEF Shapes
<1>12. \A b : Known(b) => Known(b)'
  BY DEF Known, store
<1>13. Identities'
  <2>1. (\A s \in Symbols : IsActive(s) => Known(bracket[s]))'
    BY <1>12 DEF Identities, IsActive, store
  <2>2. (\A u \in Tickers : \A b \in frame[u].todo :
            Known(b) /\ \A c \in frame[u].todo : b.id = c.id => b = c)'
    BY <1>4, <1>7, <1>12 DEF Identities
  <2>3. (\A u \in Tickers : pc[u] \in Busy =>
            Known(frame[u].cur) /\ \A b \in frame[u].todo : b.id # frame[u].cur.id)'
    BY <1>1, <1>4, <1>7, <1>12 DEF Identities
  <2>4. (\A o \in DOMAIN orders : orders[o].bracket < nextId)'
    <3>1. f.cur.id < nextId
      BY <1>1 DEF Known
    <3> QED
      BY <1>8, <1>9, <3>1 DEF Identities, store
  <2> QED
    BY <2>1, <2>2, <2>3, <2>4 DEF Identities
<1>14. ASSUME NEW o \in DOMAIN orders, orders[o].bracket \notin faulted
       PROVE  /\ Done(orders[o].ticker, orders[o].bracket)
              /\ orders[o].ticker \in Tickers
  <2>1. orders[o] \in Orders
    BY DEF Shapes, TypeOK
  <2> QED
    BY <1>14, <2>1 DEF SoldOnce, Orders
\* This ticker had not sold for this bracket before.
<1>15. \A o \in DOMAIN orders :
           orders[o].ticker = t /\ orders[o].bracket = f.cur.id => f.cur.id \in faulted
  BY <1>14 DEF Done
<1>16. SoldOnce'
  <2> SUFFICES ASSUME NEW o \in DOMAIN orders', orders'[o].bracket \notin faulted'
               PROVE  Done(orders[o].ticker, orders[o].bracket)'
    BY DEF SoldOnce
  <2> PICK u, id : u = orders'[o].ticker /\ id = orders'[o].bracket
    OBVIOUS
  <2> SUFFICES Done(u, id)'
    OBVIOUS
  <2>1. CASE o = new
    <3>1. status \in Fired
      BY <1>8, <1>9, <2>1
    <3>2. \A b \in frame'[t].todo : b.id # f.cur.id
      BY <1>1, <1>4, <1>7
    <3>3. pc'[t] = "mark" /\ frame'[t].cur.id = f.cur.id /\ frame'[t].mark \in Fired
      BY <1>4, <1>7, <3>1
    <3>4. u = t /\ id = f.cur.id
      BY <1>8, <1>9, <2>1
    <3> QED
      BY <3>2, <3>3, <3>4 DEF Done
  <2>2. CASE o # new
    <3>1. o \in DOMAIN orders /\ orders'[o] = orders[o]
      BY <1>8, <2>2
    <3>2. id \notin faulted /\ u = orders[o].ticker /\ id = orders[o].bracket
      BY <3>1
    <3>3. Done(u, id) /\ u \in Tickers /\ ~(u = t /\ id = f.cur.id)
      BY <1>14, <1>15, <3>1, <3>2
    <3>4. CASE u = t
      <4>1. \A s \in Symbols : bracket[s].id # id
        BY <3>3, <3>4 DEF Done
      <4>2. \A b \in frame'[t].todo : b.id # id
        BY <1>4, <1>7, <3>3, <3>4 DEF Done
      <4> QED
        BY <1>7, <3>4, <4>1, <4>2 DEF Done, store
    <3>5. CASE u # t
      <4>1. pc'[u] = pc[u] /\ frame'[u] = frame[u]
        BY <1>7, <3>3, <3>5
      <4> QED
        BY <3>3, <4>1 DEF Done, store
    <3> QED
      BY <3>4, <3>5
  <2> QED
    BY <2>1, <2>2
<1>17. RepeatOnlyAfterFault'
  <2> SUFFICES ASSUME NEW o1 \in DOMAIN orders', NEW o2 \in DOMAIN orders', o1 # o2,
                      orders'[o1].bracket = orders'[o2].bracket,
                      orders'[o1].ticker = orders'[o2].ticker
               PROVE  orders'[o1].bracket \in faulted'
    BY DEF RepeatOnlyAfterFault
  <2>1. CASE o1 = new
    <3>1. o2 \in DOMAIN orders /\ orders'[o2] = orders[o2]
      BY <1>8, <2>1
    <3>2. orders[o2].ticker = t /\ orders[o2].bracket = f.cur.id
      BY <1>8, <1>9, <2>1, <3>1
    <3> QED
      BY <1>15, <3>1, <3>2
  <2>2. CASE o2 = new
    <3>1. o1 \in DOMAIN orders /\ orders'[o1] = orders[o1]
      BY <1>8, <2>2
    <3>2. orders[o1].ticker = t /\ orders[o1].bracket = f.cur.id
      BY <1>8, <1>9, <2>2, <3>1
    <3> QED
      BY <1>15, <3>1, <3>2
  <2>3. CASE o1 # new /\ o2 # new
    BY <1>8, <2>3 DEF RepeatOnlyAfterFault
  <2> QED
    BY <2>1, <2>2, <2>3
<1> QED
  BY <1>11, <1>13, <1>16, <1>17

LEMMA TickPlaces ==
    ASSUME IInv, NEW t \in Tickers, Place(t) \/ PlaceLost(t)
    PROVE  IInv'
<1>1. /\ pc[t] = "place" /\ Submit(t) /\ UNCHANGED <<store, wasFlat>>
      /\ faults \in 0..MaxFaults /\ faulted \subseteq BracketIds
      /\ frame[t] \in Frames /\ frame[t].cur \in Brackets /\ orders \in Seq(Orders)
  BY DEF Place, PlaceLost, IInv, Shapes, TypeOK, Busy
<1>2. CASE Place(t)
  <2>1. AfterSell(frame[t]) \in Fired /\ Fired \subseteq Statuses
    BY <1>1 DEF AfterSell, Fired, Statuses, Frames
  <2>2. Len(orders) + 1 \in OrderIds \cup {0}
    BY <1>1, BoundsAssumption DEF Submit, BrokerAccepts, OrderIds
  <2>3. /\ GotoMark(t, frame[t], frame[t].cur, AfterSell(frame[t]), Len(orders) + 1)
        /\ UNCHANGED <<faults, faulted>>
    BY <1>2 DEF Place
  <2>4. faults' \in 0..MaxFaults /\ faulted \subseteq faulted' /\ faulted' \subseteq BracketIds
    BY <1>1, <2>3
  <2> QED
    BY <1>1, <2>1, <2>2, <2>3, <2>4, TickSells
<1>3. CASE PlaceLost(t)
  <2>1. faults' \in 0..MaxFaults
    BY <1>1, <1>3, FaultsAssumption DEF PlaceLost
  <2>2. faulted' = faulted \cup {frame[t].cur.id} /\ frame[t].cur.id \in BracketIds
    BY <1>1, <1>3 DEF PlaceLost, Brackets
  <2>3. GotoMark(t, frame[t], frame[t].cur, "ACTIVE", 0)
    BY <1>3 DEF PlaceLost, AfterFailure
  <2>4. "ACTIVE" \in Statuses /\ 0 \in OrderIds \cup {0}
    BY DEF Statuses
  <2>5. faulted \subseteq faulted' /\ faulted' \subseteq BracketIds /\ frame[t].cur.id \in faulted'
    BY <1>1, <2>2
  <2> QED
    BY <1>1, <2>1, <2>3, <2>4, <2>5, TickSells
<1> QED
  BY <1>2, <1>3

-----------------------------------------------------------------------------
(* The process and the world. *)

LEMMA ProcessCrashes ==
    ASSUME IInv, Crash
    PROVE  IInv'
<1> USE DEF IInv
<1>1. /\ UNCHANGED <<store, market, orders, wasFlat>> /\ faults' = faults + 1 /\ faults < MaxFaults
      /\ pc' = [t \in Tickers |-> "idle"] /\ frame' = [t \in Tickers |-> IdleFrame]
      /\ faulted' = faulted \cup
             {frame[t].cur.id : t \in {x \in Tickers : pc[x] = "mark" /\ frame[x].mark \in Fired}}
  BY DEF Crash
<1>2. \A t \in Tickers : pc'[t] = "idle" /\ frame'[t].todo = {}
  BY <1>1, QuoteTypes
<1>3. faulted' \subseteq BracketIds
  <2>1. \A t \in Tickers : pc[t] = "mark" => frame[t].cur.id \in BracketIds
    BY DEF Shapes, Busy, Brackets
  <2> QED
    BY <1>1, <2>1 DEF Shapes, TypeOK
<1>4. Shapes'
  <2>1. faults' \in 0..MaxFaults
    BY <1>1, FaultsAssumption DEF Shapes, TypeOK
  <2>2. pc' \in [Tickers -> Labels] /\ frame' \in [Tickers -> Frames]
    BY <1>1, QuoteTypes DEF Labels
  <2>3. TypeOK'
    BY <1>1, <1>3, <2>1, <2>2 DEF Shapes, TypeOK, store, market
  <2> QED
    BY <1>2, <2>3 DEF Shapes, Busy
<1>5. Identities'
  BY <1>1, <1>2 DEF Identities, Known, IsActive, store, Busy
<1>6. SoldOnce'
  <2> SUFFICES ASSUME NEW o \in DOMAIN orders, orders[o].bracket \notin faulted'
               PROVE  Done(orders[o].ticker, orders[o].bracket)'
    BY <1>1 DEF SoldOnce
  <2> PICK u, id : u = orders[o].ticker /\ id = orders[o].bracket
    OBVIOUS
  <2>1. orders[o] \in Orders /\ id \notin faulted
    BY <1>1 DEF Shapes, TypeOK
  <2>2. Done(u, id) /\ u \in Tickers
    BY <2>1 DEF SoldOnce, Orders
  <2>3. ~(pc[u] = "mark" /\ frame[u].cur.id = id /\ frame[u].mark \in Fired)
    BY <1>1, <2>2
  <2>4. \A s \in Symbols : bracket[s].id # id
    BY <2>2, <2>3 DEF Done
  <2>5. Done(u, id)'
    BY <1>1, <1>2, <2>2, <2>4 DEF Done, store
  <2> QED
    BY <1>1, <2>5
<1>7. RepeatOnlyAfterFault'
  BY <1>1 DEF RepeatOnlyAfterFault
<1> QED
  BY <1>4, <1>5, <1>6, <1>7

\* What the rest of the world does leaves the brackets and the tickers alone.
LEMMA WorldSpares ==
    ASSUME IInv, TypeOK', UNCHANGED <<store, pc, frame, faulted>>,
           DOMAIN orders' = DOMAIN orders,
           \A o \in DOMAIN orders : /\ orders'[o].bracket = orders[o].bracket
                                   /\ orders'[o].ticker = orders[o].ticker
    PROVE  IInv'
<1> USE DEF IInv
<1>1. Shapes'
  BY DEF Shapes
<1>2. Identities'
  BY DEF Identities, Known, IsActive, store
<1>3. SoldOnce'
  <2> SUFFICES ASSUME NEW o \in DOMAIN orders, orders[o].bracket \notin faulted
               PROVE  Done(orders[o].ticker, orders[o].bracket)'
    BY DEF SoldOnce
  <2> PICK u, id : u = orders[o].ticker /\ id = orders[o].bracket
    OBVIOUS
  <2>1. Done(u, id)
    BY DEF SoldOnce
  <2>2. Done(u, id)'
    BY <2>1 DEF Done, store
  <2> QED
    BY <2>2
<1>4. RepeatOnlyAfterFault'
  BY DEF RepeatOnlyAfterFault
<1> QED
  BY <1>1, <1>2, <1>3, <1>4

\* A change of the position, by a fill or by the owner.
LEMMA HoldingType ==
    ASSUME TypeOK, NEW s \in Symbols, NEW n \in Int, Holding(s, n)
    PROVE  held' \in [Symbols -> Int] /\ wasFlat' \subseteq BracketIds
BY DEF Holding, TypeOK, IsActive, Brackets

\* An order that ends is still of its bracket and its ticker.
LEMMA OrderEndsType ==
    ASSUME TypeOK, NEW o, OrderEnds(o)
    PROVE  /\ orders' \in Seq(Orders) /\ DOMAIN orders' = DOMAIN orders
           /\ orders[o] \in Orders /\ frozen' \in [Symbols -> Int]
           /\ \A i \in DOMAIN orders : /\ orders'[i].bracket = orders[i].bracket
                                       /\ orders'[i].ticker = orders[i].ticker
<1>1. /\ o \in DOMAIN orders /\ orders \in Seq(Orders)
      /\ orders' = [orders EXCEPT ![o].working = FALSE]
      /\ frozen' = [frozen EXCEPT ![orders[o].symbol] = @ - orders[o].qty]
  BY DEF OrderEnds, TypeOK
<1>2. orders[o] \in Orders /\ [orders[o] EXCEPT !.working = FALSE] \in Orders
  <2>1. orders[o] \in Orders
    BY <1>1
  <2> QED
    BY <2>1 DEF Orders
<1>3. orders' \in Seq(Orders) /\ DOMAIN orders' = DOMAIN orders
  BY <1>1, <1>2
<1>4. \A i \in DOMAIN orders : orders'[i] =
          IF i = o THEN [orders[o] EXCEPT !.working = FALSE] ELSE orders[i]
  BY <1>1
<1>5. /\ [orders[o] EXCEPT !.working = FALSE].bracket = orders[o].bracket
      /\ [orders[o] EXCEPT !.working = FALSE].ticker = orders[o].ticker
  BY <1>2 DEF Orders
<1>6. frozen' \in [Symbols -> Int]
  <2>1. PICK s \in Symbols, n \in Int : s = orders[o].symbol /\ n = orders[o].qty
    BY <1>2 DEF Orders
  <2>2. frozen' = [frozen EXCEPT ![s] = frozen[s] - n] /\ frozen \in [Symbols -> Int]
    BY <1>1, <2>1 DEF TypeOK
  <2>3. frozen[s] - n \in Int
    BY <2>2
  <2> QED
    BY <2>2, <2>3
<1> QED
  BY <1>2, <1>3, <1>4, <1>5, <1>6

LEMMA WorldMoves ==
    ASSUME IInv, World
    PROVE  IInv'
<1>1. TypeOK
  BY DEF IInv, Shapes
<1>2. CASE SessionTurns
  <2>1. TypeOK'
    BY <1>1, <1>2 DEF SessionTurns, TypeOK, store
  <2> QED
    BY <1>2, <2>1, WorldSpares DEF SessionTurns
<1>3. ASSUME NEW s \in Symbols, NEW p \in Prices, PriceMoves(s, p)
      PROVE  IInv'
  <2>1. TypeOK'
    BY <1>1, <1>3, InputsAssumption DEF PriceMoves, TypeOK, store
  <2> QED
    BY <1>3, <2>1, WorldSpares DEF PriceMoves
<1>4. ASSUME NEW s \in Symbols, OwnerBuys(s) \/ OwnerSells(s)
      PROVE  IInv'
  <2>1. PICK n \in Int : Holding(s, n)
    <3>1. held[s] + 1 \in Int /\ held[s] - 1 \in Int
      BY <1>1 DEF TypeOK
    <3> QED
      BY <1>4, <3>1 DEF OwnerBuys, OwnerSells
  <2>2. UNCHANGED <<store, sessionOpen, frozen, price, orders, pc, frame, faults, faulted>>
    BY <1>4 DEF OwnerBuys, OwnerSells
  <2>3. held' \in [Symbols -> Int] /\ wasFlat' \subseteq BracketIds
    BY <1>1, <2>1, HoldingType
  <2>4. TypeOK'
    BY <1>1, <2>2, <2>3 DEF TypeOK, store
  <2> QED
    BY <2>2, <2>4, WorldSpares
<1>5. ASSUME NEW o \in OrderIds, OrderCancelled(o) \/ OrderFills(o)
      PROVE  IInv'
  <2>1. OrderEnds(o) /\ UNCHANGED <<store, sessionOpen, price, pc, frame, faults, faulted>>
    BY <1>5 DEF OrderCancelled, OrderFills, OrderEnds
  <2>2. /\ orders' \in Seq(Orders) /\ DOMAIN orders' = DOMAIN orders
        /\ orders[o] \in Orders /\ frozen' \in [Symbols -> Int]
        /\ \A i \in DOMAIN orders : /\ orders'[i].bracket = orders[i].bracket
                                    /\ orders'[i].ticker = orders[i].ticker
    BY <1>1, <2>1, OrderEndsType
  <2>3. held' \in [Symbols -> Int] /\ wasFlat' \subseteq BracketIds
    <3>1. CASE OrderCancelled(o)
      BY <1>1, <3>1 DEF OrderCancelled, TypeOK
    <3>2. CASE OrderFills(o)
      <4>1. PICK s \in Symbols, q \in Int : s = orders[o].symbol /\ q = orders[o].qty
        BY <2>2 DEF Orders
      <4> DEFINE n == held[s] - q
      <4>3. n \in Int
        BY <1>1 DEF TypeOK
      <4>2. Holding(s, n)
        BY <3>2, <4>1 DEF OrderFills
      <4> QED
        BY <1>1, <4>2, <4>3, HoldingType
    <3> QED
      BY <1>5, <3>1, <3>2
  <2>4. TypeOK'
    BY <1>1, <2>1, <2>2, <2>3 DEF TypeOK, store
  <2> QED
    BY <2>1, <2>2, <2>4, WorldSpares
<1> QED
  <2>1. CASE SessionTurns
    BY <1>2, <2>1
  <2>2. CASE \E s \in Symbols : OwnerBuys(s) \/ OwnerSells(s) \/ \E p \in Prices : PriceMoves(s, p)
    BY <1>3, <1>4, <2>2
  <2>3. CASE \E o \in OrderIds : OrderCancelled(o) \/ OrderFills(o)
    BY <1>5, <2>3
  <2> QED
    BY <2>1, <2>2, <2>3 DEF World

-----------------------------------------------------------------------------
(* The theorems. *)

LEMMA Initially == Init => IInv
<1> SUFFICES ASSUME Init PROVE IInv
  OBVIOUS
<1>1. TypeOK
  <2>1. 1 \in 1..(MaxAttach + 1) /\ 0 \in 0..MaxFaults /\ 0 <= MaxHistory
    BY BoundsAssumption, FaultsAssumption
  <2>2. history \in Seq(Rows) /\ Len(history) = 0 /\ orders \in Seq(Orders)
    BY DEF Init
  <2>3. pc \in [Tickers -> Labels] /\ frame \in [Tickers -> Frames]
    BY QuoteTypes DEF Init, Labels
  <2> QED
    BY <2>1, <2>2, <2>3 DEF Init, TypeOK
<1>2. \A t \in Tickers : pc[t] \notin Busy /\ frame[t].todo = {}
  BY QuoteTypes DEF Init, Busy
<1>3. DOMAIN orders = {} /\ \A s \in Symbols : ~IsActive(s)
  BY DEF Init, IsActive
<1> QED
  BY <1>1, <1>2, <1>3 DEF IInv, Shapes, Identities, SoldOnce, RepeatOnlyAfterFault

LEMMA Inductive == IInv /\ [Next]_vars => IInv'
<1> SUFFICES ASSUME IInv, [Next]_vars PROVE IInv'
  OBVIOUS
<1>1. CASE Request
  BY <1>1, OwnerAttaches, OwnerCancels DEF Request
<1>2. ASSUME NEW t \in Tickers, Step(t)
      PROVE  IInv'
  BY <1>2, TickStarts, TickReads, TickEvaluates, TickDoesNotSell, TickPlaces, TickMarks DEF Step
<1>3. CASE Fault
  BY <1>3, TickReads, TickDoesNotSell, TickPlaces, MarkNotWritten, ProcessCrashes DEF Fault
<1>4. CASE World
  BY <1>4, WorldMoves
<1>5. CASE UNCHANGED vars
  <2>1. UNCHANGED <<store, pc, frame, faulted>> /\ orders' = orders
    BY <1>5 DEF vars
  <2>2. TypeOK'
    BY <1>5 DEF vars, store, market, TypeOK, IInv, Shapes
  <2> QED
    BY <2>1, <2>2, WorldSpares
<1> QED
  BY <1>1, <1>2, <1>3, <1>4, <1>5 DEF Next

\* Rows, broker state and the locals of every tick keep their types, and the
\* file never holds more than _MAX_HISTORY terminal brackets.
THEOREM TypeCorrect == Spec => []TypeOK
<1>1. IInv => TypeOK
  BY DEF IInv, Shapes
<1> QED
  BY <1>1, Initially, Inductive, PTL DEF Spec

\* However many threads tick at once, and whatever the owner replaces or cancels
\* meanwhile, a thread sells again for a bracket only when a lost answer, a
\* failed write or a crash kept it from recording the first sell.
THEOREM NoRepeatedSell == Spec => []RepeatOnlyAfterFault
<1>1. IInv => RepeatOnlyAfterFault
  BY DEF IInv
<1> QED
  BY <1>1, Initially, Inductive, PTL DEF Spec

-----------------------------------------------------------------------------
(* The rows of the file name their sells.  A row gets the sell that its     *)
(* ticker holds at "mark", and the id of whatever the symbol has ACTIVE by  *)
(* then, which is never an older bracket than the one that was sold for.    *)

\* b is not newer than what its symbol has ACTIVE.
Behind(b) == IsActive(b.symbol) => b.id <= bracket[b.symbol].id

CopiesBehind ==
    \A t \in Tickers :
        /\ \A b \in frame[t].todo : Behind(b)
        /\ pc[t] \in Busy => Behind(frame[t].cur)

\* Order o is a sell of symbol s, for bracket id or an older one.
Names(o, s, id) == o \in DOMAIN orders /\ orders[o].symbol = s /\ orders[o].bracket <= id

RowsName ==
    \A i \in DOMAIN history :
        LET row == history[i] IN
        /\ row.status \notin Fired => row.order = 0
        /\ row.status \in Fired =>
               /\ Names(row.order, row.symbol, row.id)
               /\ \A j \in DOMAIN history \ {i} : history[j].order # row.order

\* What ticker t is about to record, no row and no other ticker has.
MarkNames(t) ==
    LET f == frame[t] IN
    pc[t] = "mark" =>
        /\ f.mark \notin Fired => f.order = 0
        /\ f.mark \in Fired =>
               /\ Names(f.order, f.cur.symbol, f.cur.id)
               /\ \A i \in DOMAIN history : history[i].order # f.order
               /\ \A u \in Tickers \ {t} : pc[u] = "mark" => frame[u].order # f.order

MarksName == \A t \in Tickers : MarkNames(t)

NInv == CopiesBehind /\ RowsName /\ MarksName

\* Zero stands for no order, and is the id of none.
LEMMA OrdersAreNotZero ==
    ASSUME IInv
    PROVE  /\ 0 \notin DOMAIN orders
           /\ \A o \in DOMAIN orders : orders[o].bracket \in Int
<1>1. orders \in Seq(Orders)
  BY DEF IInv, Shapes, TypeOK
<1>2. \A o \in DOMAIN orders : orders[o] \in Orders
  BY <1>1
<1>3. BracketIds \subseteq Int
  BY BoundsAssumption DEF BracketIds
<1>4. DOMAIN orders = 1..Len(orders) /\ Len(orders) \in Nat
  BY <1>1
<1>5. \A o \in DOMAIN orders : orders[o].bracket \in BracketIds
  BY <1>2 DEF Orders
<1>6. 0 \notin DOMAIN orders
  BY <1>4
<1> QED
  BY <1>3, <1>5, <1>6

\* Neither the file nor the book changes, and no sell waits to be recorded that
\* did not before.
LEMMA NamesKept ==
    ASSUME IInv, NInv, NEW t \in Tickers, NEW l, NEW f,
           Goto(t, l, f), UNCHANGED <<store, orders>>,
           f.todo \subseteq frame[t].todo,
           l \in Busy => \/ f.cur \in frame[t].todo
                         \/ pc[t] \in Busy /\ f.cur = frame[t].cur,
           l = "mark" => f.mark \notin Fired /\ f.order = 0
    PROVE  NInv'
<1>1. /\ pc'[t] = l /\ frame'[t] = f
      /\ \A u \in Tickers \ {t} : pc'[u] = pc[u] /\ frame'[u] = frame[u]
  BY DEF Goto, IInv, Shapes, TypeOK
<1>2. \A b : Behind(b)' = Behind(b)
  BY DEF Behind, IsActive, store
<1>3. CopiesBehind'
  BY <1>1, <1>2 DEF CopiesBehind, NInv
<1>4. RowsName'
  BY DEF RowsName, NInv, Names, store
<1>5. MarksName'
  <2> SUFFICES ASSUME NEW u \in Tickers PROVE MarkNames(u)'
    BY DEF MarksName
  <2>1. CASE u = t
    BY <1>1, <2>1 DEF MarkNames
  <2>2. CASE u # t
    <3>1. pc'[u] = pc[u] /\ frame'[u] = frame[u] /\ MarkNames(u) /\ history' = history
      BY <1>1, <2>2 DEF MarksName, NInv, store
    <3>2. ASSUME pc[u] = "mark", frame[u].mark \in Fired,
                 NEW v \in Tickers \ {u}, pc'[v] = "mark"
          PROVE  frame'[v].order # frame[u].order
      <4>1. frame[u].order \in DOMAIN orders
        BY <3>1, <3>2 DEF MarkNames, Names
      <4>2. CASE v = t
        BY <1>1, <3>2, <4>1, <4>2, OrdersAreNotZero
      <4>3. CASE v # t
        BY <1>1, <3>1, <3>2, <4>3 DEF MarkNames
      <4> QED
        BY <4>2, <4>3
    <3> QED
      BY <3>1, <3>2 DEF MarkNames, Names
  <2> QED
    BY <2>1, <2>2
<1> QED
  BY <1>3, <1>4, <1>5 DEF NInv

\* GotoMark without a sell to record.
LEMMA MarksNothing ==
    ASSUME IInv, NInv, NEW t \in Tickers, NEW f \in Frames, NEW b \in Brackets,
           NEW status \in Statuses \ Fired,
           GotoMark(t, f, b, status, 0), UNCHANGED <<store, orders>>,
           f.todo \subseteq frame[t].todo,
           b \in frame[t].todo \/ (pc[t] \in Busy /\ b = frame[t].cur)
    PROVE  NInv'
<1> DEFINE g == [Rest(f, f.todo) EXCEPT !.cur = b, !.mark = status, !.order = 0]
<1>1. g.todo = f.todo /\ g.cur = b /\ g.mark = status /\ g.order = 0
  <2>1. MarkedFrame(f, b, status, 0)
    BY MarkFrame
  <2> QED
    BY <2>1 DEF MarkedFrame
<1>2. Goto(t, "mark", g)
  BY DEF GotoMark
<1> HIDE DEF g
<1> QED
  BY <1>1, <1>2, NamesKept

\* The steps of a ticker that neither sell nor write.
LEMMA TickKeepsNames ==
    ASSUME IInv, NInv, NEW t \in Tickers,
           \/ ReadPositions(t) \/ ReadNoPositions(t) \/ EndTick(t)
           \/ Preview(t) \/ PreviewOutage(t) \/ PlaceRefused(t) \/ PlaceOutage(t)
           \/ MarkFails(t)
           \/ \E b \in frame[t].todo : FindGone(t, b) \/ FindQuiet(t, b) \/ FindHit(t, b)
    PROVE  NInv'
<1>1. /\ frame[t] \in Frames /\ frame[t].todo \subseteq Brackets
      /\ pc[t] \in Busy => frame[t].cur \in Brackets
      /\ {"positions", "each", "idle"} \cap Busy = {} /\ {"preview", "place", "mark"} \subseteq Busy
      /\ {"ACTIVE", "CLOSED_NO_POSITION"} \subseteq Statuses \ Fired
  BY DEF IInv, Shapes, TypeOK, Frames, Busy, Statuses, Fired, Hits
<1>2. CASE ReadPositions(t) \/ ReadNoPositions(t)
  <2>1. PICK f \in {frame[t], [frame[t] EXCEPT !.pos = Positions]} : Goto(t, "each", f)
    BY <1>2 DEF ReadPositions, ReadNoPositions
  <2>2. f.todo = frame[t].todo
    BY <1>1 DEF Frames
  <2>3. UNCHANGED <<store, orders>>
    BY <1>2 DEF ReadPositions, ReadNoPositions
  <2> QED
    BY <1>1, <2>1, <2>2, <2>3, NamesKept
<1>3. CASE EndTick(t)
  BY <1>1, <1>3, QuoteTypes, NamesKept DEF EndTick
<1>4. CASE Preview(t) \/ PreviewOutage(t) \/ PlaceRefused(t) \/ PlaceOutage(t)
  <2>1. /\ UNCHANGED <<store, orders>> /\ pc[t] \in Busy
        /\ \/ Goto(t, "place", frame[t])
           \/ GotoMark(t, frame[t], frame[t].cur, "ACTIVE", 0)
    BY <1>4 DEF Preview, PreviewOutage, PlaceRefused, PlaceOutage, AfterFailure, Busy
  <2>2. CASE Goto(t, "place", frame[t])
    BY <2>1, <2>2, NamesKept
  <2>3. CASE GotoMark(t, frame[t], frame[t].cur, "ACTIVE", 0)
    BY <1>1, <2>1, <2>3, MarksNothing
  <2> QED
    BY <2>1, <2>2, <2>3
<1>5. CASE MarkFails(t)
  <2>1. Rest(frame[t], frame[t].todo).todo = frame[t].todo
    BY <1>1, RestType
  <2>2. UNCHANGED <<store, orders>>
    BY <1>5 DEF MarkFails
  <2>3. CASE Goto(t, "each", Rest(frame[t], frame[t].todo))
    BY <1>1, <2>1, <2>2, <2>3, NamesKept
  <2>4. CASE Goto(t, "idle", IdleFrame)
    BY <1>1, <2>2, <2>4, QuoteTypes, NamesKept
  <2> QED
    BY <1>5, <2>3, <2>4 DEF MarkFails
<1>6. ASSUME NEW b \in frame[t].todo, FindGone(t, b) \/ FindQuiet(t, b) \/ FindHit(t, b)
      PROVE  NInv'
  <2> DEFINE w == Without(t, b)
             q == frame[t].pos[b.symbol]
             g == [w EXCEPT !.cur = b, !.seen = q, !.qty = SellQty(b, q),
                            !.hit = HitOf(b, q.last), !.ext = ~sessionOpen]
  <2>1. w \in Frames /\ w.todo = frame[t].todo \ {b}
    BY <1>1, RestType DEF Without
  <2>2. g.todo = w.todo /\ g.cur = b
    BY <2>1 DEF Frames
  <2>3. /\ UNCHANGED <<store, orders>>
        /\ \/ \E status \in {"ACTIVE", "CLOSED_NO_POSITION"} : GotoMark(t, w, b, status, 0)
           \/ Goto(t, "each", w)
           \/ Goto(t, "preview", g)
    BY <1>6 DEF FindGone, FindQuiet, FindHit
  <2> HIDE DEF w, g
  <2>4. CASE \E status \in {"ACTIVE", "CLOSED_NO_POSITION"} : GotoMark(t, w, b, status, 0)
    BY <1>1, <2>1, <2>3, <2>4, MarksNothing
  <2>5. CASE Goto(t, "each", w)
    BY <1>1, <2>1, <2>3, <2>5, NamesKept
  <2>6. CASE Goto(t, "preview", g)
    BY <1>1, <2>1, <2>2, <2>3, <2>6, NamesKept
  <2> QED
    BY <2>3, <2>4, <2>5, <2>6
<1> QED
  BY <1>2, <1>3, <1>4, <1>5, <1>6

-----------------------------------------------------------------------------
(* The steps that sell, and those that write rows. *)

\* The ticker that has sold holds an order that nobody else names.
LEMMA NamesTheNewSell ==
    ASSUME IInv, NInv, NEW t \in Tickers, Place(t) \/ PlaceLost(t)
    PROVE  NInv'
<1> DEFINE f == frame[t]
           new == Len(orders) + 1
           sell == [symbol |-> f.cur.symbol, bracket |-> f.cur.id, ticker |-> t,
                    qty |-> f.qty, market |-> ~f.ext, working |-> TRUE]
<1>1. /\ pc[t] = "place" /\ f \in Frames /\ f.cur \in Brackets /\ UNCHANGED store
      /\ orders \in Seq(Orders) /\ orders' = Append(orders, sell)
  BY DEF Place, PlaceLost, Submit, IInv, Shapes, TypeOK, Busy
<1>2. PICK status \in Statuses, n \in {0, new} :
          /\ GotoMark(t, f, f.cur, status, n) /\ n \in OrderIds \cup {0}
          /\ IF n = 0 THEN status \notin Fired ELSE status \in Fired
  <2>1. CASE Place(t)
    <3>1. AfterSell(f) \in Statuses \cap Fired
      BY <1>1 DEF AfterSell, Statuses, Fired, Frames
    <3>2. new \in OrderIds /\ new # 0
      BY <1>1, <2>1, BoundsAssumption DEF Place, Submit, BrokerAccepts, OrderIds
    <3> QED
      BY <2>1, <3>1, <3>2 DEF Place
  <2>2. CASE PlaceLost(t)
    BY <2>2 DEF PlaceLost, AfterFailure, Statuses, Fired, Hits
  <2> QED
    BY <2>1, <2>2
<1> DEFINE g == [Rest(f, f.todo) EXCEPT !.cur = f.cur, !.mark = status, !.order = n]
<1>3. g.todo = f.todo /\ g.cur = f.cur /\ g.mark = status /\ g.order = n
  <2>1. MarkedFrame(f, f.cur, status, n)
    BY <1>1, <1>2, MarkFrame
  <2> QED
    BY <2>1 DEF MarkedFrame
<1>4. Goto(t, "mark", g)
  BY <1>2 DEF GotoMark
<1>5. sell.symbol = f.cur.symbol /\ sell.bracket = f.cur.id
  OBVIOUS
<1> HIDE DEF g, sell
<1>6. /\ pc'[t] = "mark" /\ frame'[t] = g
      /\ \A u \in Tickers \ {t} : pc'[u] = pc[u] /\ frame'[u] = frame[u]
  BY <1>4 DEF Goto, IInv, Shapes, TypeOK
<1>7. /\ DOMAIN orders' = DOMAIN orders \cup {new} /\ new \notin DOMAIN orders
      /\ orders'[new] = sell /\ new # 0
      /\ \A o \in DOMAIN orders : orders'[o] = orders[o]
  BY <1>1
<1> HIDE DEF new
<1>8. \A o, s, id : Names(o, s, id) => Names(o, s, id)'
  BY <1>7 DEF Names
<1>9. CopiesBehind'
  <2>1. \A b : Behind(b)' = Behind(b)
    BY <1>1 DEF Behind, IsActive, store
  <2> QED
    BY <1>1, <1>3, <1>6, <2>1 DEF CopiesBehind, NInv, Busy
<1>10. RowsName'
  BY <1>1, <1>8 DEF RowsName, NInv, store
<1>11. \A i \in DOMAIN history : history[i].order # new
  BY <1>7 DEF RowsName, NInv, Names
<1>12. \A u \in Tickers : pc[u] = "mark" => frame[u].order # new
  BY <1>7 DEF MarksName, MarkNames, NInv, Names
<1>13. /\ new \in DOMAIN orders'
       /\ orders'[new].symbol = f.cur.symbol /\ orders'[new].bracket <= f.cur.id
  <2>1. f.cur.id \in Int
    BY <1>1, BoundsAssumption DEF Brackets, BracketIds
  <2> QED
    BY <1>5, <1>7, <2>1
<1>14. MarksName'
  <2> SUFFICES ASSUME NEW u \in Tickers PROVE MarkNames(u)'
    BY DEF MarksName
  <2>1. CASE u = t
    <3>1. CASE n = 0
      BY <1>2, <1>3, <1>6, <2>1, <3>1 DEF MarkNames
    <3>2. CASE n = new
      <4>1. /\ frame'[t].order \in DOMAIN orders'
            /\ orders'[frame'[t].order].symbol = frame'[t].cur.symbol
            /\ orders'[frame'[t].order].bracket <= frame'[t].cur.id
        BY <1>3, <1>6, <1>13, <3>2
      <4>2. frame'[t].mark \in Fired
        BY <1>2, <1>3, <1>6, <1>7, <3>2
      <4>3. \A i \in DOMAIN history' : history'[i].order # frame'[t].order
        BY <1>1, <1>3, <1>6, <1>11, <3>2 DEF store
      <4>4. \A v \in Tickers \ {t} : pc'[v] = "mark" => frame'[v].order # frame'[t].order
        BY <1>3, <1>6, <1>12, <3>2
      <4> QED
        BY <2>1, <4>1, <4>2, <4>3, <4>4 DEF MarkNames, Names
    <3> QED
      BY <1>2, <3>1, <3>2
  <2>2. CASE u # t
    <3>1. pc'[u] = pc[u] /\ frame'[u] = frame[u] /\ MarkNames(u) /\ history' = history
      BY <1>1, <1>6, <2>2 DEF MarksName, NInv, store
    <3>2. ASSUME pc[u] = "mark", frame[u].mark \in Fired,
                 NEW v \in Tickers \ {u}, pc'[v] = "mark"
          PROVE  frame'[v].order # frame[u].order
      <4>1. frame[u].order \in DOMAIN orders
        BY <3>1, <3>2 DEF MarkNames, Names
      <4>2. CASE v = t
        BY <1>2, <1>3, <1>6, <1>7, <4>1, <4>2, OrdersAreNotZero
      <4>3. CASE v # t
        BY <1>6, <3>1, <3>2, <4>3 DEF MarkNames
      <4> QED
        BY <4>2, <4>3
    <3> QED
      BY <1>8, <3>1, <3>2 DEF MarkNames, Names
  <2> QED
    BY <2>1, <2>2
<1> QED
  BY <1>9, <1>10, <1>14 DEF NInv

\* The rows after one more: it comes first, and those that stay keep their order.
Pushed(row) ==
    \A i \in DOMAIN history' :
        \/ i = 1 /\ history'[i] = row
        \/ i # 1 /\ i \in Nat /\ i - 1 \in DOMAIN history /\ history'[i] = history[i - 1]

\* A retired bracket is the newest row of the history.
LEMMA RetiredIsPushed ==
    ASSUME TypeOK, NEW s \in Symbols, IsActive(s),
           NEW status \in Statuses \ {"ACTIVE"}, NEW o \in OrderIds \cup {0},
           history' = Retired(s, status, o)
    PROVE  Pushed([id |-> bracket[s].id, symbol |-> s, status |-> status, order |-> o])
<1> DEFINE row == [id |-> bracket[s].id, symbol |-> s, status |-> status, order |-> o]
           rows == <<row>> \o history
           n == Lesser(Len(rows), MaxHistory)
<1>1. row \in Rows
  <2>1. bracket[s] \in Brackets
    BY DEF TypeOK, IsActive
  <2> QED
    BY <2>1 DEF Rows, Brackets
<1>2. history' = SubSeq(rows, 1, n)
  BY DEF Retired, Prune
<1> HIDE DEF row
<1>3. history \in Seq(Rows) /\ Len(history) \in Nat /\ DOMAIN history = 1..Len(history)
  BY DEF TypeOK
<1>4. /\ rows \in Seq(Rows) /\ Len(rows) = 1 + Len(history)
      /\ rows[1] = row
      /\ \A i \in 2..Len(rows) : rows[i] = history[i - 1]
  BY <1>1, <1>3
<1> HIDE DEF rows
<1>5. n \in Nat /\ n <= Len(rows)
  BY <1>3, <1>4, BoundsAssumption DEF Lesser
<1> HIDE DEF n
<1>6. DOMAIN history' = 1..n /\ \A i \in 1..n : history'[i] = rows[i]
  BY <1>2, <1>3, <1>4, <1>5
<1>7. ASSUME NEW i \in DOMAIN history'
      PROVE  \/ i = 1 /\ history'[i] = row
             \/ i # 1 /\ i \in Nat /\ i - 1 \in DOMAIN history /\ history'[i] = history[i - 1]
  <2>1. i \in 1..n /\ i \in 1..Len(rows)
    BY <1>3, <1>4, <1>5, <1>6
  <2>2. CASE i = 1
    BY <1>4, <1>6, <2>1, <2>2
  <2>3. CASE i # 1
    BY <1>3, <1>4, <1>6, <2>1, <2>3
  <2> QED
    BY <2>2, <2>3
<1> QED
  BY <1>7 DEF Pushed, row

\* A row that is pushed keeps the rows apart if it names a sell of its own or none.
LEMMA PushKeepsRows ==
    ASSUME IInv, RowsName, UNCHANGED orders, NEW row, Pushed(row),
           row.status \notin Fired => row.order = 0,
           row.status \in Fired =>
               /\ Names(row.order, row.symbol, row.id)
               /\ \A i \in DOMAIN history : history[i].order # row.order
    PROVE  RowsName'
<1> SUFFICES ASSUME NEW i \in DOMAIN history'
             PROVE  /\ history'[i].status \notin Fired => history'[i].order = 0
                    /\ history'[i].status \in Fired =>
                           /\ Names(history'[i].order, history'[i].symbol, history'[i].id)
                           /\ \A j \in DOMAIN history' \ {i} :
                                  history'[j].order # history'[i].order
  BY DEF RowsName, Names
<1>2. CASE i = 1 /\ history'[i] = row
  <2>1. ASSUME NEW j \in DOMAIN history' \ {i}
        PROVE  j - 1 \in DOMAIN history /\ history'[j] = history[j - 1]
    BY <1>2 DEF Pushed
  <2> QED
    BY <1>2, <2>1
<1>3. CASE i # 1 /\ i \in Nat /\ i - 1 \in DOMAIN history /\ history'[i] = history[i - 1]
  <2>1. /\ history'[i].status \notin Fired => history'[i].order = 0
        /\ history'[i].status \in Fired => Names(history'[i].order, history'[i].symbol, history'[i].id)
    BY <1>3 DEF RowsName
  <2>2. ASSUME history'[i].status \in Fired, NEW j \in DOMAIN history' \ {i}
        PROVE  history'[j].order # history'[i].order
    <3>1. CASE history'[j] = row
      <4>1. history'[i].order \in DOMAIN orders
        BY <2>1, <2>2 DEF Names
      <4> QED
        BY <1>3, <3>1, <4>1, OrdersAreNotZero
    <3>2. CASE j # 1 /\ j \in Nat /\ j - 1 \in DOMAIN history /\ history'[j] = history[j - 1]
      <4>1. j - 1 # i - 1
        BY <1>3, <2>2, <3>2
      <4> QED
        BY <1>3, <2>2, <3>2, <4>1 DEF RowsName
    <3> QED
      BY <2>2, <3>1, <3>2 DEF Pushed
  <2> QED
    BY <2>1, <2>2
<1> QED
  BY <1>2, <1>3 DEF Pushed

\* The bracket that a write leaves ACTIVE is the one it found, or newer than all.
LEMMA CopiesStayBehind ==
    ASSUME IInv, CopiesBehind, UNCHANGED <<pc, frame>>,
           \A s \in Symbols : bracket'[s] \in {bracket[s], NoBracket} \/ bracket'[s].id = nextId
    PROVE  CopiesBehind'
<1>1. ASSUME NEW b \in Brackets, Known(b), Behind(b)
      PROVE  Behind(b)'
  <2>1. b.symbol \in Symbols /\ b.id \in Int
    BY BoundsAssumption DEF Brackets, BracketIds
  <2>2. b.id < nextId /\ nextId \in Int
    BY <1>1, BoundsAssumption DEF Known, IInv, Shapes, TypeOK
  <2> QED
    BY <1>1, <2>1, <2>2 DEF Behind, IsActive
<1>2. ASSUME NEW t \in Tickers, NEW b \in frame[t].todo
      PROVE  Behind(b)'
  <2>1. b \in Brackets /\ Known(b) /\ Behind(b)
    BY DEF CopiesBehind, IInv, Shapes, TypeOK, Frames, Identities
  <2> QED
    BY <1>1, <2>1
<1>3. ASSUME NEW t \in Tickers, pc[t] \in Busy
      PROVE  Behind(frame[t].cur)'
  <2>1. frame[t].cur \in Brackets /\ Known(frame[t].cur) /\ Behind(frame[t].cur)
    BY <1>3 DEF CopiesBehind, IInv, Shapes, Identities
  <2> QED
    BY <1>1, <2>1 DEF Behind, IsActive
<1> QED
  BY <1>2, <1>3 DEF CopiesBehind

LEMMA OwnerKeepsNames ==
    ASSUME IInv, NInv, Request
    PROVE  NInv'
<1>1. UNCHANGED <<orders, pc, frame>>
  BY DEF Request, Attach, Cancel
<1>2. ASSUME NEW s \in Symbols, NEW q \in Quantities, NEW ref \in References, Attach(s, q, ref)
      PROVE  NInv'
  <2> DEFINE new == [id |-> nextId, symbol |-> s, qty |-> q,
                     stop |-> StopPrice(ref), target |-> TargetPrice(ref)]
  <2>1. bracket' = [bracket EXCEPT ![s] = new] /\ new.id = nextId /\ history' = history
    BY <1>2 DEF Attach
  <2> HIDE DEF new
  <2>2. \A r \in Symbols : bracket'[r] = bracket[r] \/ bracket'[r].id = nextId
    BY <2>1 DEF IInv, Shapes, TypeOK
  <2>3. CopiesBehind'
    BY <1>1, <2>2, CopiesStayBehind DEF NInv
  <2> QED
    BY <1>1, <2>1, <2>3 DEF NInv, RowsName, MarksName, MarkNames, Names
<1>3. ASSUME NEW s \in Symbols, Cancel(s)
      PROVE  NInv'
  <2> DEFINE row == [id |-> bracket[s].id, symbol |-> s, status |-> "CANCELLED", order |-> 0]
  <2>1. Pushed(row)
    <3>1. "CANCELLED" \in Statuses \ {"ACTIVE"} /\ TypeOK /\ IsActive(s)
      BY <1>3 DEF Statuses, IInv, Shapes, Cancel
    <3>2. history' = Retired(s, "CANCELLED", 0) /\ 0 \in OrderIds \cup {0}
      BY <1>3 DEF Cancel
    <3> QED
      BY <3>1, <3>2, RetiredIsPushed
  <2>2. row.order = 0 /\ row.status \notin Fired
    BY DEF Fired, Hits
  <2> HIDE DEF row
  <2>3. RowsName'
    BY <1>1, <2>1, <2>2, PushKeepsRows DEF NInv
  <2>4. \A r \in Symbols : bracket'[r] \in {bracket[r], NoBracket}
    BY <1>3 DEF Cancel, IInv, Shapes, TypeOK
  <2>5. CopiesBehind'
    BY <1>1, <2>4, CopiesStayBehind DEF NInv
  <2>6. MarksName'
    <3> SUFFICES ASSUME NEW t \in Tickers PROVE MarkNames(t)'
      BY DEF MarksName
    <3>1. MarkNames(t)
      BY DEF NInv, MarksName
    <3>2. ASSUME pc[t] = "mark", frame[t].mark \in Fired, NEW i \in DOMAIN history'
          PROVE  history'[i].order # frame[t].order
      <4>1. frame[t].order \in DOMAIN orders /\ frame[t].order # 0
        BY <3>1, <3>2, OrdersAreNotZero DEF MarkNames, Names
      <4> QED
        BY <2>1, <2>2, <3>1, <3>2, <4>1 DEF Pushed, MarkNames
    <3> QED
      BY <1>1, <3>1, <3>2 DEF MarkNames, Names
  <2> QED
    BY <2>3, <2>5, <2>6 DEF NInv
<1> QED
  BY <1>2, <1>3 DEF Request

\* A ticker copies the brackets as they are, so its copies are not ahead of them.
LEMMA TickStartsBehind ==
    ASSUME IInv, NInv, NEW t \in Tickers, StartTick(t)
    PROVE  NInv'
<1> DEFINE todo == {bracket[s] : s \in {x \in Symbols : IsActive(x)}}
           f == [IdleFrame EXCEPT !.todo = todo]
<1>1. f.todo = todo
  BY DEF IdleFrame
<1>2. \A b \in todo : \E s \in Symbols : IsActive(s) /\ b = bracket[s]
  OBVIOUS
<1> HIDE DEF todo
<1> HIDE DEF f
<1>3. /\ pc'[t] = "positions" /\ frame'[t] = f
      /\ \A u \in Tickers \ {t} : pc'[u] = pc[u] /\ frame'[u] = frame[u]
      /\ UNCHANGED <<store, orders>>
  BY DEF StartTick, Goto, IInv, Shapes, TypeOK, todo, f
<1>4. ASSUME NEW b \in todo
      PROVE  Behind(b)
  <2>1. PICK s \in Symbols : IsActive(s) /\ b = bracket[s]
    BY <1>2
  <2>2. b \in Brackets /\ b.symbol = s
    BY <2>1 DEF IInv, Shapes, TypeOK, Identities, Known, IsActive
  <2>3. b.id \in Int
    BY <2>2, BoundsAssumption DEF Brackets, BracketIds
  <2> QED
    BY <2>1, <2>2, <2>3 DEF Behind
<1>5. \A b : Behind(b)' = Behind(b)
  BY <1>3 DEF Behind, IsActive, store
<1>6. CopiesBehind'
  BY <1>1, <1>3, <1>4, <1>5 DEF CopiesBehind, NInv, Busy
<1>7. RowsName'
  BY <1>3 DEF RowsName, NInv, Names, store
<1>8. MarksName'
  BY <1>3 DEF MarksName, MarkNames, NInv, Names, store
<1> QED
  BY <1>6, <1>7, <1>8 DEF NInv

LEMMA MarkKeepsNames ==
    ASSUME IInv, NInv, NEW t \in Tickers, Mark(t)
    PROVE  NInv'
<1> DEFINE f == frame[t]
           s == f.cur.symbol
           r == Rest(f, f.todo)
<1>1. /\ pc[t] = "mark" /\ f \in Frames /\ f.cur \in Brackets /\ s \in Symbols
      /\ UNCHANGED orders /\ Goto(t, "each", r) /\ "each" \notin Busy /\ pc[t] \in Busy
  <2>1. pc[t] = "mark" /\ UNCHANGED orders /\ Goto(t, "each", r)
    BY DEF Mark
  <2>2. f \in Frames /\ f.cur \in Brackets
    BY <2>1 DEF IInv, Shapes, TypeOK, Busy
  <2> QED
    BY <2>1, <2>2 DEF Brackets, Busy
<1>2. r.todo = f.todo
  BY <1>1, RestType DEF Frames
<1>3. \A x \in Symbols : bracket'[x] \in {bracket[x], NoBracket}
  BY <1>1 DEF Mark, AfterMark, IsActive, IInv, Shapes, TypeOK
<1> HIDE DEF r
<1>4. /\ pc'[t] = "each" /\ frame'[t].todo = f.todo
      /\ \A u \in Tickers \ {t} : pc'[u] = pc[u] /\ frame'[u] = frame[u]
  BY <1>1, <1>2 DEF Goto, IInv, Shapes, TypeOK
<1>5. CopiesBehind'
  <2>1. ASSUME NEW b \in Brackets, Behind(b)
        PROVE  Behind(b)'
    BY <1>3, <2>1 DEF Behind, IsActive, Brackets
  <2>2. ASSUME NEW u \in Tickers, NEW b \in frame'[u].todo
        PROVE  Behind(b)'
    <3>1. b \in frame[u].todo /\ b \in Brackets
      BY <1>4 DEF IInv, Shapes, TypeOK, Frames
    <3> QED
      BY <2>1, <3>1 DEF NInv, CopiesBehind
  <2>3. ASSUME NEW u \in Tickers, pc'[u] \in Busy
        PROVE  Behind(frame[u].cur)'
    <3>1. u # t /\ pc'[u] = pc[u] /\ frame'[u] = frame[u]
      BY <1>1, <1>4, <2>3
    <3>2. frame[u].cur \in Brackets /\ Behind(frame[u].cur)
      BY <2>3, <3>1 DEF NInv, CopiesBehind, IInv, Shapes
    <3> QED
      BY <2>1, <3>1, <3>2 DEF Behind, IsActive
  <2> QED
    BY <2>2, <2>3 DEF CopiesBehind
<1>6. MarkNames(t) /\ \A u \in Tickers : MarkNames(u)
  BY DEF NInv, MarksName
<1>7. CASE ~IsActive(s) \/ f.mark = "ACTIVE"
  <2>1. history' = history
    BY <1>7 DEF Mark
  <2>2. RowsName'
    BY <1>1, <2>1 DEF NInv, RowsName, Names
  <2>3. MarksName'
    BY <1>1, <1>4, <1>6, <2>1 DEF MarksName, MarkNames, Names
  <2> QED
    BY <1>5, <2>2, <2>3 DEF NInv
<1>8. CASE IsActive(s) /\ f.mark # "ACTIVE"
  <2> DEFINE row == [id |-> bracket[s].id, symbol |-> s, status |-> f.mark, order |-> f.order]
  <2>1. Pushed(row)
    <3>1. f.mark \in Statuses \ {"ACTIVE"} /\ f.order \in OrderIds \cup {0} /\ TypeOK
      BY <1>1, <1>8 DEF Frames, IInv, Shapes
    <3>2. history' = Retired(s, f.mark, f.order)
      BY <1>8 DEF Mark
    <3> QED
      BY <1>1, <1>8, <3>1, <3>2, RetiredIsPushed
  <2>2. row.id = bracket[s].id /\ row.symbol = s /\ row.status = f.mark /\ row.order = f.order
    OBVIOUS
  <2> HIDE DEF row
  <2>3. f.mark \in Fired => Names(row.order, row.symbol, row.id)
    <3>1. f.cur.id <= bracket[s].id
      BY <1>1, <1>8 DEF NInv, CopiesBehind, Behind
    <3>2. f.cur.id \in Int /\ bracket[s].id \in Int
      <4>1. bracket[s] \in Brackets
        BY <1>1, <1>8 DEF IInv, Shapes, TypeOK, IsActive
      <4> QED
        BY <1>1, <4>1, BoundsAssumption DEF Brackets, BracketIds
    <3>3. \A o \in DOMAIN orders : orders[o].bracket \in Int
      BY OrdersAreNotZero
    <3> QED
      BY <1>1, <1>6, <2>2, <3>1, <3>2, <3>3 DEF MarkNames, Names
  <2>4. RowsName'
    BY <1>1, <1>6, <2>1, <2>2, <2>3, PushKeepsRows DEF NInv, MarkNames
  <2>5. MarksName'
    <3> SUFFICES ASSUME NEW u \in Tickers PROVE MarkNames(u)'
      BY DEF MarksName
    <3>1. CASE u = t
      BY <1>4, <3>1 DEF MarkNames
    <3>2. CASE u # t
      <4>1. pc'[u] = pc[u] /\ frame'[u] = frame[u] /\ MarkNames(u)
        BY <1>4, <1>6, <3>2
      <4>2. ASSUME pc[u] = "mark", frame[u].mark \in Fired, NEW i \in DOMAIN history'
            PROVE  history'[i].order # frame[u].order
        <5>1. frame[u].order \in DOMAIN orders /\ frame[u].order # 0
          BY <4>1, <4>2, OrdersAreNotZero DEF MarkNames, Names
        <5>2. row.order # frame[u].order
          BY <1>1, <2>2, <3>2, <4>1, <4>2 DEF MarkNames
        <5> QED
          BY <2>1, <4>1, <4>2, <5>2 DEF Pushed, MarkNames
      <4>3. \A v \in Tickers \ {u} : pc'[v] = "mark" => v # t /\ pc[v] = "mark" /\ frame'[v] = frame[v]
        BY <1>4
      <4> QED
        BY <1>1, <4>1, <4>2, <4>3 DEF MarkNames, Names
    <3> QED
      BY <3>1, <3>2
  <2> QED
    BY <1>5, <2>4, <2>5 DEF NInv
<1> QED
  BY <1>7, <1>8

\* A crash forgets what was about to be recorded, and the world moves no row.
LEMMA WorldKeepsNames ==
    ASSUME IInv, NInv, Crash \/ World \/ UNCHANGED vars
    PROVE  NInv'
<1>1. /\ UNCHANGED store /\ DOMAIN orders' = DOMAIN orders
      /\ \A o \in DOMAIN orders : /\ orders'[o].symbol = orders[o].symbol
                                  /\ orders'[o].bracket = orders[o].bracket
      /\ UNCHANGED <<pc, frame>> \/ Crash
  <2>1. ASSUME NEW o \in OrderIds, OrderEnds(o)
        PROVE  /\ DOMAIN orders' = DOMAIN orders
               /\ \A i \in DOMAIN orders : /\ orders'[i].symbol = orders[i].symbol
                                           /\ orders'[i].bracket = orders[i].bracket
    <3>1. orders' = [orders EXCEPT ![o].working = FALSE] /\ orders \in Seq(Orders) /\ o \in DOMAIN orders
      BY <2>1 DEF OrderEnds, IInv, Shapes, TypeOK
    <3>2. orders[o] \in Orders
      BY <3>1
    <3>3. /\ [orders[o] EXCEPT !.working = FALSE].symbol = orders[o].symbol
          /\ [orders[o] EXCEPT !.working = FALSE].bracket = orders[o].bracket
      BY <3>2 DEF Orders
    <3>4. \A i \in DOMAIN orders :
              orders'[i] = IF i = o THEN [orders[o] EXCEPT !.working = FALSE] ELSE orders[i]
      BY <3>1
    <3> QED
      BY <3>1, <3>3, <3>4
  <2>2. CASE \E o \in OrderIds : OrderCancelled(o) \/ OrderFills(o)
    BY <2>1, <2>2 DEF OrderCancelled, OrderFills, OrderEnds
  <2>3. CASE SessionTurns
    BY <2>3 DEF SessionTurns
  <2>4. CASE \E s \in Symbols : OwnerBuys(s) \/ OwnerSells(s) \/ \E p \in Prices : PriceMoves(s, p)
    BY <2>4 DEF OwnerBuys, OwnerSells, PriceMoves
  <2>5. CASE Crash
    BY <2>5 DEF Crash
  <2>6. CASE UNCHANGED vars
    BY <2>6 DEF vars
  <2> QED
    BY <2>2, <2>3, <2>4, <2>5, <2>6 DEF World
<1>2. \A b : Behind(b)' = Behind(b)
  BY <1>1 DEF Behind, IsActive, store
<1>3. RowsName'
  BY <1>1 DEF RowsName, NInv, Names, store
<1>4. CopiesBehind' /\ MarksName'
  <2>1. CASE UNCHANGED <<pc, frame>>
    <3>1. CopiesBehind'
      BY <1>2, <2>1 DEF CopiesBehind, NInv, Behind, IsActive, store
    <3>2. MarksName'
      BY <1>1, <2>1 DEF MarksName, MarkNames, NInv, Names, store
    <3> QED
      BY <3>1, <3>2
  <2>2. CASE Crash
    <3>1. \A t \in Tickers : pc'[t] = "idle" /\ frame'[t].todo = {}
      BY <2>2, QuoteTypes DEF Crash
    <3> QED
      BY <3>1 DEF CopiesBehind, MarksName, MarkNames, Busy
  <2> QED
    BY <1>1, <2>1, <2>2
<1> QED
  BY <1>3, <1>4 DEF NInv

LEMMA NamesInitially == Init => NInv
<1> SUFFICES ASSUME Init PROVE NInv
  OBVIOUS
<1>1. \A t \in Tickers : pc[t] = "idle" /\ frame[t].todo = {}
  BY QuoteTypes DEF Init
<1>2. DOMAIN history = {}
  BY DEF Init
<1> QED
  BY <1>1, <1>2 DEF NInv, CopiesBehind, RowsName, MarksName, MarkNames, Busy

LEMMA NamesInductive == IInv /\ NInv /\ [Next]_vars => NInv'
<1> SUFFICES ASSUME IInv, NInv, [Next]_vars PROVE NInv'
  OBVIOUS
<1>1. ASSUME NEW t \in Tickers, Step(t)
      PROVE  NInv'
  BY <1>1, TickStartsBehind, TickKeepsNames, NamesTheNewSell, MarkKeepsNames DEF Step
<1>2. CASE Fault
  BY <1>2, TickKeepsNames, NamesTheNewSell, WorldKeepsNames DEF Fault
<1> QED
  BY <1>1, <1>2, OwnerKeepsNames, WorldKeepsNames DEF Next

\* Whatever bracket a _mark finds by then, and however ticks, requests, faults and
\* crashes interleave, a row of the file that says it fired names a real sell of its
\* symbol, made for it or an earlier bracket, and no other row names that sell.
THEOREM RowsNameRealSells == Spec => []FiredRowsNameTheirSell
<1>1. NInv => FiredRowsNameTheirSell
  BY DEF NInv, RowsName, Names, FiredRowsNameTheirSell
<1> QED
  BY <1>1, Initially, Inductive, NamesInitially, NamesInductive, PTL DEF Spec

=============================================================================
