------------------------ MODULE SimPortfolio_proofs ------------------------
(***************************************************************************)
(* Theorems about SimPortfolio, for every set of threads and symbols and   *)
(* every bound.                                                            *)
(***************************************************************************)
EXTENDS SimRefinement, FiniteSetTheorems, WellFoundedInduction, TLAPS

-----------------------------------------------------------------------------
(* The loop of _settle_pending takes the least order of its list. *)

\* The least id of some orders is that of one of them.
LEMMA MinIsMember ==
    ASSUME NEW S \in SUBSET OrderIds, S # {}
    PROVE  Min(S) \in S
<1>1. S \subseteq Nat
  BY BoundsAssumption DEF OrderIds
<1>2. \E x \in S : \A y \in S : ~(<<y, x>> \in OpToRel(<, Nat))
  BY <1>1, NatLessThanWellFounded, WFMin, Zenon
<1>3. PICK x \in S : \A y \in S : ~(<<y, x>> \in OpToRel(<, Nat))
  BY <1>2
<1>4. \A y \in S : x =< y
  <2> TAKE y \in S
  <2>1. x \in Nat /\ y \in Nat
    BY <1>1
  <2>2. ~(y < x)
    BY <1>3, <2>1 DEF OpToRel
  <2> QED
    BY <2>1, <2>2
<1> QED
  BY <1>4 DEF Min

-----------------------------------------------------------------------------
(* Type correctness. *)

\* The rows and locals the model starts from have their types.
LEMMA BlankTypes ==
    /\ Flat \in Positions
    /\ BlankTicket \in Tickets
    /\ BlankFrame \in Frames
    /\ "idle" \in Labels
<1>1. BlankTicket.sym \in Symbols /\ BlankTicket.qty \in Quantities
  BY SymbolsAssumption, QuantitiesAssumption DEF BlankTicket
<1>2. (CHOOSE p \in Prices : TRUE) \in Prices
  BY PricesAssumption
<1>3. BlankTicket \in Tickets
  BY <1>1 DEF BlankTicket, Tickets, Sides, Instants, Phases
<1>4. BlankFill \in Fills
  BY <1>1, <1>2 DEF BlankFill, Fills, Sides
<1>5. Flat \in Positions
  BY DEF Flat, Positions
<1>6. FreshAccount \in Accounts
  BY MoneyAssumption DEF FreshAccount, Accounts
<1>7. BlankFrame \in Frames
  BY <1>1, <1>4, <1>5, <1>6 DEF BlankFrame, Frames, Ops, Sides, Returns
<1> QED
  BY <1>3, <1>5, <1>7 DEF Labels

LEMMA GotoType ==
    ASSUME pc \in [Threads -> Labels], frame \in [Threads -> Frames],
           NEW t \in Threads, NEW l \in Labels, NEW f \in Frames,
           Goto(t, l, f)
    PROVE  pc' \in [Threads -> Labels] /\ frame' \in [Threads -> Frames]
BY DEF Goto

LEMMA ReturnType ==
    ASSUME pc \in [Threads -> Labels], frame \in [Threads -> Frames],
           NEW t \in Threads, Return(t)
    PROVE  pc' \in [Threads -> Labels] /\ frame' \in [Threads -> Frames]
BY BlankTypes, GotoType DEF Return

\* What a fill computes from typed locals is typed.
LEMMA FillTypes ==
    ASSUME NEW f \in Fills, NEW acct \in Accounts, NEW held \in Positions,
           Affordable(f, acct, held)
    PROVE  /\ PositionAfter(f, held) \in Positions
           /\ CashAfter(f, acct) \in Int
           /\ RealizedBase(f, held) \in Int
<1>1. /\ f.qty \in Nat \ {0} /\ f.price \in Nat \ {0} /\ Fx[f.sym] \in Nat \ {0}
      /\ f.side \in {"BUY", "SELL"}
      /\ held.qty \in Int /\ held.cost \in Int /\ acct.cash \in Int
  BY QuantitiesAssumption, PricesAssumption, SymbolsAssumption
     DEF Fills, Sides, Positions, Accounts
<1>2. f.qty * f.price \in Nat /\ ValueBase(f) \in Nat
  BY <1>1 DEF ValueBase
<1>3. CashAfter(f, acct) \in Int
  BY <1>1, <1>2 DEF CashAfter
<1>4. CASE f.side = "BUY"
  <2>1. PositionAfter(f, held) \in Positions
    BY <1>1, <1>2, <1>4 DEF PositionAfter, Positions
  <2>2. RealizedBase(f, held) = 0
    BY <1>4 DEF RealizedBase
  <2> QED
    BY <1>3, <2>1, <2>2
<1>5. CASE f.side = "SELL"
  <2>1. held.qty \in Nat \ {0}
    BY <1>1, <1>5 DEF Affordable
  <2>2. held.cost * f.qty \in Int
    BY <1>1
  <2>3. Relief(f, held) \in Int
    BY <2>1, <2>2 DEF Relief
  <2>4. PositionAfter(f, held) \in Positions
    BY <1>1, <1>5, <2>3 DEF PositionAfter, Positions, Flat
  <2>5. RealizedBase(f, held) \in Int
    BY <1>1, <1>2, <1>5, <2>3 DEF RealizedBase
  <2> QED
    BY <1>3, <2>4, <2>5
<1> QED
  BY <1>1, <1>4, <1>5

\* The calendar gives days for instants.
LEMMA CalendarTypes ==
    ASSUME NEW now \in Instants
    PROVE  /\ Advance(now) \in Instants
           /\ TradingDate(now) \in Int
           /\ LatestBar(now) \in Int
           /\ \A d \in Int : NextWeekday(d) \in Int
<1>1. now.day \in Int /\ now.phase \in Phases
  BY DEF Instants
<1>2. NextPhase[now.phase] \in Phases
  BY <1>1 DEF NextPhase, Phases
<1>3. Advance(now) \in Instants
  BY <1>1, <1>2 DEF Advance, Instants, Phases
<1> QED
  BY <1>1, <1>3 DEF TradingDate, LatestBar, PreviousWeekday, NextWeekday


-----------------------------------------------------------------------------
(* The inductive invariant.  Non-negativity is preserved because a thread   *)
(* about to write holds copies that passed the check of _execute_fill, and  *)
(* every copy was once a row.                                               *)

\* Thread locals f at label l hold sound copies, checked before a write.
GoodFrame(l, f) ==
    /\ f.acct.cash >= 0
    /\ f.held.qty >= 0
    /\ l \in {"write", "debit", "log"} => Affordable(f.fill, f.acct, f.held)

IInv ==
    /\ TypeOK
    /\ NonNegative
    /\ \A t \in Threads : GoodFrame(pc[t], frame[t])

\* The part of IInv that is about the threads.
ThreadsInv ==
    /\ pc \in [Threads -> Labels]
    /\ frame \in [Threads -> Frames]
    /\ \A t \in Threads : GoodFrame(pc[t], frame[t])

\* The part of IInv that is about the tables.
StoreInv ==
    /\ account \in Accounts /\ account.cash >= 0
    /\ position \in [Symbols -> Positions]
    /\ \A s \in Symbols : position[s].qty >= 0
    /\ status \in [OrderIds -> Statuses]
    /\ ticket \in [OrderIds -> Tickets]
    /\ nextId \in Nat \ {0}
    /\ log \in [cash : Int, realized : Int, qty : [Symbols -> Int]]

\* The rest: the environment and the history.
OutsideInv ==
    /\ clock \in Instants
    /\ cached \in [Symbols -> Int]
    /\ fills \in [OrderIds -> [count : Nat, day : Int]]
    /\ started \in Nat
    /\ crashes \in Nat

\* The three parts of the state that the steps are sorted by.
LEMMA IInvParts == IInv <=> ThreadsInv /\ StoreInv /\ OutsideInv
BY DEF IInv, TypeOK, NonNegative, ThreadsInv, StoreInv, OutsideInv

LEMMA IInvPartsNext == IInv' <=> ThreadsInv' /\ StoreInv' /\ OutsideInv'
BY DEF IInv, TypeOK, NonNegative, ThreadsInv, StoreInv, OutsideInv

\* A step that leaves the tables, or the rest, alone keeps its invariant.
LEMMA StoreUnchanged ==
    ASSUME StoreInv, UNCHANGED store
    PROVE  StoreInv'
BY DEF StoreInv, store

\* The environment's part, where a thread's step leaves it alone.
LEMMA OutsideUnchanged ==
    ASSUME OutsideInv, UNCHANGED <<environment, fills, started, crashes>>
    PROVE  OutsideInv'
BY DEF OutsideInv, environment

LEMMA GotoInv ==
    ASSUME ThreadsInv, NEW t \in Threads, NEW l \in Labels, NEW f \in Frames,
           GoodFrame(l, f), Goto(t, l, f)
    PROVE  ThreadsInv'
<1>1. pc' \in [Threads -> Labels] /\ frame' \in [Threads -> Frames]
  BY GotoType DEF ThreadsInv
<1>2. \A u \in Threads : GoodFrame(pc'[u], frame'[u])
  <2> TAKE u \in Threads
  <2>1. CASE u = t
    BY <2>1 DEF Goto, ThreadsInv
  <2>2. CASE u # t
    <3>1. pc'[u] = pc[u] /\ frame'[u] = frame[u]
      BY <2>2 DEF Goto, ThreadsInv
    <3> QED
      BY <3>1 DEF ThreadsInv
  <2> QED
    BY <2>1, <2>2
<1> QED
  BY <1>1, <1>2 DEF ThreadsInv

\* A thread without copies of rows has none that could be negative.
LEMMA BlankFrameGood ==
    ASSUME NEW l \in Labels \ {"write", "debit", "log"}
    PROVE  GoodFrame(l, BlankFrame)
BY MoneyAssumption DEF GoodFrame, BlankFrame, FreshAccount, Flat

LEMMA ReturnInv ==
    ASSUME ThreadsInv, NEW t \in Threads, Return(t)
    PROVE  ThreadsInv'
<1>1. GoodFrame("idle", BlankFrame)
  BY BlankFrameGood, BlankTypes
<1> QED
  BY <1>1, BlankTypes, GotoInv DEF Return

\* A call of _account, with the locals of any sound frame but for the copies.
LEMMA CallAccountInv ==
    ASSUME ThreadsInv, NEW t \in Threads, NEW l \in Returns, NEW f \in Frames,
           f.acct.cash >= 0, f.held.qty >= 0, CallAccount(t, l, f)
    PROVE  ThreadsInv'
<1> DEFINE g == [f EXCEPT !.ret = l]
<1>1. g \in Frames /\ g.acct = f.acct /\ g.held = f.held
  BY DEF Frames
<1>2. "acct" \in Labels /\ GoodFrame("acct", g)
  BY <1>1 DEF GoodFrame, Labels
<1>3. Goto(t, "acct", g)
  BY DEF CallAccount
<1> HIDE DEF g
<1> QED
  BY <1>1, <1>2, <1>3, GotoInv

LEMMA WipeInv ==
    ASSUME StoreInv, Wipe
    PROVE  StoreInv'
<1>1. FreshAccount \in Accounts /\ FreshAccount.cash >= 0
  BY MoneyAssumption DEF FreshAccount, Accounts
<1>2. Flat \in Positions /\ Flat.qty >= 0
  BY DEF Flat, Positions
<1>3. EmptyLog \in [cash : Int, realized : Int, qty : [Symbols -> Int]]
  BY DEF EmptyLog
<1>4. status' \in [OrderIds -> Statuses]
  BY DEF Wipe, StoreInv, Statuses
<1> QED
  BY <1>1, <1>2, <1>3, <1>4 DEF Wipe, StoreInv

LEMMA SetStatusInv ==
    ASSUME StoreInv, NEW o, NEW st \in Statuses, SetStatus(o, st),
           UNCHANGED <<account, position, ticket, nextId, log>>
    PROVE  StoreInv'
BY DEF SetStatus, StoreInv, Statuses

\* The facts every action needs about the thread that takes it.
LEMMA ThreadFacts ==
    ASSUME ThreadsInv, NEW t \in Threads
    PROVE  /\ frame[t] \in Frames /\ pc[t] \in Labels
           /\ frame[t].acct \in Accounts /\ frame[t].held \in Positions
           /\ frame[t].fill \in Fills
           /\ frame[t].acct.cash \in Int /\ frame[t].acct.cash >= 0
           /\ frame[t].held.qty \in Int /\ frame[t].held.qty >= 0
           /\ frame[t].todo \in SUBSET OrderIds
           /\ frame[t].ret \in Returns
           /\ frame[t].sym \in Symbols /\ frame[t].side \in Sides
           /\ frame[t].qty \in Quantities /\ frame[t].quote \in Nat
           /\ GoodFrame(pc[t], frame[t])
<1>1. frame[t] \in Frames /\ pc[t] \in Labels /\ GoodFrame(pc[t], frame[t])
  BY DEF ThreadsInv
<1>2. frame[t].acct \in Accounts /\ frame[t].held \in Positions
  BY <1>1 DEF Frames
<1>3. frame[t].acct.cash \in Int /\ frame[t].held.qty \in Int
  BY <1>2 DEF Accounts, Positions
<1> QED
  BY <1>1, <1>2, <1>3 DEF Frames, GoodFrame


-----------------------------------------------------------------------------
(* One lemma per group of actions. *)

LEMMA StartInv ==
    ASSUME IInv, NEW t \in Threads, Start(t)
    PROVE  IInv'
<1>1. ThreadsInv /\ StoreInv /\ OutsideInv
  BY IInvParts
<1>2. BlankFrame \in Frames /\ BlankFrame.acct.cash >= 0 /\ BlankFrame.held.qty >= 0
  BY BlankTypes, MoneyAssumption DEF BlankFrame, FreshAccount, Flat
<1>3. /\ \A l \in {"list", "clear"} : l \in Labels
      /\ \A l \in {"list", "lookup", "idle"} : l \in Returns
  BY DEF Labels, Returns
<1>4. StoreInv' /\ OutsideInv'
  <2>1. UNCHANGED <<store, environment, fills, crashes>>
    BY DEF Start, StartPoll, StartPreview, StartPlace, StartCancel, StartReset,
       Receive
  <2>2. started' \in Nat
    <3>1. CASE StartPoll(t)
      BY <1>1, <3>1 DEF StartPoll, OutsideInv
    <3>2. CASE Receive(t)
      BY <1>1, <3>2 DEF Receive, OutsideInv
    <3> QED
      BY <3>1, <3>2 DEF Start, StartPreview, StartPlace, StartCancel, StartReset
  <2> QED
    BY <1>1, <2>1, <2>2, StoreUnchanged DEF OutsideInv, environment
<1>5. ThreadsInv'
  <2>1. CASE StartPoll(t)
    BY <1>1, <1>2, <1>3, <2>1, CallAccountInv DEF StartPoll
  <2>2. CASE StartPreview(t)
    <3> DEFINE f == [BlankFrame EXCEPT !.op = "preview"]
    <3>1. f \in Frames /\ f.acct.cash >= 0 /\ f.held.qty >= 0
      BY <1>2 DEF Frames, Ops
    <3>2. CallAccount(t, "idle", f)
      BY <2>2 DEF StartPreview
    <3> HIDE DEF f
    <3> QED
      BY <1>1, <1>3, <3>1, <3>2, CallAccountInv
  <2>3. CASE StartPlace(t)
    <3>1. PICK s \in Symbols, side \in Sides, q \in Quantities, limit \in BOOLEAN :
            Goto(t, "list", [BlankFrame EXCEPT !.op = "place", !.sym = s,
                                !.side = side, !.qty = q, !.limit = limit])
      BY <2>3 DEF StartPlace
    <3> DEFINE f == [BlankFrame EXCEPT !.op = "place", !.sym = s,
                        !.side = side, !.qty = q, !.limit = limit]
    <3>2. f \in Frames /\ GoodFrame("list", f)
      BY <1>2 DEF Frames, Ops, GoodFrame
    <3>3. Goto(t, "list", f)
      BY <3>1
    <3> HIDE DEF f
    <3> QED
      BY <1>1, <1>3, <3>2, <3>3, GotoInv
  <2>4. CASE StartCancel(t)
    <3>1. PICK o \in OrderIds :
            CallAccount(t, "lookup",
                        [BlankFrame EXCEPT !.op = "cancel", !.order = o])
      BY <2>4 DEF StartCancel
    <3> DEFINE f == [BlankFrame EXCEPT !.op = "cancel", !.order = o]
    <3>2. f \in Frames /\ f.acct.cash >= 0 /\ f.held.qty >= 0
      BY <1>2 DEF Frames, Ops
    <3>3. CallAccount(t, "lookup", f)
      BY <3>1
    <3> HIDE DEF f
    <3> QED
      BY <1>1, <1>3, <3>2, <3>3, CallAccountInv
  <2>5. CASE StartReset(t)
    <3> DEFINE f == [BlankFrame EXCEPT !.op = "reset"]
    <3>1. f \in Frames /\ GoodFrame("clear", f)
      BY <1>2 DEF Frames, Ops, GoodFrame
    <3>2. Goto(t, "clear", f)
      BY <2>5 DEF StartReset
    <3> HIDE DEF f
    <3> QED
      BY <1>1, <1>3, <3>1, <3>2, GotoInv
  <2> QED
    BY <2>1, <2>2, <2>3, <2>4, <2>5 DEF Start
<1> QED
  BY <1>4, <1>5, IInvPartsNext

LEMMA AccountInv ==
    ASSUME IInv, NEW t \in Threads, ReadAccount(t) \/ Migrate(t)
    PROVE  IInv'
<1>1. ThreadsInv /\ StoreInv /\ OutsideInv
  BY IInvParts
<1>2. frame[t] \in Frames /\ GoodFrame("migrate", frame[t])
        /\ GoodFrame("acct", frame[t])
  BY <1>1, ThreadFacts DEF GoodFrame
<1>3. "migrate" \in Labels /\ "acct" \in Labels
  BY DEF Labels
<1>4. CASE ReadAccount(t)
  <2>1. StoreInv' /\ OutsideInv'
    BY <1>1, <1>4, StoreUnchanged, OutsideUnchanged DEF ReadAccount
  <2>2. CASE account.legacy
    BY <1>1, <1>2, <1>3, <1>4, <2>1, <2>2, GotoInv, IInvPartsNext DEF ReadAccount
  <2>3. CASE ~account.legacy /\ frame[t].ret = "idle"
    BY <1>1, <1>4, <2>1, <2>3, ReturnInv, IInvPartsNext DEF ReadAccount
  <2>4. CASE ~account.legacy /\ frame[t].ret # "idle"
    <3> DEFINE f == [frame[t] EXCEPT !.acct = account]
    <3>1. f \in Frames /\ f.acct = account /\ f.held = frame[t].held
      BY <1>1, <1>2 DEF StoreInv, Frames
    <3>2. /\ frame[t].ret \in Labels
          /\ frame[t].ret \notin {"write", "debit", "log"}
      BY <1>1, ThreadFacts DEF Returns, Labels
    <3>3. Goto(t, frame[t].ret, f)
      BY <1>4, <2>4 DEF ReadAccount
    <3>4. GoodFrame(frame[t].ret, f)
      BY <1>1, <1>2, <3>1, <3>2 DEF GoodFrame, StoreInv
    <3> HIDE DEF f
    <3> QED
      BY <1>1, <2>1, <3>1, <3>2, <3>3, <3>4, GotoInv, IInvPartsNext
  <2> QED
    BY <2>2, <2>3, <2>4
<1>5. CASE Migrate(t)
  <2>1. StoreInv'
    BY <1>1, <1>5, WipeInv DEF Migrate
  <2>2. OutsideInv'
    <3>1. UNCHANGED <<environment, fills, started, crashes>>
      BY <1>5 DEF Migrate
    <3> QED
      BY <1>1, <3>1 DEF OutsideInv, environment
  <2>3. ThreadsInv'
    BY <1>1, <1>2, <1>3, <1>5, GotoInv DEF Migrate
  <2> QED
    BY <2>1, <2>2, <2>3, IInvPartsNext
<1> QED
  BY <1>4, <1>5

LEMMA SettleInv ==
    ASSUME IInv, NEW t \in Threads, Settle(t)
    PROVE  IInv'
<1>1. ThreadsInv /\ StoreInv /\ OutsideInv
  BY IInvParts
<1>2. /\ frame[t] \in Frames /\ frame[t].todo \in SUBSET OrderIds
      /\ frame[t].acct.cash >= 0 /\ frame[t].held.qty >= 0
  BY <1>1, ThreadFacts
<1>3. \A l \in Labels \ {"write", "debit", "log"} : GoodFrame(l, frame[t])
  BY <1>2 DEF GoodFrame
<1>4. {"settle", "route"} \subseteq Labels \ {"write", "debit", "log"}
        /\ "pos" \in Returns
  BY DEF Labels, Returns
<1>5. CASE ListPending(t)
  <2> DEFINE f == [frame[t] EXCEPT !.todo = Pending]
  <2>1. f \in Frames /\ f.acct = frame[t].acct /\ f.held = frame[t].held
    BY <1>2 DEF Frames, Pending
  <2>2. Goto(t, "settle", f) /\ GoodFrame("settle", f)
    BY <1>2, <1>5, <2>1 DEF ListPending, GoodFrame
  <2> HIDE DEF f
  <2>3. ThreadsInv'
    BY <1>1, <1>4, <2>1, <2>2, GotoInv
  <2> QED
    BY <1>1, <1>5, <2>3, StoreUnchanged, OutsideUnchanged, IInvPartsNext
       DEF ListPending
<1>6. CASE SettleSkip(t)
  <2> DEFINE f == [frame[t] EXCEPT !.todo = @ \ {Min(frame[t].todo)}]
  <2>1. f \in Frames /\ f.acct = frame[t].acct /\ f.held = frame[t].held
    BY <1>2 DEF Frames
  <2>2. Goto(t, "settle", f) /\ GoodFrame("settle", f)
    BY <1>2, <1>6, <2>1 DEF SettleSkip, GoodFrame
  <2> HIDE DEF f
  <2>3. ThreadsInv'
    BY <1>1, <1>4, <2>1, <2>2, GotoInv
  <2> QED
    BY <1>1, <1>6, <2>3, StoreUnchanged, OutsideUnchanged, IInvPartsNext
       DEF SettleSkip
<1>7. CASE SettleMark(t)
  <2> DEFINE o == Min(frame[t].todo)
             g(p) == [sym |-> ticket[o].sym, side |-> ticket[o].side,
                      qty |-> ticket[o].qty, price |-> p, order |-> o]
             f(p) == [frame[t] EXCEPT !.todo = @ \ {o}, !.fill = g(p)]
  <2>1. o \in OrderIds
    BY <1>2, <1>7, MinIsMember DEF SettleMark
  <2> HIDE DEF o
  <2>2. PICK p \in Prices : CallAccount(t, "pos", f(p))
    BY <1>7 DEF SettleMark, o
  <2>3. g(p) \in Fills
    BY <1>1, <2>1 DEF StoreInv, Tickets, Fills
  <2> HIDE DEF g
  <2>4. f(p) \in Frames /\ f(p).acct = frame[t].acct /\ f(p).held = frame[t].held
    BY <1>2, <2>3 DEF Frames
  <2> HIDE DEF f
  <2>5. ThreadsInv'
    BY <1>1, <1>2, <1>4, <2>2, <2>4, CallAccountInv
  <2>6. StoreInv'
    BY <1>1, <1>7, SetStatusInv DEF SettleMark, Statuses
  <2> QED
    BY <1>1, <1>7, <2>5, <2>6, OutsideUnchanged, IInvPartsNext DEF SettleMark
<1>8. CASE SettleDone(t)
  <2>1. ThreadsInv'
    BY <1>1, <1>2, <1>3, <1>4, <1>8, GotoInv, ReturnInv DEF SettleDone
  <2> QED
    BY <1>1, <1>8, <2>1, StoreUnchanged, OutsideUnchanged, IInvPartsNext
       DEF SettleDone
<1>9. CASE SettleReject(t)
  <2>1. ThreadsInv'
    BY <1>1, <1>2, <1>3, <1>4, <1>9, GotoInv DEF SettleReject
  <2>2. StoreInv'
    BY <1>1, <1>9, SetStatusInv DEF SettleReject, Statuses
  <2> QED
    BY <1>1, <1>9, <2>1, <2>2, OutsideUnchanged, IInvPartsNext DEF SettleReject
<1> QED
  BY <1>5, <1>6, <1>7, <1>8, <1>9 DEF Settle

LEMMA RouteInv ==
    ASSUME IInv, NEW t \in Threads, RouteToQueue(t) \/ RouteToFill(t)
    PROVE  IInv'
<1>1. ThreadsInv /\ StoreInv /\ OutsideInv
  BY IInvParts
<1>2. StoreInv' /\ OutsideInv'
  BY <1>1, StoreUnchanged, OutsideUnchanged DEF RouteToQueue, RouteToFill
<1>3. /\ frame[t] \in Frames
      /\ frame[t].acct.cash >= 0 /\ frame[t].held.qty >= 0
      /\ frame[t].sym \in Symbols /\ frame[t].side \in Sides
      /\ frame[t].qty \in Quantities
  BY <1>1, ThreadFacts
<1>4. {"reserve", "held", "pos"} \subseteq Returns
  BY DEF Returns
<1>5. CASE RouteToQueue(t)
  BY <1>1, <1>2, <1>3, <1>4, <1>5, CallAccountInv, IInvPartsNext
     DEF RouteToQueue
<1>6. CASE RouteToFill(t)
  <2> DEFINE g(p) == [sym |-> frame[t].sym, side |-> frame[t].side,
                      qty |-> frame[t].qty, price |-> p, order |-> 0]
             f(p) == [frame[t] EXCEPT !.fill = g(p)]
  <2>1. CASE \E p \in Prices : CallAccount(t, "pos", f(p))
    <3>1. PICK p \in Prices : CallAccount(t, "pos", f(p))
      BY <2>1
    <3>2. g(p) \in Fills
      BY <1>3 DEF Fills
    <3> HIDE DEF g
    <3>3. /\ f(p) \in Frames
          /\ f(p).acct = frame[t].acct /\ f(p).held = frame[t].held
      BY <1>3, <3>2 DEF Frames
    <3> HIDE DEF f
    <3> QED
      BY <1>1, <1>2, <1>3, <1>4, <3>1, <3>3, CallAccountInv, IInvPartsNext
  <2>2. CASE Return(t)
    BY <1>1, <1>2, <2>2, ReturnInv, IInvPartsNext
  <2> QED
    BY <1>6, <2>1, <2>2 DEF RouteToFill
<1> QED
  BY <1>5, <1>6

\* A checked fill leaves a position and a cash balance that are not negative.
LEMMA AffordableIsEnough ==
    ASSUME NEW f \in Fills, NEW acct \in Accounts, NEW held \in Positions,
           acct.cash >= 0, held.qty >= 0, Affordable(f, acct, held)
    PROVE  CashAfter(f, acct) >= 0 /\ PositionAfter(f, held).qty >= 0
<1>1. /\ f.qty \in Nat \ {0} /\ f.price \in Nat \ {0} /\ Fx[f.sym] \in Nat \ {0}
      /\ f.side \in {"BUY", "SELL"}
      /\ held.qty \in Int /\ acct.cash \in Int
  BY QuantitiesAssumption, PricesAssumption, SymbolsAssumption
     DEF Fills, Sides, Positions, Accounts
<1>2. ValueBase(f) \in Nat
  <2>1. f.qty * f.price \in Nat
    BY <1>1
  <2> QED
    BY <1>1, <2>1 DEF ValueBase
<1>3. CashAfter(f, acct) >= 0
  BY <1>1, <1>2 DEF CashAfter, Affordable
<1>4. PositionAfter(f, held).qty >= 0
  BY <1>1 DEF PositionAfter, Affordable, Flat
<1> QED
  BY <1>3, <1>4

LEMMA ExecuteFillInv ==
    ASSUME IInv, NEW t \in Threads, ExecuteFill(t)
    PROVE  IInv'
<1>1. ThreadsInv /\ StoreInv /\ OutsideInv
  BY IInvParts
<1> DEFINE f == frame[t].fill
           acct == frame[t].acct
           held == frame[t].held
<1>2. /\ frame[t] \in Frames /\ f \in Fills
      /\ acct \in Accounts /\ held \in Positions
      /\ acct.cash >= 0 /\ held.qty >= 0
      /\ GoodFrame(pc[t], frame[t])
  BY <1>1, ThreadFacts
<1>3. {"write", "debit", "log", "reject", "settle"} \subseteq Labels
  BY DEF Labels
<1>4. f.sym \in Symbols /\ f.side \in {"BUY", "SELL"} /\ f.qty \in Nat
  BY <1>2, QuantitiesAssumption DEF Fills, Sides
<1>5. CASE ReadPosition(t)
  <2>1. StoreInv' /\ OutsideInv'
    BY <1>1, <1>5, StoreUnchanged, OutsideUnchanged DEF ReadPosition
  <2>2. CASE Affordable(f, acct, position[f.sym])
    <3> DEFINE g == [frame[t] EXCEPT !.held = position[f.sym]]
    <3>1. position[f.sym] \in Positions /\ position[f.sym].qty >= 0
      BY <1>1, <1>4 DEF StoreInv
    <3>2. /\ g \in Frames /\ g.held = position[f.sym]
          /\ g.acct = acct /\ g.fill = f
      BY <1>2, <3>1 DEF Frames
    <3>3. Goto(t, "write", g)
      BY <1>5, <2>2 DEF ReadPosition
    <3> HIDE DEF g
    <3>4. GoodFrame("write", g)
      BY <1>2, <2>2, <3>1, <3>2 DEF GoodFrame
    <3> QED
      BY <1>1, <1>3, <2>1, <3>2, <3>3, <3>4, GotoInv, IInvPartsNext
  <2>3. CASE ~Affordable(f, acct, position[f.sym])
    <3>1. GoodFrame("reject", frame[t])
      BY <1>2 DEF GoodFrame
    <3>2. Return(t) \/ Goto(t, "reject", frame[t])
      BY <1>5, <2>3 DEF ReadPosition
    <3> QED
      BY <1>1, <1>2, <1>3, <2>1, <3>1, <3>2, GotoInv, ReturnInv, IInvPartsNext
  <2> QED
    BY <2>2, <2>3
<1>6. CASE WritePosition(t)
  <2>1. Affordable(f, acct, held) /\ GoodFrame("debit", frame[t])
    BY <1>2, <1>6 DEF WritePosition, GoodFrame
  <2>2. /\ PositionAfter(f, held) \in Positions
        /\ PositionAfter(f, held).qty >= 0
    BY <1>2, <2>1, FillTypes, AffordableIsEnough
  <2>3. position' = [position EXCEPT ![f.sym] = PositionAfter(f, held)]
    BY <1>6 DEF WritePosition
  <2> HIDE DEF f, held, acct
  <2>4. /\ position' \in [Symbols -> Positions]
        /\ \A s \in Symbols : position'[s].qty >= 0
    BY <1>1, <2>2, <2>3 DEF StoreInv
  <2>5. StoreInv'
    BY <1>1, <1>6, <2>4 DEF WritePosition, StoreInv
  <2>6. ThreadsInv'
    BY <1>1, <1>2, <1>3, <1>6, <2>1, GotoInv DEF WritePosition
  <2> QED
    BY <1>1, <1>6, <2>5, <2>6, OutsideUnchanged, IInvPartsNext
       DEF WritePosition
<1>7. CASE UpdateAccount(t)
  <2>1. Affordable(f, acct, held) /\ GoodFrame("log", frame[t])
    BY <1>2, <1>7 DEF UpdateAccount, GoodFrame
  <2>2. /\ CashAfter(f, acct) \in Int /\ CashAfter(f, acct) >= 0
        /\ RealizedBase(f, held) \in Int
    BY <1>2, <2>1, FillTypes, AffordableIsEnough
  <2>3. account' = [account EXCEPT
            !.cash = CashAfter(f, acct),
            !.realized = acct.realized + RealizedBase(f, held)]
    BY <1>7 DEF UpdateAccount
  <2>4. acct.realized + RealizedBase(f, held) \in Int
    BY <1>2, <2>2 DEF Accounts
  <2>5. account' \in Accounts /\ account'.cash >= 0
    BY <1>1, <2>2, <2>3, <2>4 DEF StoreInv, Accounts
  <2>6. StoreInv'
    BY <1>1, <1>7, <2>5 DEF UpdateAccount, StoreInv
  <2>7. fills' \in [OrderIds -> [count : Nat, day : Int]]
    <3>1. CASE f.order = 0
      BY <1>1, <1>7, <3>1 DEF UpdateAccount, OutsideInv
    <3>2. CASE f.order # 0
      <4>1. f.order \in OrderIds
        BY <1>2, <3>2 DEF Fills
      <4>2. NextWeekday(ticket[f.order].date) \in Int
        BY <1>1, <4>1 DEF StoreInv, Tickets, NextWeekday
      <4>3. fills[f.order].count + 1 \in Nat
        BY <1>1, <4>1 DEF OutsideInv
      <4>4. fills' = [fills EXCEPT ![f.order] =
                        [count |-> @.count + 1,
                         day |-> NextWeekday(ticket[f.order].date)]]
        BY <1>7, <3>2 DEF UpdateAccount
      <4> QED
        BY <1>1, <4>1, <4>2, <4>3, <4>4 DEF OutsideInv
    <3> QED
      BY <3>1, <3>2
  <2>8. OutsideInv'
    BY <1>1, <1>7, <2>7 DEF UpdateAccount, OutsideInv, environment
  <2>9. ThreadsInv'
    BY <1>1, <1>2, <1>3, <1>7, <2>1, GotoInv DEF UpdateAccount
  <2> QED
    BY <2>6, <2>8, <2>9, IInvPartsNext
<1>8. CASE AddTrade(t)
  <2>1. Affordable(f, acct, held) /\ GoodFrame("settle", frame[t])
    BY <1>2, <1>8 DEF AddTrade, GoodFrame
  <2>2. RealizedBase(f, held) \in Int
    BY <1>2, <2>1, FillTypes
  <2>3. ValueBase(f) \in Int
    <3>1. f.qty \in Int /\ f.price \in Int /\ Fx[f.sym] \in Int
      BY <1>2, <1>4, PricesAssumption, SymbolsAssumption DEF Fills
    <3>2. f.qty * f.price \in Int
      BY <3>1
    <3> QED
      BY <3>1, <3>2 DEF ValueBase
  <2>4. log.cash \in Int /\ log.realized \in Int /\ log.qty \in [Symbols -> Int]
    BY <1>1 DEF StoreInv
  <2>5. CashAfter(f, log) \in Int /\ log.realized + RealizedBase(f, held) \in Int
    BY <2>2, <2>3, <2>4 DEF CashAfter
  <2>6. [log.qty EXCEPT ![f.sym] =
            IF f.side = "BUY" THEN @ + f.qty ELSE @ - f.qty] \in [Symbols -> Int]
    BY <1>4, <2>4
  <2>7. log' = [cash |-> CashAfter(f, log),
                realized |-> log.realized + RealizedBase(f, held),
                qty |-> [log.qty EXCEPT ![f.sym] =
                           IF f.side = "BUY" THEN @ + f.qty ELSE @ - f.qty]]
    BY <1>8 DEF AddTrade
  <2>8. log' \in [cash : Int, realized : Int, qty : [Symbols -> Int]]
    BY <2>5, <2>6, <2>7
  <2>9. StoreInv'
    BY <1>1, <1>8, <2>8 DEF AddTrade, StoreInv
  <2>10. ThreadsInv'
    BY <1>1, <1>2, <1>3, <1>8, <2>1, GotoInv, ReturnInv DEF AddTrade
  <2> QED
    BY <1>1, <1>8, <2>9, <2>10, OutsideUnchanged, IInvPartsNext DEF AddTrade
<1> QED
  BY <1>5, <1>6, <1>7, <1>8 DEF ExecuteFill

LEMMA QueuePendingInv ==
    ASSUME IInv, NEW t \in Threads, QueuePending(t)
    PROVE  IInv'
<1>1. ThreadsInv /\ StoreInv /\ OutsideInv
  BY IInvParts
<1>2. /\ frame[t] \in Frames
      /\ frame[t].acct.cash >= 0 /\ frame[t].held.qty >= 0
      /\ frame[t].sym \in Symbols /\ frame[t].side \in Sides
      /\ frame[t].qty \in Quantities /\ frame[t].quote \in Nat
  BY <1>1, ThreadFacts
<1>3. {"enqueue", "promised"} \subseteq Labels
  BY DEF Labels
<1>4. GoodFrame("enqueue", frame[t])
  BY <1>2 DEF GoodFrame
<1>5. CASE CheckReserve(t)
  <2>1. PICK p \in Prices \cup {0} :
          LET est == frame[t].qty * p * Fx[frame[t].sym] IN
          IF est <= frame[t].acct.cash - ReservedCash
          THEN Goto(t, "enqueue", [frame[t] EXCEPT !.quote = est])
          ELSE Return(t)
    BY <1>5 DEF CheckReserve
  <2> DEFINE est == frame[t].qty * p * Fx[frame[t].sym]
             g == [frame[t] EXCEPT !.quote = est]
  <2>2. est \in Nat
    <3>1. frame[t].qty \in Nat /\ p \in Nat /\ Fx[frame[t].sym] \in Nat
      <4>1. frame[t].qty \in Nat
        BY <1>2, QuantitiesAssumption
      <4>2. p \in Nat
        BY <2>1, PricesAssumption
      <4>3. Fx[frame[t].sym] \in Nat
        BY <1>2, SymbolsAssumption
      <4> QED
        BY <4>1, <4>2, <4>3
    <3>2. frame[t].qty * p \in Nat
      BY <3>1
    <3> QED
      BY <3>1, <3>2
  <2>3. Goto(t, "enqueue", g) \/ Return(t)
    BY <2>1
  <2> HIDE DEF est
  <2>4. g \in Frames /\ g.acct = frame[t].acct /\ g.held = frame[t].held
    BY <1>2, <2>2 DEF Frames
  <2> HIDE DEF g
  <2>5. GoodFrame("enqueue", g)
    BY <1>2, <2>4 DEF GoodFrame
  <2>6. ThreadsInv'
    BY <1>1, <1>3, <2>3, <2>4, <2>5, GotoInv, ReturnInv
  <2> QED
    BY <1>1, <1>5, <2>6, StoreUnchanged, OutsideUnchanged, IInvPartsNext
       DEF CheckReserve
<1>6. CASE ReadHeld(t)
  <2> DEFINE g == [frame[t] EXCEPT !.held = position[frame[t].sym]]
  <2>1. /\ position[frame[t].sym] \in Positions
        /\ position[frame[t].sym].qty >= 0
    BY <1>1, <1>2 DEF StoreInv
  <2>2. /\ g \in Frames /\ g.acct = frame[t].acct
        /\ g.held = position[frame[t].sym]
    BY <1>2, <2>1 DEF Frames
  <2>3. Goto(t, "promised", g)
    BY <1>6 DEF ReadHeld
  <2> HIDE DEF g
  <2>4. GoodFrame("promised", g)
    BY <1>2, <2>1, <2>2 DEF GoodFrame
  <2>5. ThreadsInv'
    BY <1>1, <1>3, <2>2, <2>3, <2>4, GotoInv
  <2> QED
    BY <1>1, <1>6, <2>5, StoreUnchanged, OutsideUnchanged, IInvPartsNext
       DEF ReadHeld
<1>7. CASE CheckPromised(t)
  <2>1. ThreadsInv'
    BY <1>1, <1>2, <1>3, <1>4, <1>7, GotoInv, ReturnInv DEF CheckPromised
  <2> QED
    BY <1>1, <1>7, <2>1, StoreUnchanged, OutsideUnchanged, IInvPartsNext
       DEF CheckPromised
<1>8. CASE Enqueue(t)
  <2> DEFINE row == [sym |-> frame[t].sym, side |-> frame[t].side,
                     qty |-> frame[t].qty, reserve |-> frame[t].quote,
                     date |-> TradingDate(clock), placed |-> clock]
  <2>1. row \in Tickets
    BY <1>1, <1>2, CalendarTypes DEF OutsideInv, Tickets
  <2>2. ticket' = [ticket EXCEPT ![nextId] = row]
    BY <1>8 DEF Enqueue
  <2> HIDE DEF row
  <2>3. ticket' \in [OrderIds -> Tickets]
    BY <1>1, <2>1, <2>2 DEF StoreInv
  <2>4. status' \in [OrderIds -> Statuses] /\ nextId' \in Nat \ {0}
    <3>1. status' = [status EXCEPT ![nextId] = "PENDING"] /\ nextId' = nextId + 1
      BY <1>8 DEF Enqueue
    <3>2. status' \in [OrderIds -> Statuses]
      BY <1>1, <3>1 DEF StoreInv, Statuses
    <3>3. nextId' \in Nat \ {0}
      BY <1>1, <3>1 DEF StoreInv
    <3> QED
      BY <3>2, <3>3
  <2>5. StoreInv'
    BY <1>1, <1>8, <2>3, <2>4 DEF Enqueue, StoreInv
  <2>6. ThreadsInv'
    BY <1>1, <1>8, ReturnInv DEF Enqueue
  <2> QED
    BY <1>1, <1>8, <2>5, <2>6, OutsideUnchanged, IInvPartsNext DEF Enqueue
<1> QED
  BY <1>5, <1>6, <1>7, <1>8 DEF QueuePending

LEMMA CancelResetInv ==
    ASSUME IInv, NEW t \in Threads, Lookup(t) \/ MarkCancelled(t) \/ Reset(t)
    PROVE  IInv'
<1>1. ThreadsInv /\ StoreInv /\ OutsideInv
  BY IInvParts
<1>2. /\ frame[t] \in Frames
      /\ frame[t].acct.cash >= 0 /\ frame[t].held.qty >= 0
  BY <1>1, ThreadFacts
<1>3. "mark" \in Labels /\ "idle" \in Returns /\ "list" \in Returns
  BY DEF Labels, Returns
<1>4. GoodFrame("mark", frame[t])
  BY <1>2 DEF GoodFrame
<1>5. CASE Lookup(t)
  <2>1. ThreadsInv'
    BY <1>1, <1>2, <1>3, <1>4, <1>5, GotoInv, ReturnInv DEF Lookup
  <2> QED
    BY <1>1, <1>5, <2>1, StoreUnchanged, OutsideUnchanged, IInvPartsNext
       DEF Lookup
<1>6. CASE MarkCancelled(t)
  <2>1. ThreadsInv'
    BY <1>1, <1>2, <1>3, <1>6, CallAccountInv DEF MarkCancelled
  <2>2. StoreInv'
    BY <1>1, <1>6, SetStatusInv DEF MarkCancelled, Statuses
  <2> QED
    BY <1>1, <1>6, <2>1, <2>2, OutsideUnchanged, IInvPartsNext
       DEF MarkCancelled
<1>7. CASE Reset(t)
  <2>1. ThreadsInv'
    BY <1>1, <1>2, <1>3, <1>7, CallAccountInv DEF Reset
  <2>2. StoreInv'
    BY <1>1, <1>7, WipeInv DEF Reset
  <2> QED
    BY <1>1, <1>7, <2>1, <2>2, OutsideUnchanged, IInvPartsNext DEF Reset
<1> QED
  BY <1>5, <1>6, <1>7

LEMMA EnvironmentInv ==
    ASSUME IInv, Tick \/ Crash \/ \E s \in Symbols : Refresh(s)
    PROVE  IInv'
<1>1. ThreadsInv /\ StoreInv /\ OutsideInv
  BY IInvParts
<1>2. CASE Tick
  <2>1. StoreInv' /\ ThreadsInv'
    BY <1>1, <1>2, StoreUnchanged DEF Tick, ThreadsInv
  <2>2. clock' \in Instants
    BY <1>1, <1>2, CalendarTypes DEF Tick, OutsideInv
  <2>3. OutsideInv'
    BY <1>1, <1>2, <2>2 DEF Tick, OutsideInv
  <2> QED
    BY <2>1, <2>3, IInvPartsNext
<1>3. CASE Crash
  <2>1. StoreInv' /\ OutsideInv'
    BY <1>1, <1>3, StoreUnchanged DEF Crash, OutsideInv, environment
  <2>2. GoodFrame("idle", BlankFrame)
    BY BlankTypes, BlankFrameGood
  <2>3. ThreadsInv'
    BY <1>3, <2>2, BlankTypes DEF Crash, ThreadsInv
  <2> QED
    BY <2>1, <2>3, IInvPartsNext
<1>4. CASE \E s \in Symbols : Refresh(s)
  <2>1. PICK s \in Symbols : Refresh(s)
    BY <1>4
  <2>2. StoreInv' /\ ThreadsInv'
    BY <1>1, <2>1, StoreUnchanged DEF Refresh, ThreadsInv
  <2>3. cached' \in [Symbols -> Int]
    BY <1>1, <2>1, CalendarTypes DEF Refresh, OutsideInv
  <2>4. OutsideInv'
    BY <1>1, <2>1, <2>3 DEF Refresh, OutsideInv
  <2> QED
    BY <2>2, <2>4, IInvPartsNext
<1> QED
  BY <1>2, <1>3, <1>4

-----------------------------------------------------------------------------

LEMMA InitIInv == Init => IInv
<1> SUFFICES ASSUME Init PROVE IInv
  OBVIOUS
<1>1. FreshAccount \in Accounts /\ FreshAccount.cash >= 0
  BY MoneyAssumption DEF FreshAccount, Accounts
<1>2. account \in Accounts /\ account.cash >= 0
  <2>1. CASE account = FreshAccount
    BY <1>1, <2>1
  <2>2. CASE \E c \in 0..InitialCash :
               account = [cash |-> c, realized |-> 0, legacy |-> TRUE]
    BY <2>2, MoneyAssumption DEF Accounts
  <2> QED
    BY <2>1, <2>2 DEF Init
<1>3. /\ Flat \in Positions /\ Flat.qty >= 0
      /\ EmptyLog \in [cash : Int, realized : Int, qty : [Symbols -> Int]]
  BY DEF Flat, Positions, EmptyLog
<1>4. StoreInv
  BY <1>2, <1>3, BlankTypes DEF Init, StoreInv, Statuses
<1>5. GoodFrame("idle", BlankFrame)
  BY BlankTypes, BlankFrameGood
<1>6. ThreadsInv
  BY <1>5, BlankTypes DEF Init, ThreadsInv
<1>7. clock \in Instants
  BY ClockAssumption DEF Init, Instants
<1>8. cached \in [Symbols -> Int]
  BY <1>7 DEF Init, Instants, PreviousWeekday
<1>9. OutsideInv
  BY <1>7, <1>8 DEF Init, OutsideInv
<1> QED
  BY <1>4, <1>6, <1>9, IInvParts

LEMMA NextIInv == IInv /\ [Next]_vars => IInv'
<1> SUFFICES ASSUME IInv, [Next]_vars PROVE IInv'
  OBVIOUS
<1>1. CASE UNCHANGED vars
  BY <1>1 DEF vars, store, environment, IInv, TypeOK, NonNegative
<1>2. CASE \E t \in Threads : Start(t) \/ Run(t)
  <2>1. PICK t \in Threads : Start(t) \/ Run(t)
    BY <1>2
  <2> QED
    BY <2>1, StartInv, AccountInv, SettleInv, RouteInv, ExecuteFillInv,
       QueuePendingInv, CancelResetInv DEF Run
<1>3. CASE Tick \/ Crash \/ \E s \in Symbols : Refresh(s)
  BY <1>3, EnvironmentInv
<1> QED
  BY <1>1, <1>2, <1>3 DEF Next

\* Tables, threads and history keep their types, for every number of threads,
\* symbols and requests.
THEOREM TypeCorrect == Spec => []TypeOK
<1>1. IInv => TypeOK
  BY DEF IInv
<1> QED
  BY <1>1, InitIInv, NextIInv, PTL DEF Spec

\* No interleaving of requests, and no crash, overdraws the account or leaves
\* a position short: _execute_fill only writes what it has just checked.
THEOREM NeverNegative == Spec => []NonNegative
<1>1. IInv => NonNegative
  BY DEF IInv
<1> QED
  BY <1>1, InitIInv, NextIInv, PTL DEF Spec

-----------------------------------------------------------------------------
(* No order trades on a price known when it was queued.  Every row is dated *)
(* before the session that it waits for, and no thread has an id that is    *)
(* still to be given.                                                       *)

\* The locals f name ids that have been given.
OldFrame(f) ==
    /\ \A o \in f.todo : o < nextId
    /\ f.fill.order # 0 => f.fill.order < nextId
    /\ f.order # 0 => f.order < nextId

FramesOld == \A t \in Threads : OldFrame(frame[t])

\* An order waits for a session that opens after the instant it was queued.
Dated == \A o \in OrderIds : OpensAfter(NextWeekday(ticket[o].date), ticket[o].placed)

\* Only given ids have a status and fills, and these are of the order's session.
Given ==
    \A o \in OrderIds :
        /\ status[o] # "NONE" => o < nextId
        /\ fills[o].count > 0 => o < nextId /\ fills[o].day = NextWeekday(ticket[o].date)

LookInv == Dated /\ Given /\ FramesOld

\* The weekday after a trading date opens after any instant that has the date.
LEMMA NextSessionOpensLater ==
    ASSUME NEW now \in Instants
    PROVE  OpensAfter(NextWeekday(TradingDate(now)), now)
<1>1. now.day \in Int /\ now.phase \in Phases
  BY DEF Instants
<1>2. CASE IsWeekday(now.day) /\ now.phase # "EARLY"
  BY <1>1, <1>2 DEF TradingDate, NextWeekday, OpensAfter
<1>3. CASE IsWeekday(now.day) /\ now.phase = "EARLY"
  <2>1. NextWeekday(PreviousWeekday(now.day)) >= now.day
    BY <1>1, <1>3 DEF NextWeekday, PreviousWeekday, IsWeekday
  <2>2. NextWeekday(PreviousWeekday(now.day)) \in Int
    BY <1>1 DEF NextWeekday, PreviousWeekday
  <2> QED
    BY <1>1, <1>3, <2>1, <2>2 DEF TradingDate, OpensAfter
<1>4. CASE ~IsWeekday(now.day)
  <2>1. NextWeekday(PreviousWeekday(now.day)) > now.day
    BY <1>1, <1>4 DEF NextWeekday, PreviousWeekday, IsWeekday
  <2> QED
    BY <1>1, <1>4, <2>1 DEF TradingDate, OpensAfter
<1> QED
  BY <1>2, <1>3, <1>4

\* A thread without a row holds no id that is yet to be given.
LEMMA BlankOld == OldFrame(BlankFrame)
BY DEF OldFrame, BlankFrame, BlankFill

\* A thread that goes on with locals that name given ids.
LEMMA GotoOld ==
    ASSUME TypeOK, FramesOld, nextId' = nextId,
           NEW t \in Threads, NEW l, NEW f, OldFrame(f), Goto(t, l, f)
    PROVE  FramesOld'
<1> SUFFICES ASSUME NEW u \in Threads PROVE OldFrame(frame[u])'
  BY DEF FramesOld
<1>1. frame'[u] = f \/ frame'[u] = frame[u]
  BY DEF Goto, TypeOK
<1>2. OldFrame(frame'[u])
  BY <1>1 DEF FramesOld
<1> QED
  BY <1>2 DEF OldFrame

LEMMA ReturnOld ==
    ASSUME TypeOK, FramesOld, nextId' = nextId, NEW t \in Threads, Return(t)
    PROVE  FramesOld'
BY BlankOld, GotoOld DEF Return

LEMMA CallAccountOld ==
    ASSUME TypeOK, FramesOld, nextId' = nextId,
           NEW t \in Threads, NEW l, NEW f \in Frames, OldFrame(f), CallAccount(t, l, f)
    PROVE  FramesOld'
<1> DEFINE g == [f EXCEPT !.ret = l]
<1>1. g.todo = f.todo /\ g.fill = f.fill /\ g.order = f.order
  BY DEF Frames
<1>2. Goto(t, "acct", g)
  BY DEF CallAccount
<1> HIDE DEF g
<1>3. OldFrame(g)
  BY <1>1 DEF OldFrame
<1> QED
  BY <1>2, <1>3, GotoOld

\* An update of a status, or a wipe, gives no id.
LEMMA TablesOld ==
    ASSUME TypeOK, Dated, Given, UNCHANGED <<ticket, nextId, fills>>,
           \A o \in OrderIds : status'[o] # "NONE" => o < nextId
    PROVE  Dated' /\ Given'
BY DEF TypeOK, Dated, Given

LEMMA SetStatusOld ==
    ASSUME TypeOK, Dated, Given, UNCHANGED <<ticket, nextId, fills>>,
           NEW o, NEW st, o \in OrderIds => o < nextId, SetStatus(o, st)
    PROVE  Dated' /\ Given'
<1>1. \A p \in OrderIds : status'[p] # "NONE" => p < nextId
  BY DEF TypeOK, Given, SetStatus
<1> QED
  BY <1>1, TablesOld

LEMMA WipeOld ==
    ASSUME TypeOK, Dated, Given, Wipe, UNCHANGED fills
    PROVE  Dated' /\ Given' /\ nextId' = nextId
<1>1. \A p \in OrderIds : status'[p] # "NONE" => p < nextId
  BY DEF Given, Wipe
<1> QED
  BY <1>1, TablesOld DEF Wipe

\* What most steps leave alone.
ordersAndFills == <<status, ticket, nextId, fills>>

\* What was placed and filled stays in order while neither changes.
LEMMA QuietOld ==
    ASSUME Dated, Given, UNCHANGED ordersAndFills
    PROVE  Dated' /\ Given' /\ nextId' = nextId
BY DEF Dated, Given, ordersAndFills

\* What every action needs of the thread that takes it.
LEMMA OldFacts ==
    ASSUME TypeOK, FramesOld, NEW t \in Threads
    PROVE  frame[t] \in Frames /\ OldFrame(frame[t])
BY DEF TypeOK, FramesOld

LEMMA StartLook ==
    ASSUME TypeOK, LookInv, NEW t \in Threads, Start(t)
    PROVE  LookInv'
<1>1. Dated /\ Given /\ FramesOld /\ BlankFrame \in Frames
  BY BlankTypes DEF LookInv
<1>2. UNCHANGED ordersAndFills
  BY DEF Start, StartPoll, StartPreview, StartPlace, StartCancel, StartReset, Receive,
     store, ordersAndFills
<1>3. Dated' /\ Given' /\ nextId' = nextId
  BY <1>1, <1>2, QuietOld
<1>4. FramesOld'
  <2>1. CASE StartPoll(t)
    BY <1>1, <1>3, <2>1, BlankOld, CallAccountOld DEF StartPoll
  <2>2. CASE StartPreview(t)
    <3> DEFINE f == [BlankFrame EXCEPT !.op = "preview"]
    <3>1. f \in Frames /\ OldFrame(f)
      BY <1>1, BlankOld DEF Frames, Ops, OldFrame
    <3>2. CallAccount(t, "idle", f)
      BY <2>2 DEF StartPreview
    <3> HIDE DEF f
    <3> QED
      BY <1>1, <1>3, <3>1, <3>2, CallAccountOld
  <2>3. CASE StartPlace(t)
    <3>1. PICK s \in Symbols, side \in Sides, q \in Quantities, limit \in BOOLEAN :
            Goto(t, "list", [BlankFrame EXCEPT !.op = "place", !.sym = s,
                                !.side = side, !.qty = q, !.limit = limit])
      BY <2>3 DEF StartPlace
    <3> DEFINE f == [BlankFrame EXCEPT !.op = "place", !.sym = s,
                        !.side = side, !.qty = q, !.limit = limit]
    <3>2. OldFrame(f)
      BY <1>1, BlankOld DEF Frames, OldFrame
    <3>3. Goto(t, "list", f)
      BY <3>1
    <3> HIDE DEF f
    <3> QED
      BY <1>1, <1>3, <3>2, <3>3, GotoOld
  <2>4. CASE StartCancel(t)
    <3>1. PICK o \in OrderIds :
            o < nextId /\ CallAccount(t, "lookup", [BlankFrame EXCEPT !.op = "cancel", !.order = o])
      BY <2>4 DEF StartCancel
    <3> DEFINE f == [BlankFrame EXCEPT !.op = "cancel", !.order = o]
    <3>2. f \in Frames /\ OldFrame(f)
      BY <1>1, <3>1, BlankOld DEF Frames, Ops, OldFrame
    <3>3. CallAccount(t, "lookup", f)
      BY <3>1
    <3> HIDE DEF f
    <3> QED
      BY <1>1, <1>3, <3>2, <3>3, CallAccountOld
  <2>5. CASE StartReset(t)
    <3> DEFINE f == [BlankFrame EXCEPT !.op = "reset"]
    <3>1. OldFrame(f)
      BY <1>1, BlankOld DEF Frames, OldFrame
    <3>2. Goto(t, "clear", f)
      BY <2>5 DEF StartReset
    <3> HIDE DEF f
    <3> QED
      BY <1>1, <1>3, <3>1, <3>2, GotoOld
  <2> QED
    BY <2>1, <2>2, <2>3, <2>4, <2>5 DEF Start
<1> QED
  BY <1>3, <1>4 DEF LookInv

LEMMA SettleLook ==
    ASSUME TypeOK, LookInv, NEW t \in Threads, Settle(t)
    PROVE  LookInv'
<1>1. Dated /\ Given /\ FramesOld
  BY DEF LookInv
<1>2. frame[t] \in Frames /\ OldFrame(frame[t]) /\ frame[t].todo \in SUBSET OrderIds
  BY <1>1, OldFacts DEF Frames
<1>3. CASE ListPending(t)
  <2> DEFINE f == [frame[t] EXCEPT !.todo = Pending]
  <2>1. OldFrame(f)
    BY <1>1, <1>2 DEF OldFrame, Frames, Pending, Given
  <2>2. Goto(t, "settle", f) /\ UNCHANGED ordersAndFills
    BY <1>3 DEF ListPending, store, ordersAndFills
  <2> HIDE DEF f
  <2> QED
    BY <1>1, <2>1, <2>2, QuietOld, GotoOld DEF LookInv
<1>4. CASE SettleSkip(t)
  <2> DEFINE f == [frame[t] EXCEPT !.todo = @ \ {Min(frame[t].todo)}]
  <2>1. OldFrame(f)
    BY <1>2 DEF OldFrame, Frames
  <2>2. Goto(t, "settle", f) /\ UNCHANGED ordersAndFills
    BY <1>4 DEF SettleSkip, store, ordersAndFills
  <2> HIDE DEF f
  <2> QED
    BY <1>1, <2>1, <2>2, QuietOld, GotoOld DEF LookInv
<1>5. CASE SettleMark(t)
  <2> DEFINE o == Min(frame[t].todo)
  <2>1. o \in frame[t].todo
    BY <1>2, <1>5, MinIsMember DEF SettleMark
  <2>2. o \in OrderIds /\ o < nextId
    BY <1>2, <2>1 DEF OldFrame
  <2>3. SetStatus(o, "FILLED") /\ UNCHANGED <<ticket, nextId, fills>>
    BY <1>5 DEF SettleMark
  <2>4. PICK p \in Prices :
          CallAccount(t, "pos", [frame[t] EXCEPT !.todo = @ \ {o},
             !.fill = [sym |-> ticket[o].sym, side |-> ticket[o].side,
                       qty |-> ticket[o].qty, price |-> p, order |-> o]])
    BY <1>5 DEF SettleMark
  <2> HIDE DEF o
  <2> DEFINE fill == [sym |-> ticket[o].sym, side |-> ticket[o].side,
                      qty |-> ticket[o].qty, price |-> p, order |-> o]
             f == [frame[t] EXCEPT !.todo = @ \ {o}, !.fill = fill]
  <2>5. fill \in Fills
    BY <2>2, <2>4 DEF TypeOK, Tickets, Fills
  <2>6. fill.order = o
    OBVIOUS
  <2>7. CallAccount(t, "pos", f)
    BY <2>4
  <2> HIDE DEF fill
  <2>8. f \in Frames /\ OldFrame(f)
    BY <1>2, <2>2, <2>5, <2>6 DEF Frames, OldFrame
  <2> HIDE DEF f
  <2>9. Dated' /\ Given'
    BY <1>1, <2>2, <2>3, SetStatusOld
  <2>10. FramesOld'
    BY <1>1, <2>3, <2>7, <2>8, CallAccountOld
  <2> QED
    BY <2>9, <2>10 DEF LookInv
<1>6. CASE SettleDone(t)
  <2>1. UNCHANGED ordersAndFills
    BY <1>6 DEF SettleDone, store, ordersAndFills
  <2>2. Dated' /\ Given' /\ nextId' = nextId
    BY <1>1, <2>1, QuietOld
  <2>3. Goto(t, "route", frame[t]) \/ Return(t)
    BY <1>6 DEF SettleDone
  <2> QED
    BY <1>1, <1>2, <2>2, <2>3, GotoOld, ReturnOld DEF LookInv
<1>7. CASE SettleReject(t)
  <2>1. frame[t].fill.order \in OrderIds => frame[t].fill.order < nextId
    BY <1>2, BoundsAssumption DEF OldFrame, OrderIds
  <2>2. Dated' /\ Given'
    BY <1>1, <1>7, <2>1, SetStatusOld DEF SettleReject
  <2> QED
    BY <1>1, <1>2, <1>7, <2>2, GotoOld DEF SettleReject, LookInv
<1> QED
  BY <1>3, <1>4, <1>5, <1>6, <1>7 DEF Settle

\* Every step of a handler that only moves its thread on with the ids that it has.
LEMMA RestLook ==
    ASSUME TypeOK, LookInv, NEW t \in Threads,
           \/ ReadAccount(t) \/ RouteToQueue(t) \/ RouteToFill(t)
           \/ ReadPosition(t) \/ WritePosition(t) \/ AddTrade(t)
           \/ CheckReserve(t) \/ ReadHeld(t) \/ CheckPromised(t) \/ Lookup(t)
    PROVE  LookInv'
<1>1. Dated /\ Given /\ FramesOld
  BY DEF LookInv
<1>2. frame[t] \in Frames /\ OldFrame(frame[t])
  BY <1>1, OldFacts
<1>3. UNCHANGED ordersAndFills
  BY DEF ReadAccount, RouteToQueue, RouteToFill, ReadPosition, WritePosition, AddTrade,
     CheckReserve, ReadHeld, CheckPromised, Lookup, store, ordersAndFills
<1>4. Dated' /\ Given' /\ nextId' = nextId
  BY <1>1, <1>3, QuietOld
<1>5. CASE ReadAccount(t)
  <2> DEFINE g == [frame[t] EXCEPT !.acct = account]
  <2>1. OldFrame(g)
    BY <1>2 DEF OldFrame, Frames
  <2>2. Goto(t, "migrate", frame[t]) \/ Return(t) \/ Goto(t, frame[t].ret, g)
    BY <1>5 DEF ReadAccount
  <2> HIDE DEF g
  <2> QED
    BY <1>1, <1>2, <1>4, <2>1, <2>2, GotoOld, ReturnOld DEF LookInv
<1>6. CASE RouteToQueue(t)
  BY <1>1, <1>2, <1>4, <1>6, CallAccountOld DEF RouteToQueue, LookInv
<1>7. CASE RouteToFill(t)
  <2>1. CASE Return(t)
    BY <1>1, <1>4, <2>1, ReturnOld DEF LookInv
  <2>2. CASE ~Return(t)
    <3>1. PICK p \in Prices :
            CallAccount(t, "pos", [frame[t] EXCEPT
                !.fill = [sym |-> frame[t].sym, side |-> frame[t].side,
                          qty |-> frame[t].qty, price |-> p, order |-> 0]])
      BY <1>7, <2>2 DEF RouteToFill
    <3> DEFINE fill == [sym |-> frame[t].sym, side |-> frame[t].side,
                        qty |-> frame[t].qty, price |-> p, order |-> 0]
               f == [frame[t] EXCEPT !.fill = fill]
    <3>2. fill \in Fills /\ fill.order = 0
      BY <1>2 DEF Frames, Fills
    <3>3. CallAccount(t, "pos", f)
      BY <3>1
    <3> HIDE DEF fill
    <3>4. f \in Frames /\ OldFrame(f)
      BY <1>2, <3>2 DEF Frames, OldFrame
    <3> HIDE DEF f
    <3> QED
      BY <1>1, <1>4, <3>3, <3>4, CallAccountOld DEF LookInv
  <2> QED
    BY <2>1, <2>2
<1>8. CASE ReadPosition(t)
  <2> DEFINE g == [frame[t] EXCEPT !.held = position[frame[t].fill.sym]]
  <2>1. OldFrame(g)
    BY <1>2 DEF OldFrame, Frames
  <2>2. Goto(t, "write", g) \/ Return(t) \/ Goto(t, "reject", frame[t])
    BY <1>8 DEF ReadPosition
  <2> HIDE DEF g
  <2> QED
    BY <1>1, <1>2, <1>4, <2>1, <2>2, GotoOld, ReturnOld DEF LookInv
<1>9. CASE WritePosition(t) \/ AddTrade(t)
  <2>1. Goto(t, "debit", frame[t]) \/ Goto(t, "settle", frame[t]) \/ Return(t)
    BY <1>9 DEF WritePosition, AddTrade
  <2> QED
    BY <1>1, <1>2, <1>4, <2>1, GotoOld, ReturnOld DEF LookInv
<1>10. CASE CheckReserve(t)
  <2>1. PICK est : Goto(t, "enqueue", [frame[t] EXCEPT !.quote = est]) \/ Return(t)
    BY <1>10 DEF CheckReserve
  <2> DEFINE g == [frame[t] EXCEPT !.quote = est]
  <2>2. OldFrame(g)
    BY <1>2 DEF OldFrame, Frames
  <2>3. Goto(t, "enqueue", g) \/ Return(t)
    BY <2>1
  <2> HIDE DEF g
  <2> QED
    BY <1>1, <1>4, <2>2, <2>3, GotoOld, ReturnOld DEF LookInv
<1>11. CASE ReadHeld(t)
  <2> DEFINE g == [frame[t] EXCEPT !.held = position[frame[t].sym]]
  <2>1. OldFrame(g)
    BY <1>2 DEF OldFrame, Frames
  <2>2. Goto(t, "promised", g)
    BY <1>11 DEF ReadHeld
  <2> HIDE DEF g
  <2> QED
    BY <1>1, <1>4, <2>1, <2>2, GotoOld DEF LookInv
<1>12. CASE CheckPromised(t) \/ Lookup(t)
  <2>1. Goto(t, "enqueue", frame[t]) \/ Goto(t, "mark", frame[t]) \/ Return(t)
    BY <1>12 DEF CheckPromised, Lookup
  <2> QED
    BY <1>1, <1>2, <1>4, <2>1, GotoOld, ReturnOld DEF LookInv
<1> QED
  BY <1>5, <1>6, <1>7, <1>8, <1>9, <1>10, <1>11, <1>12

\* A wipe, a cancellation, or a fill.
LEMMA TablesLook ==
    ASSUME TypeOK, LookInv, NEW t \in Threads,
           Migrate(t) \/ Reset(t) \/ MarkCancelled(t) \/ UpdateAccount(t)
    PROVE  LookInv'
<1>1. Dated /\ Given /\ FramesOld
  BY DEF LookInv
<1>2. frame[t] \in Frames /\ OldFrame(frame[t])
  BY <1>1, OldFacts
<1>3. CASE Migrate(t) \/ Reset(t)
  <2>1. Wipe /\ UNCHANGED fills
    BY <1>3 DEF Migrate, Reset
  <2>2. Dated' /\ Given' /\ nextId' = nextId
    BY <1>1, <2>1, WipeOld
  <2>3. Goto(t, "acct", frame[t]) \/ CallAccount(t, "list", frame[t])
    BY <1>3 DEF Migrate, Reset
  <2> QED
    BY <1>1, <1>2, <2>2, <2>3, GotoOld, CallAccountOld DEF LookInv
<1>4. CASE MarkCancelled(t)
  <2>1. frame[t].order \in OrderIds => frame[t].order < nextId
    BY <1>2, BoundsAssumption DEF OldFrame, OrderIds
  <2>2. Dated' /\ Given'
    BY <1>1, <1>4, <2>1, SetStatusOld DEF MarkCancelled
  <2>3. FramesOld'
    BY <1>1, <1>2, <1>4, CallAccountOld DEF MarkCancelled
  <2> QED
    BY <2>2, <2>3 DEF LookInv
<1>5. CASE UpdateAccount(t)
  <2> DEFINE f == frame[t].fill
  <2>1. f.order \in OrderIds \cup {0} /\ (f.order # 0 => f.order < nextId)
    BY <1>2 DEF Frames, Fills, OldFrame
  <2>2. fills' = IF f.order = 0 THEN fills
                 ELSE [fills EXCEPT ![f.order] =
                         [count |-> @.count + 1, day |-> NextWeekday(ticket[f.order].date)]]
    BY <1>5 DEF UpdateAccount
  <2>3. UNCHANGED <<status, ticket, nextId>> /\ Goto(t, "log", frame[t])
    BY <1>5 DEF UpdateAccount
  <2> HIDE DEF f
  <2>4. Given'
    <3> SUFFICES ASSUME NEW o \in OrderIds
                 PROVE  /\ status[o] # "NONE" => o < nextId
                        /\ fills'[o].count > 0 => o < nextId /\ fills'[o].day = NextWeekday(ticket[o].date)
      BY <2>3 DEF Given
    <3>1. CASE f.order = o
      BY <1>1, <2>1, <2>2, <3>1, BoundsAssumption DEF Given, TypeOK, OrderIds
    <3>2. CASE f.order # o
      BY <1>1, <2>2, <3>2 DEF Given, TypeOK
    <3> QED
      BY <3>1, <3>2
  <2>5. Dated'
    BY <1>1, <2>3 DEF Dated
  <2>6. FramesOld'
    BY <1>1, <1>2, <2>3, GotoOld
  <2> QED
    BY <2>4, <2>5, <2>6 DEF LookInv
<1> QED
  BY <1>3, <1>4, <1>5

\* A new row is dated by the clock at its insertion, and nobody had its id.
LEMMA EnqueueLook ==
    ASSUME TypeOK, LookInv, NEW t \in Threads, Enqueue(t)
    PROVE  LookInv'
<1>1. Dated /\ Given /\ FramesOld
  BY DEF LookInv
<1> DEFINE row == [sym |-> frame[t].sym, side |-> frame[t].side,
                   qty |-> frame[t].qty, reserve |-> frame[t].quote,
                   date |-> TradingDate(clock), placed |-> clock]
<1>2. /\ ticket' = [ticket EXCEPT ![nextId] = row]
      /\ status' = [status EXCEPT ![nextId] = "PENDING"]
      /\ nextId' = nextId + 1 /\ Return(t) /\ UNCHANGED fills
  BY DEF Enqueue
<1>3. row.date = TradingDate(clock) /\ row.placed = clock
  OBVIOUS
<1> HIDE DEF row
<1>4. OpensAfter(NextWeekday(row.date), row.placed)
  BY <1>3, NextSessionOpensLater DEF TypeOK
<1>5. Dated'
  BY <1>1, <1>2, <1>4 DEF Dated, TypeOK
<1>6. nextId \in Nat /\ OrderIds \subseteq Nat
  BY BoundsAssumption DEF TypeOK, OrderIds
<1>7. Given'
  <2> SUFFICES ASSUME NEW o \in OrderIds
               PROVE  /\ status'[o] # "NONE" => o < nextId'
                      /\ fills[o].count > 0 => o < nextId' /\ fills[o].day = NextWeekday(ticket'[o].date)
    BY <1>2 DEF Given
  <2>1. CASE o = nextId
    BY <1>1, <1>2, <1>6, <2>1 DEF Given
  <2>2. CASE o # nextId
    <3>1. status'[o] = status[o] /\ ticket'[o] = ticket[o]
      BY <1>2, <2>2 DEF TypeOK
    <3> QED
      BY <1>1, <1>2, <1>6, <3>1 DEF Given
  <2> QED
    BY <2>1, <2>2
<1>8. FramesOld'
  <2> SUFFICES ASSUME NEW u \in Threads PROVE OldFrame(frame[u])'
    BY DEF FramesOld
  <2>1. frame'[u] = BlankFrame \/ frame'[u] = frame[u]
    BY <1>2 DEF Return, Goto, TypeOK
  <2>2. OldFrame(frame'[u]) /\ frame'[u] \in Frames
    BY <1>1, <2>1, BlankOld, BlankTypes DEF FramesOld, TypeOK
  <2>3. /\ frame'[u].todo \in SUBSET OrderIds
        /\ frame'[u].fill.order \in OrderIds \cup {0} /\ frame'[u].order \in OrderIds \cup {0}
    BY <2>2 DEF Frames, Fills
  <2> QED
    BY <1>2, <1>6, <2>2, <2>3 DEF OldFrame
<1> QED
  BY <1>5, <1>7, <1>8 DEF LookInv

LEMMA EnvironmentLook ==
    ASSUME TypeOK, LookInv, Tick \/ Crash \/ \E s \in Symbols : Refresh(s)
    PROVE  LookInv'
<1>1. Dated /\ Given /\ FramesOld
  BY DEF LookInv
<1>2. UNCHANGED ordersAndFills
  BY DEF Tick, Crash, Refresh, store, ordersAndFills
<1>3. Dated' /\ Given' /\ nextId' = nextId
  BY <1>1, <1>2, QuietOld
<1>4. FramesOld'
  <2> SUFFICES ASSUME NEW u \in Threads PROVE OldFrame(frame[u])'
    BY DEF FramesOld
  <2>1. frame'[u] = BlankFrame \/ frame'[u] = frame[u]
    BY DEF Tick, Crash, Refresh
  <2> QED
    BY <1>1, <1>3, <2>1, BlankOld DEF FramesOld, OldFrame
<1> QED
  BY <1>3, <1>4 DEF LookInv

LEMMA InitLook == Init => LookInv
<1> SUFFICES ASSUME Init PROVE LookInv
  OBVIOUS
<1>1. Dated
  <2>1. \A o \in OrderIds : ticket[o] = BlankTicket
    BY DEF Init
  <2>2. OpensAfter(NextWeekday(BlankTicket.date), BlankTicket.placed)
    BY DEF BlankTicket, OpensAfter, NextWeekday, IsWeekday
  <2> QED
    BY <2>1, <2>2 DEF Dated
<1>2. Given
  BY DEF Init, Given
<1>3. FramesOld
  BY BlankOld DEF Init, FramesOld
<1> QED
  BY <1>1, <1>2, <1>3 DEF LookInv

LEMMA NextLook == TypeOK /\ LookInv /\ [Next]_vars => LookInv'
<1> SUFFICES ASSUME TypeOK, LookInv, [Next]_vars PROVE LookInv'
  OBVIOUS
<1>1. CASE UNCHANGED vars
  BY <1>1 DEF vars, store, LookInv, Dated, Given, FramesOld, OldFrame
<1>2. CASE \E t \in Threads : Start(t) \/ Run(t)
  <2>1. PICK t \in Threads : Start(t) \/ Run(t)
    BY <1>2
  <2> QED
    BY <2>1, StartLook, SettleLook, RestLook, TablesLook, EnqueueLook
       DEF Run, ExecuteFill, QueuePending
<1>3. CASE Tick \/ Crash \/ \E s \in Symbols : Refresh(s)
  BY <1>3, EnvironmentLook
<1> QED
  BY <1>1, <1>2, <1>3 DEF Next

\* However requests interleave, settle and die, an order fills at the open of a
\* session that opens after the instant it was queued.
THEOREM FillsAreLater == Spec => []NoLookAhead
<1>1. LookInv => NoLookAhead
  BY DEF LookInv, Dated, Given, NoLookAhead
<1> QED
  BY <1>1, TypeCorrect, InitLook, NextLook, PTL DEF Spec


-----------------------------------------------------------------------------
(* Sums over a finite set, which do not depend on the order of summation.   *)

\* g adds up h over every subset of S, whichever element comes last.
Adds(g, h, S) ==
    /\ g \in [SUBSET S -> Int] /\ g[{}] = 0
    /\ \A T \in SUBSET S : \A x \in T : g[T] = h[x] + g[T \ {x}]

\* The element that the recursion of MapThenFoldSet takes off.
Last(T) == CHOOSE x \in T : TRUE

\* A set of subsets of a finite set has a least one.
LEMMA LeastSubset ==
    ASSUME NEW S, IsFiniteSet(S), NEW Bad \in SUBSET SUBSET S, Bad # {}
    PROVE  \E T \in Bad : \A x \in T : T \ {x} \notin Bad
<1>1. IsWellFoundedOn(StrictSubsetOrdering(S), FiniteSubsetsOf(S))
  BY FS_StrictSubsetOrderingWellFounded
<1>2. Bad \subseteq FiniteSubsetsOf(S)
  BY FS_Subset DEF FiniteSubsetsOf
<1>3. PICK T \in Bad : \A X \in Bad : ~(<<X, T>> \in StrictSubsetOrdering(S))
  BY <1>1, <1>2, WFMin, Zenon
<1>4. ASSUME NEW x \in T, T \ {x} \in Bad PROVE FALSE
  <2>1. <<T \ {x}, T>> \in StrictSubsetOrdering(S)
    BY <1>4 DEF StrictSubsetOrdering
  <2> QED
    BY <1>3, <1>4, <2>1
<1> QED
  BY <1>4

\* Whatever is added, there is a table of the sums of the subsets of a finite set.
LEMMA AddsExists ==
    ASSUME NEW S, IsFiniteSet(S), NEW h \in [S -> Int]
    PROVE  \E g : Adds(g, h, S)
<1> DEFINE Bad == {T \in SUBSET S : ~\E g : Adds(g, h, T)}
<1>1. SUFFICES ASSUME Bad # {} PROVE FALSE
  OBVIOUS
<1>2. PICK T \in Bad : \A x \in T : T \ {x} \notin Bad
  <2>1. Bad \in SUBSET SUBSET S
    OBVIOUS
  <2> HIDE DEF Bad
  <2> QED
    BY <1>1, <2>1, LeastSubset
<1>3. CASE T = {}
  <2> DEFINE g == [X \in SUBSET T |-> 0]
  <2>1. Adds(g, h, T)
    BY <1>3 DEF Adds
  <2> QED
    BY <1>2, <2>1
<1>4. CASE T # {}
  <2>1. PICK a \in T : TRUE
    BY <1>4
  <2>2. PICK old : Adds(old, h, T \ {a})
    BY <1>2, <2>1
  <2> DEFINE g == [X \in SUBSET T |-> IF a \in X THEN h[a] + old[X \ {a}] ELSE old[X]]
  <2>3. /\ old \in [SUBSET (T \ {a}) -> Int] /\ old[{}] = 0 /\ h[a] \in Int
        /\ \A X \in SUBSET (T \ {a}) : \A x \in X : old[X] = h[x] + old[X \ {x}]
    BY <1>2, <2>1, <2>2 DEF Adds
  <2>4. g \in [SUBSET T -> Int] /\ g[{}] = 0
    BY <2>3
  <2>5. ASSUME NEW X \in SUBSET T, NEW x \in X PROVE g[X] = h[x] + g[X \ {x}]
    <3>1. CASE a \notin X
      <4>1. X \in SUBSET (T \ {a}) /\ X \ {x} \in SUBSET T /\ a \notin X \ {x}
        BY <3>1
      <4>2. g[X] = old[X] /\ g[X \ {x}] = old[X \ {x}]
        BY <3>1, <4>1
      <4> QED
        BY <2>3, <4>1, <4>2
    <3>2. CASE x = a
      <4>1. X \ {x} \in SUBSET T /\ a \notin X \ {x}
        BY <3>2
      <4>2. g[X] = h[a] + old[X \ {a}] /\ g[X \ {x}] = old[X \ {x}]
        BY <3>2, <4>1
      <4> QED
        BY <3>2, <4>2
    <3>3. CASE a \in X /\ x # a
      <4>1. X \ {a} \in SUBSET (T \ {a}) /\ x \in X \ {a} /\ X \ {x} \in SUBSET T /\ a \in X \ {x}
            /\ (X \ {x}) \ {a} = (X \ {a}) \ {x} /\ (X \ {a}) \ {x} \in SUBSET (T \ {a})
        BY <3>3
      <4>2. g[X] = h[a] + old[X \ {a}] /\ g[X \ {x}] = h[a] + old[(X \ {a}) \ {x}]
        BY <3>3, <4>1
      <4>3. old[X \ {a}] = h[x] + old[(X \ {a}) \ {x}]
        BY <2>3, <4>1
      <4>4. h[x] \in Int /\ old[(X \ {a}) \ {x}] \in Int /\ h[a] \in Int
        BY <1>2, <2>3, <4>1
      <4> HIDE DEF g
      <4> QED
        BY <4>2, <4>3, <4>4
    <3> QED
      BY <3>1, <3>2, <3>3
  <2>6. Adds(g, h, T)
    <3> HIDE DEF g
    <3> QED
      BY <2>4, <2>5 DEF Adds
  <2> QED
    BY <1>2, <2>6
<1> QED
  BY <1>3, <1>4

\* The recursive definition of a sum computes it.
LEMMA TableAdds ==
    ASSUME NEW S, IsFiniteSet(S), NEW h \in [S -> Int], NEW g, Adds(g, h, S), NEW table,
           \A T \in SUBSET S :
              table[T] = IF T = {} THEN 0
                         ELSE h[Last(T)] + table[T \ {Last(T)}]
    PROVE  table[S] = g[S]
<1> DEFINE Bad == {T \in SUBSET S : table[T] # g[T]}
<1>1. SUFFICES ASSUME Bad # {} PROVE FALSE
  OBVIOUS
<1>2. PICK T \in Bad : \A x \in T : T \ {x} \notin Bad
  <2>1. Bad \in SUBSET SUBSET S
    OBVIOUS
  <2> HIDE DEF Bad
  <2> QED
    BY <1>1, <2>1, LeastSubset
<1>3. CASE T = {}
  <2>1. table[T] = 0
    BY <1>2, <1>3
  <2> QED
    BY <1>2, <1>3, <2>1 DEF Adds
<1>4. CASE T # {}
  <2>1. PICK x \in T : x = Last(T)
    BY <1>4 DEF Last
  <2>2. table[T] = h[x] + table[T \ {x}]
    BY <1>2, <1>4, <2>1
  <2>3. table[T \ {x}] = g[T \ {x}]
    BY <1>2, <2>1
  <2> QED
    BY <1>2, <2>1, <2>2, <2>3 DEF Adds
<1> QED
  BY <1>3, <1>4

\* ... and is a definition: there is such a table.
LEMMA TableExists ==
    ASSUME NEW S, IsFiniteSet(S), NEW h \in [S -> Int], NEW g, Adds(g, h, S), NEW T \in SUBSET S
    PROVE  g[T] = IF T = {} THEN 0
                  ELSE h[Last(T)] + g[T \ {Last(T)}]
<1>1. CASE T = {}
  BY <1>1 DEF Adds
<1>2. CASE T # {}
  <2>1. PICK x \in T : x = Last(T)
    BY <1>2 DEF Last
  <2> QED
    BY <1>2, <2>1 DEF Adds
<1> QED
  BY <1>1, <1>2

\* The sum of the reservations of a set of orders.
LEMMA ReserveSum ==
    ASSUME NEW S, IsFiniteSet(S), NEW tk, \A o \in S : tk[o].reserve \in Int,
           NEW g, Adds(g, [o \in S |-> tk[o].reserve], S)
    PROVE  MapThenSumSet(LAMBDA o : tk[o].reserve, S) = g[S]
<1> DEFINE h == [o \in S |-> tk[o].reserve]
           Step(i) == [T \in SUBSET S |-> IF T = {} THEN 0 ELSE tk[Last(T)].reserve + i[T \ {Last(T)}]]
           table == CHOOSE i : i = Step(i)
<1>1. MapThenSumSet(LAMBDA o : tk[o].reserve, S) = table[S]
  BY Zenon DEF MapThenSumSet, MapThenFoldSet, Last
<1>2. h \in [S -> Int] /\ Adds(g, h, S) /\ \A T \in SUBSET S : T # {} => h[Last(T)] = tk[Last(T)].reserve
  BY DEF Last
<1> HIDE DEF h
<1>3. g = Step(g)
  <2>1. \A T \in SUBSET S : g[T] = IF T = {} THEN 0 ELSE h[Last(T)] + g[T \ {Last(T)}]
    BY <1>2, TableExists
  <2>2. \A T \in SUBSET S : g[T] = IF T = {} THEN 0 ELSE tk[Last(T)].reserve + g[T \ {Last(T)}]
    BY <1>2, <2>1
  <2>3. g = [T \in SUBSET S |-> g[T]]
    BY <1>2 DEF Adds
  <2> QED
    BY <2>2, <2>3
<1>4. table = Step(table)
  <2> HIDE DEF Step
  <2> QED
    BY <1>3
<1> HIDE DEF table
<1>5. \A T \in SUBSET S : table[T] = IF T = {} THEN 0 ELSE h[Last(T)] + table[T \ {Last(T)}]
  <2>1. \A T \in SUBSET S : Step(table)[T] = IF T = {} THEN 0 ELSE tk[Last(T)].reserve + table[T \ {Last(T)}]
    OBVIOUS
  <2> HIDE DEF Step
  <2> QED
    BY <1>2, <1>4, <2>1
<1>6. table[S] = g[S]
  BY <1>2, <1>5, TableAdds
<1> QED
  BY <1>1, <1>6

\* ... and of the quantities.
LEMMA QuantitySum ==
    ASSUME NEW S, IsFiniteSet(S), NEW tk, \A o \in S : tk[o].qty \in Int,
           NEW g, Adds(g, [o \in S |-> tk[o].qty], S)
    PROVE  MapThenSumSet(LAMBDA o : tk[o].qty, S) = g[S]
<1> DEFINE h == [o \in S |-> tk[o].qty]
           Step(i) == [T \in SUBSET S |-> IF T = {} THEN 0 ELSE tk[Last(T)].qty + i[T \ {Last(T)}]]
           table == CHOOSE i : i = Step(i)
<1>1. MapThenSumSet(LAMBDA o : tk[o].qty, S) = table[S]
  BY Zenon DEF MapThenSumSet, MapThenFoldSet, Last
<1>2. h \in [S -> Int] /\ Adds(g, h, S) /\ \A T \in SUBSET S : T # {} => h[Last(T)] = tk[Last(T)].qty
  BY DEF Last
<1> HIDE DEF h
<1>3. g = Step(g)
  <2>1. \A T \in SUBSET S : g[T] = IF T = {} THEN 0 ELSE h[Last(T)] + g[T \ {Last(T)}]
    BY <1>2, TableExists
  <2>2. \A T \in SUBSET S : g[T] = IF T = {} THEN 0 ELSE tk[Last(T)].qty + g[T \ {Last(T)}]
    BY <1>2, <2>1
  <2>3. g = [T \in SUBSET S |-> g[T]]
    BY <1>2 DEF Adds
  <2> QED
    BY <2>2, <2>3
<1>4. table = Step(table)
  <2> HIDE DEF Step
  <2> QED
    BY <1>3
<1> HIDE DEF table
<1>5. \A T \in SUBSET S : table[T] = IF T = {} THEN 0 ELSE h[Last(T)] + table[T \ {Last(T)}]
  <2>1. \A T \in SUBSET S : Step(table)[T] = IF T = {} THEN 0 ELSE tk[Last(T)].qty + table[T \ {Last(T)}]
    OBVIOUS
  <2> HIDE DEF Step
  <2> QED
    BY <1>2, <1>4, <2>1
<1>6. table[S] = g[S]
  BY <1>2, <1>5, TableAdds
<1> QED
  BY <1>1, <1>6

-----------------------------------------------------------------------------
(* One thread at a time.  When the requests come one after the other, the    *)
(* several commits of a handler add up to one step of the ledger, and the    *)
(* copies in the locals are the rows.                                        *)

\* Thread t is in the pass over the pending orders, or in a fill.
Settling(t) == pc[t] = "settle" \/ Filling(t)

\* The fill is of an order that is marked FILLED, at the bar that it waited for.
Marked(fill) ==
    LET o == fill.order IN
    /\ status[o] = "FILLED" /\ NextWeekday(ticket[o].date) <= cached[ticket[o].sym]
    /\ fill.sym = ticket[o].sym /\ fill.side = ticket[o].side /\ fill.qty = ticket[o].qty

\* What is left of the pass is still pending, and what is in a fill is marked.
Passes(t) ==
    /\ frame[t].todo \subseteq Pending
    /\ ~Settling(t) => frame[t].todo = {}
    /\ pc[t] = "mark" => frame[t].order \in OrderIds /\ status[frame[t].order] = "PENDING"
    /\ Filling(t) /\ frame[t].fill.order # 0 => Marked(frame[t].fill)

\* Nothing has been ordered on a legacy account, and no request got past _account.
Legacy(t) ==
    /\ pc[t] = "migrate" => account.legacy
    /\ account.legacy =>
         /\ \A o \in OrderIds : status[o] = "NONE"
         /\ pc[t] \notin {"pos", "write", "debit", "log", "reject", "reserve", "held",
                          "promised", "enqueue", "mark"}

\* Where thread t will be when _account is done with.
Bound(t) == IF pc[t] \in {"acct", "migrate"} THEN frame[t].ret ELSE pc[t]

Copies(t) ==
    LET f == frame[t] IN
    /\ pc[t] \in {"pos", "write", "debit", "reserve"} => f.acct = account
    /\ pc[t] = "write" => f.held = position[f.fill.sym]
    /\ pc[t] = "debit" => position[f.fill.sym] = PositionAfter(f.fill, f.held)
    /\ pc[t] = "reject" => f.fill.order # 0 /\ ~Affordable(f.fill, account, position[f.fill.sym])
    /\ Bound(t) = "reserve" => f.side = "BUY"
    /\ Bound(t) \in {"held", "promised"} => f.side = "SELL"
    /\ Bound(t) = "lookup" => f.order \in OrderIds
    /\ pc[t] = "promised" => f.held = position[f.sym]
    /\ pc[t] = "enqueue" =>
         \/ f.side = "BUY" /\ f.quote <= account.cash - ReservedCash
         \/ f.side = "SELL" /\ f.qty <= position[f.sym].qty - PromisedQty(f.sym)

\* An order that has traded is not to be traded again.
Once(t) ==
    /\ \A o \in OrderIds :
         /\ fills[o].count <= 1
         /\ status[o] \in {"NONE", "PENDING"} => fills[o].count = 0
    /\ InFlight(t) /\ pc[t] # "reject" /\ frame[t].fill.order # 0 => fills[frame[t].fill.order].count = 0

SerialInv(t) == Passes(t) /\ Legacy(t) /\ Copies(t) /\ Once(t)

\* What the fill in hand has changed in the account and the log has not.
Sold(f) == IF f.side = "BUY" THEN f.qty ELSE -f.qty

Books(t) ==
    LET f == frame[t].fill IN
    ~account.legacy =>
      /\ pc[t] # "log" => account.cash = InitialCash + log.cash /\ account.realized = log.realized
      /\ pc[t] = "log" => /\ account.cash = InitialCash + CashAfter(f, log)
                          /\ account.realized = log.realized + RealizedBase(f, frame[t].held)
      /\ \A s \in Symbols :
           position[s].qty = IF pc[t] \in {"debit", "log"} /\ f.sym = s THEN log.qty[s] + Sold(f) ELSE log.qty[s]

Shows(t, o) == InFlight(t) /\ frame[t].fill.order = o

\* How the ledger's book and shares are seen in the tables and the one thread's locals.
LEMMA LedgerIs ==
    ASSUME NEW t, Threads = {t}
    PROVE  /\ LedgerBook = [o \in OrderIds |-> IF Shows(t, o) THEN "PENDING" ELSE status[o]]
           /\ LedgerShares = [s \in Symbols |-> IF pc[t] = "debit" /\ frame[t].fill.sym = s
                                                THEN frame[t].held.qty ELSE position[s].qty]
<1>1. pc[t] = "debit" => (CHOOSE u \in Threads : pc[u] = "debit") = t
  OBVIOUS
<1> QED
  BY <1>1 DEF LedgerBook, LedgerShares, Shows

LEMMA LedgerIsNext ==
    ASSUME NEW t, Threads = {t}
    PROVE  /\ LedgerBook' = [o \in OrderIds |-> IF Shows(t, o)' THEN "PENDING" ELSE status'[o]]
           /\ LedgerShares' = [s \in Symbols |-> IF pc'[t] = "debit" /\ frame'[t].fill.sym = s
                                                 THEN frame'[t].held.qty ELSE position'[s].qty]
<1>1. pc'[t] = "debit" => (CHOOSE u \in Threads : pc'[u] = "debit") = t
  OBVIOUS
<1> QED
  BY <1>1 DEF LedgerBook, LedgerShares, Shows

\* The sums over the pending orders are functions of the tables.
Reserves(st, tk) ==
    MapThenSumSet(LAMBDA o : tk[o].reserve, {o \in {p \in OrderIds : st[p] = "PENDING"} : tk[o].side = "BUY"})
Promises(st, tk, s) ==
    MapThenSumSet(LAMBDA o : tk[o].qty,
                  {o \in {p \in OrderIds : st[p] = "PENDING"} : tk[o].side = "SELL" /\ tk[o].sym = s})

\* What is reserved and promised is a sum over the pending orders only.
LEMMA SumsAre ==
    /\ ReservedCash = Reserves(status, ticket) /\ ReservedCash' = Reserves(status', ticket')
    /\ \A s : PromisedQty(s) = Promises(status, ticket, s) /\ PromisedQty(s)' = Promises(status', ticket', s)
<1>1. ReservedCash = Reserves(status, ticket) /\ ReservedCash' = Reserves(status', ticket')
  BY Zenon DEF ReservedCash, Reserves, Pending, MapThenSumSet, MapThenFoldSet
<1>2. ASSUME NEW s PROVE PromisedQty(s) = Promises(status, ticket, s) /\ PromisedQty(s)' = Promises(status', ticket', s)
  BY Zenon DEF PromisedQty, Promises, Pending, MapThenSumSet, MapThenFoldSet
<1> QED
  BY <1>1, <1>2

\* Such a sum is a number.
LEMMA SumsTyped ==
    ASSUME TypeOK
    PROVE  ReservedCash \in Int /\ \A s : PromisedQty(s) \in Int
<1>1. ASSUME NEW S \in SUBSET OrderIds
      PROVE  /\ IsFiniteSet(S)
             /\ \A o \in S : ticket[o].reserve \in Int /\ ticket[o].qty \in Int
  <2>1. IsFiniteSet(OrderIds)
    BY FS_Interval, BoundsAssumption DEF OrderIds
  <2>2. \A o \in S : ticket[o].reserve \in Nat /\ ticket[o].qty \in Nat \ {0}
    BY QuantitiesAssumption DEF TypeOK, Tickets
  <2> QED
    BY <2>1, <2>2, FS_Subset
<1>2. ASSUME NEW S \in SUBSET OrderIds PROVE MapThenSumSet(LAMBDA o : ticket[o].reserve, S) \in Int
  <2> DEFINE h == [o \in S |-> ticket[o].reserve]
  <2>1. PICK g : Adds(g, h, S)
    BY <1>1, AddsExists
  <2>2. MapThenSumSet(LAMBDA o : ticket[o].reserve, S) = g[S]
    BY <1>1, <2>1, ReserveSum
  <2> QED
    BY <2>1, <2>2 DEF Adds
<1>3. ASSUME NEW S \in SUBSET OrderIds PROVE MapThenSumSet(LAMBDA o : ticket[o].qty, S) \in Int
  <2> DEFINE h == [o \in S |-> ticket[o].qty]
  <2>1. PICK g : Adds(g, h, S)
    BY <1>1, AddsExists
  <2>2. MapThenSumSet(LAMBDA o : ticket[o].qty, S) = g[S]
    BY <1>1, <2>1, QuantitySum
  <2> QED
    BY <2>1, <2>2 DEF Adds
<1>4. ReservedCash \in Int
  BY <1>2 DEF ReservedCash, Pending
<1>5. ASSUME NEW s PROVE PromisedQty(s) \in Int
  BY <1>3 DEF PromisedQty, Pending
<1> QED
  BY <1>4, <1>5

\* And it stays while the orders do.
LEMMA SumsStay ==
    ASSUME UNCHANGED <<status, ticket>>
    PROVE  Pending' = Pending /\ ReservedCash' = ReservedCash /\ \A s : PromisedQty(s)' = PromisedQty(s)
<1>1. Pending' = Pending
  BY DEF Pending
<1> QED
  BY <1>1, SumsAre

\* What a step of thread t does for the ledger and its invariants.
Carries(t) == SerialInv(t)' /\ (Books(t) => Books(t)') /\ [Ledger!Next]_(Ledger!ledger)

\* The thread moves on, and neither the tables nor what is in a fill change.
LEMMA Quiet ==
    ASSUME NEW t, Threads = {t}, SerialInv(t),
           UNCHANGED <<account, position, status, ticket, log, cached, fills>>,
           pc[t] \notin {"debit", "log"}, pc'[t] \notin {"debit", "log"},
           pc[t] = "reject" => pc'[t] = "reject",
           \A o \in OrderIds : Shows(t, o)' <=> Shows(t, o),
           frame'[t] \in Frames,
           Passes(t)', Legacy(t)', Copies(t)'
    PROVE  Carries(t)
<1>1. Once(t)'
  <2>1. frame'[t].fill.order \in OrderIds \cup {0}
    BY DEF Frames, Fills
  <2>2. InFlight(t)' /\ pc'[t] # "reject" /\ frame'[t].fill.order # 0 => fills'[frame'[t].fill.order].count = 0
    <3> SUFFICES ASSUME InFlight(t)', pc'[t] # "reject", frame'[t].fill.order # 0
                 PROVE  fills[frame'[t].fill.order].count = 0
      OBVIOUS
    <3>1. Shows(t, frame'[t].fill.order) /\ pc[t] # "reject"
      BY <2>1 DEF Shows
    <3> QED
      BY <3>1 DEF SerialInv, Once, Shows
  <2> QED
    BY <2>2 DEF SerialInv, Once
<1>2. Books(t) => Books(t)'
  BY DEF Books
<1>3. UNCHANGED Ledger!ledger
  <2>1. LedgerBook' = LedgerBook /\ LedgerShares' = LedgerShares
    BY LedgerIs, LedgerIsNext
  <2> QED
    BY <2>1 DEF Ledger!ledger, LedgerCash
<1> QED
  BY <1>1, <1>2, <1>3 DEF Carries, SerialInv

\* A request begins, with nothing in its locals yet.
LEMMA StartCarries ==
    ASSUME NEW t, Threads = {t}, IInv, IInv', SerialInv(t), Start(t)
    PROVE  Carries(t)
<1>1. UNCHANGED <<account, position, status, ticket, nextId, log, cached, fills>> /\ pc[t] = "idle"
  BY DEF Start, StartPoll, StartPreview, StartPlace, StartCancel, StartReset, Receive, store, environment
<1>2. BlankFrame.todo = {} /\ BlankFrame.fill.order = 0 /\ BlankFrame \in Frames /\ BlankFrame.ret = "idle"
  BY BlankTypes DEF BlankFrame, BlankFill
<1>3. frame'[t].todo = {} /\ frame'[t].fill.order = 0 /\ pc'[t] \in {"acct", "list", "clear"}
      /\ (pc'[t] = "acct" => frame'[t].ret \in {"list", "idle", "lookup"})
      /\ (frame'[t].ret = "lookup" => frame'[t].order \in OrderIds)
  <2>1. CASE StartPoll(t)
    <3>1. pc'[t] = "acct" /\ frame'[t] = [BlankFrame EXCEPT !.ret = "list"]
      BY <2>1 DEF StartPoll, CallAccount, Goto, IInv, TypeOK
    <3> QED
      BY <1>2, <3>1 DEF Frames
  <2>2. CASE StartPreview(t)
    <3>1. pc'[t] = "acct" /\ frame'[t] = [[BlankFrame EXCEPT !.op = "preview"] EXCEPT !.ret = "idle"]
      BY <2>2 DEF StartPreview, CallAccount, Goto, IInv, TypeOK
    <3> QED
      BY <1>2, <3>1 DEF Frames
  <2>3. CASE StartPlace(t)
    <3>1. PICK s \in Symbols, side \in Sides, q \in Quantities, limit \in BOOLEAN :
            Goto(t, "list", [BlankFrame EXCEPT !.op = "place", !.sym = s,
                                !.side = side, !.qty = q, !.limit = limit])
      BY <2>3 DEF StartPlace
    <3>2. pc'[t] = "list" /\ frame'[t] = [BlankFrame EXCEPT !.op = "place", !.sym = s,
                                             !.side = side, !.qty = q, !.limit = limit]
      BY <3>1 DEF Goto, IInv, TypeOK
    <3> QED
      BY <1>2, <3>2 DEF Frames
  <2>4. CASE StartCancel(t)
    <3>1. PICK o \in OrderIds : pc'[t] = "acct" /\ frame'[t] = [[BlankFrame EXCEPT !.op = "cancel", !.order = o] EXCEPT !.ret = "lookup"]
      BY <2>4 DEF StartCancel, CallAccount, Goto, IInv, TypeOK
    <3> QED
      BY <1>2, <3>1 DEF Frames
  <2>5. CASE StartReset(t)
    <3>1. pc'[t] = "clear" /\ frame'[t] = [BlankFrame EXCEPT !.op = "reset"]
      BY <2>5 DEF StartReset, Goto, IInv, TypeOK
    <3> QED
      BY <1>2, <3>1 DEF Frames
  <2> QED
    BY <2>1, <2>2, <2>3, <2>4, <2>5 DEF Start
<1>4. \A o \in OrderIds : Shows(t, o)' <=> Shows(t, o)
  BY <1>1, <1>3 DEF Shows, InFlight, Filling
<1>5. Passes(t)'
  BY <1>1, <1>3 DEF Passes, Settling, Filling, Pending
<1>6. Legacy(t)' /\ Copies(t)'
  BY <1>1, <1>3 DEF Legacy, Copies, Bound, SerialInv
<1>7. frame'[t] \in Frames
  BY DEF IInv, TypeOK
<1> QED
  BY <1>1, <1>3, <1>4, <1>5, <1>6, <1>7, Quiet

\* _account, before it wipes a legacy row.
LEMMA ReadAccountCarries ==
    ASSUME NEW t, Threads = {t}, IInv, IInv', SerialInv(t), ReadAccount(t)
    PROVE  Carries(t)
<1>1. UNCHANGED <<account, position, status, ticket, nextId, log, cached, fills>> /\ pc[t] = "acct"
      /\ frame[t] \in Frames /\ frame'[t] \in Frames
  BY DEF ReadAccount, store, environment, IInv, TypeOK
<1>2. \/ account.legacy = TRUE /\ pc'[t] = "migrate" /\ frame'[t] = frame[t]
      \/ account.legacy = FALSE /\ frame[t].ret = "idle" /\ pc'[t] = "idle" /\ frame'[t] = BlankFrame
      \/ account.legacy = FALSE /\ frame[t].ret # "idle" /\ pc'[t] = frame[t].ret
         /\ frame'[t] = [frame[t] EXCEPT !.acct = account]
  BY DEF ReadAccount, Return, Goto, IInv, TypeOK, Accounts
<1>3. CASE account.legacy = TRUE /\ pc'[t] = "migrate" /\ frame'[t] = frame[t]
  <2>1. \A o \in OrderIds : Shows(t, o)' <=> Shows(t, o)
    BY <1>1, <1>3 DEF Shows, InFlight, Filling
  <2>2. Passes(t)'
    BY <1>1, <1>3 DEF SerialInv, Passes, Settling, Filling, Pending, Marked
  <2>3. Legacy(t)' /\ Copies(t)'
    BY <1>1, <1>3 DEF SerialInv, Legacy, Copies, Bound
  <2> QED
    BY <1>1, <1>3, <2>1, <2>2, <2>3, Quiet
<1>4. CASE frame[t].ret = "idle" /\ pc'[t] = "idle" /\ frame'[t] = BlankFrame /\ account.legacy = FALSE
  <2>1. \A o \in OrderIds : Shows(t, o)' <=> Shows(t, o)
    BY <1>1, <1>4 DEF Shows, InFlight, Filling
  <2>2. Passes(t)'
    BY <1>1, <1>4 DEF Passes, Settling, Filling, BlankFrame
  <2>3. Legacy(t)' /\ Copies(t)'
    BY <1>1, <1>4 DEF Legacy, Copies, Bound
  <2> QED
    BY <1>1, <1>4, <2>1, <2>2, <2>3, Quiet
<1>5. CASE account.legacy = FALSE /\ pc'[t] = frame[t].ret /\ frame[t].ret # "idle"
           /\ frame'[t] = [frame[t] EXCEPT !.acct = account]
  <2>1. PICK g : /\ g = frame'[t] /\ g.todo = frame[t].todo /\ g.fill = frame[t].fill /\ g.acct = account
                 /\ g.side = frame[t].side /\ g.ret = frame[t].ret /\ g.order = frame[t].order
                 /\ pc'[t] \in {"list", "pos", "reserve", "held", "lookup"}
    BY <1>1, <1>5 DEF Frames, Returns
  <2>2. \A o \in OrderIds : Shows(t, o)' <=> Shows(t, o)
    BY <1>1, <1>5, <2>1 DEF Shows, InFlight, Filling
  <2>3. Passes(t)'
    BY <1>1, <1>5, <2>1 DEF SerialInv, Passes, Settling, Filling, Pending, Marked
  <2>4. Legacy(t)' /\ Copies(t)'
    BY <1>1, <1>5, <2>1 DEF SerialInv, Legacy, Copies, Bound
  <2> QED
    BY <1>1, <2>1, <2>2, <2>3, <2>4, Quiet
<1> QED
  BY <1>2, <1>3, <1>4, <1>5

\* A wipe, of an account with nothing in a fill.
LEMMA WipeCarries ==
    ASSUME NEW t, Threads = {t}, IInv, IInv', SerialInv(t), Migrate(t) \/ Reset(t)
    PROVE  Carries(t)
<1>1. Wipe /\ UNCHANGED <<cached, fills, ticket>> /\ frame[t] \in Frames /\ frame'[t] \in Frames
  BY DEF Migrate, Reset, environment, Wipe, IInv, TypeOK
<1>2. /\ pc[t] \in {"migrate", "clear"} /\ pc'[t] = "acct"
      /\ \/ pc[t] = "migrate" /\ frame'[t] = frame[t]
         \/ pc[t] = "clear" /\ frame'[t] = [frame[t] EXCEPT !.ret = "list"]
  BY DEF Migrate, Reset, CallAccount, Goto, IInv, TypeOK
<1>3. PICK g : /\ g = frame'[t] /\ g.todo = frame[t].todo /\ g.fill = frame[t].fill /\ g.side = frame[t].side
               /\ g.ret \in Returns /\ g.order = frame[t].order
               /\ (pc[t] = "migrate" => g.ret = frame[t].ret) /\ (pc[t] = "clear" => g.ret = "list")
  BY <1>1, <1>2 DEF Frames
<1>4. account' = FreshAccount /\ position' = [s \in Symbols |-> Flat] /\ log' = EmptyLog
      /\ status' = [o \in OrderIds |-> IF status[o] = "NONE" THEN "NONE" ELSE "DELETED"]
  BY <1>1 DEF Wipe
<1>5. frame[t].todo = {} /\ (Filling(t) => frame[t].fill.order \notin OrderIds)
  <2>1. CASE pc[t] = "clear"
    BY <2>1 DEF SerialInv, Passes, Settling, Filling
  <2>2. CASE pc[t] = "migrate"
    <3>1. \A o \in OrderIds : status[o] = "NONE"
      BY <2>2 DEF SerialInv, Legacy
    <3>2. 0 \notin OrderIds
      BY BoundsAssumption DEF OrderIds
    <3> QED
      BY <3>1, <3>2 DEF SerialInv, Passes, Pending, Marked
  <2> QED
    BY <1>2, <2>1, <2>2
<1>6. frame[t].fill.order \in OrderIds \cup {0}
  BY <1>1 DEF Frames, Fills
<1>7. Filling(t)' => Filling(t)
  BY <1>2, <1>3 DEF Filling
<1>8. \A o \in OrderIds : ~Shows(t, o) /\ ~Shows(t, o)'
  BY <1>3, <1>5, <1>7 DEF Shows, InFlight
<1>9. Passes(t)'
  <2>1. frame'[t].todo = {} /\ (Filling(t)' => frame'[t].fill.order = 0) /\ pc'[t] # "mark"
    BY <1>2, <1>3, <1>5, <1>6, <1>7
  <2> QED
    BY <2>1 DEF Passes
<1>10. Legacy(t)' /\ Copies(t)'
  BY <1>2, <1>3, <1>4 DEF SerialInv, Legacy, Copies, Bound, FreshAccount
<1>11. Once(t)'
  <2>1. InFlight(t)' => frame'[t].fill.order = 0
    BY <1>3, <1>5, <1>6, <1>7 DEF InFlight
  <2>2. \A o \in OrderIds : status'[o] \in {"NONE", "PENDING"} => status[o] = "NONE"
    BY <1>4
  <2> QED
    BY <1>1, <2>1, <2>2 DEF SerialInv, Once
<1>12. Books(t)'
  BY <1>2, <1>4, MoneyAssumption DEF Books, FreshAccount, EmptyLog, Flat
<1>13. Ledger!Restart
  <2>1. LedgerCash' = InitialCash
    BY <1>4 DEF LedgerCash, FreshAccount
  <2>2. LedgerShares' = [s \in Symbols |-> 0]
    BY <1>2, <1>4, LedgerIsNext DEF Flat
  <2>3. LedgerBook' = [o \in OrderIds |-> IF LedgerBook[o] = "NONE" THEN "NONE" ELSE "DELETED"]
    BY <1>4, <1>8, LedgerIs, LedgerIsNext
  <2> QED
    BY <1>1, <2>1, <2>2, <2>3 DEF Ledger!Restart
<1> QED
  BY <1>9, <1>10, <1>11, <1>12, <1>13 DEF Carries, SerialInv, Ledger!Next

\* The thread returns its answer.
LEMMA ReturnCarries ==
    ASSUME NEW t, Threads = {t}, IInv, IInv', SerialInv(t), Return(t),
           UNCHANGED <<account, position, status, ticket, nextId, log, cached, fills>>,
           pc[t] \notin {"debit", "log", "reject"}, \A o \in OrderIds : ~Shows(t, o)
    PROVE  Carries(t)
<1>1. pc'[t] = "idle" /\ frame'[t] = BlankFrame /\ frame'[t] \in Frames
  BY DEF Return, Goto, IInv, TypeOK
<1>2. \A o \in OrderIds : Shows(t, o)' <=> Shows(t, o)
  BY <1>1 DEF Shows, InFlight, Filling
<1>3. Passes(t)'
  BY <1>1 DEF Passes, Settling, Filling, BlankFrame
<1>4. Legacy(t)' /\ Copies(t)'
  BY <1>1 DEF SerialInv, Legacy, Copies, Bound
<1> QED
  BY <1>1, <1>2, <1>3, <1>4, Quiet

\* The pass over the pending orders, up to the fill of one.
LEMMA ListCarries ==
    ASSUME NEW t, Threads = {t}, IInv, IInv', SerialInv(t), ListPending(t) \/ SettleSkip(t) \/ SettleDone(t)
    PROVE  Carries(t)
<1>1. UNCHANGED <<account, position, status, ticket, nextId, log, cached, fills>>
      /\ pc[t] \in {"list", "settle"} /\ frame[t] \in Frames /\ frame'[t] \in Frames
  BY DEF ListPending, SettleSkip, SettleDone, store, environment, IInv, TypeOK
<1>2. \A o \in OrderIds : ~Shows(t, o)
  BY <1>1 DEF Shows, InFlight, Filling
<1>3. \/ pc'[t] = "settle" /\ frame'[t] = [frame[t] EXCEPT !.todo = Pending]
      \/ \E o : pc[t] = "settle" /\ pc'[t] = "settle" /\ frame'[t] = [frame[t] EXCEPT !.todo = frame[t].todo \ {o}]
      \/ pc[t] = "settle" /\ frame[t].todo = {} /\ pc'[t] = "route" /\ frame'[t] = frame[t]
      \/ Return(t)
  BY DEF ListPending, SettleSkip, SettleDone, Goto, IInv, TypeOK
<1>4. CASE Return(t)
  BY <1>1, <1>2, <1>4, ReturnCarries
<1>5. CASE ~Return(t)
  <2>1. PICK g : /\ g = frame'[t] /\ g.todo \subseteq Pending /\ g.side = frame[t].side /\ g.ret = frame[t].ret
                 /\ pc'[t] \in {"settle", "route"} /\ (pc'[t] = "route" => g.todo = {})
    <3>1. frame[t].todo \subseteq Pending
      BY DEF SerialInv, Passes
    <3>2. CASE pc'[t] = "settle" /\ frame'[t] = [frame[t] EXCEPT !.todo = Pending]
      BY <1>1, <3>2 DEF Frames
    <3>3. CASE \E o : pc'[t] = "settle" /\ frame'[t] = [frame[t] EXCEPT !.todo = frame[t].todo \ {o}]
      <4>1. PICK o : pc'[t] = "settle" /\ frame'[t] = [frame[t] EXCEPT !.todo = frame[t].todo \ {o}]
        BY <3>3
      <4>2. frame'[t].todo = frame[t].todo \ {o} /\ frame'[t].side = frame[t].side /\ frame'[t].ret = frame[t].ret
        BY <1>1, <4>1 DEF Frames
      <4> QED
        BY <3>1, <4>1, <4>2
    <3>4. CASE frame[t].todo = {} /\ pc'[t] = "route" /\ frame'[t] = frame[t]
      BY <3>4
    <3> QED
      BY <1>3, <1>5, <3>2, <3>3, <3>4
  <2>2. \A o \in OrderIds : Shows(t, o)' <=> Shows(t, o)
    BY <1>2, <2>1 DEF Shows, InFlight, Filling
  <2>3. Passes(t)'
    BY <1>1, <2>1 DEF Passes, Settling, Filling, Pending
  <2>4. Legacy(t)' /\ Copies(t)'
    BY <1>1, <2>1 DEF SerialInv, Legacy, Copies, Bound
  <2> QED
    BY <1>1, <2>1, <2>2, <2>3, <2>4, Quiet
<1> QED
  BY <1>4, <1>5

\* An order is marked, and its fill begins: the ledger does not see it yet.
LEMMA MarkCarries ==
    ASSUME NEW t, Threads = {t}, IInv, IInv', SerialInv(t), SettleMark(t)
    PROVE  Carries(t)
<1>1. UNCHANGED <<account, position, ticket, nextId, log, cached, fills>>
      /\ pc[t] = "settle" /\ frame[t] \in Frames /\ frame'[t] \in Frames
  BY DEF SettleMark, environment, IInv, TypeOK
<1>2. PICK o : /\ o \in frame[t].todo /\ o \in OrderIds /\ BarAvailable(o) /\ SetStatus(o, "FILLED")
               /\ \E p \in Prices :
                    CallAccount(t, "pos", [frame[t] EXCEPT !.todo = @ \ {o},
                       !.fill = [sym |-> ticket[o].sym, side |-> ticket[o].side,
                                 qty |-> ticket[o].qty, price |-> p, order |-> o]])
  <2>1. frame[t].todo \in SUBSET OrderIds /\ frame[t].todo # {}
    BY <1>1 DEF Frames, SettleMark
  <2>2. Min(frame[t].todo) \in frame[t].todo
    BY <2>1, MinIsMember
  <2> QED
    BY <2>1, <2>2 DEF SettleMark
<1>3. PICK p, fill : /\ p \in Prices
                     /\ fill = [sym |-> ticket[o].sym, side |-> ticket[o].side,
                                qty |-> ticket[o].qty, price |-> p, order |-> o]
                     /\ CallAccount(t, "pos", [frame[t] EXCEPT !.todo = @ \ {o}, !.fill = fill])
  BY <1>2
<1>4. pc'[t] = "acct" /\ frame'[t] = [[frame[t] EXCEPT !.todo = @ \ {o}, !.fill = fill] EXCEPT !.ret = "pos"]
  BY <1>3 DEF CallAccount, Goto, IInv, TypeOK
<1>5. fill \in Fills /\ fill.order = o /\ fill.sym = ticket[o].sym /\ fill.side = ticket[o].side /\ fill.qty = ticket[o].qty
  BY <1>1, <1>2, <1>3 DEF IInv, TypeOK, Tickets, Fills
<1>6. PICK g : /\ g = frame'[t] /\ g.todo = frame[t].todo \ {o} /\ g.fill = fill /\ g.ret = "pos" /\ g.side = frame[t].side
  <2> DEFINE h == [frame[t] EXCEPT !.todo = @ \ {o}, !.fill = fill]
  <2>1. h \in Frames /\ h.todo = frame[t].todo \ {o} /\ h.fill = fill /\ h.side = frame[t].side
    BY <1>1, <1>5 DEF Frames
  <2>2. frame'[t] = [h EXCEPT !.ret = "pos"]
    BY <1>4
  <2> HIDE DEF h
  <2>3. frame'[t].todo = h.todo /\ frame'[t].fill = h.fill /\ frame'[t].side = h.side /\ frame'[t].ret = "pos"
    BY <2>1, <2>2 DEF Frames
  <2> QED
    BY <2>1, <2>3
<1>7. status[o] = "PENDING" /\ frame[t].todo \subseteq Pending
  BY <1>2 DEF SerialInv, Passes, Pending
<1>8. status' = [status EXCEPT ![o] = "FILLED"]
  BY <1>2, <1>7 DEF SetStatus
<1>9. status'[o] = "FILLED" /\ \A r \in OrderIds : r # o => status'[r] = status[r]
  BY <1>2, <1>8 DEF IInv, TypeOK
<1>10. Filling(t)' /\ pc'[t] = "acct"
  BY <1>4, <1>6 DEF Filling
<1>11. o # 0 /\ account.legacy = FALSE
  <2>1. o # 0
    BY <1>2, BoundsAssumption DEF OrderIds
  <2>2. ~account.legacy
    BY <1>2, <1>7 DEF SerialInv, Legacy
  <2> QED
    BY <2>1, <2>2 DEF IInv, TypeOK, Accounts
<1>12. Passes(t)'
  <2>1. g.todo \subseteq Pending'
    BY <1>6, <1>7, <1>9 DEF Pending
  <2>2. Marked(fill)'
    BY <1>1, <1>2, <1>5, <1>9 DEF Marked, BarAvailable
  <2> QED
    BY <1>6, <1>10, <2>1, <2>2 DEF Passes, Settling
<1>13. Legacy(t)' /\ Copies(t)'
  BY <1>1, <1>4, <1>6, <1>11 DEF SerialInv, Legacy, Copies, Bound
<1>14. Once(t)'
  BY <1>1, <1>2, <1>5, <1>6, <1>7, <1>9 DEF SerialInv, Once
<1>15. Books(t) => Books(t)'
  BY <1>1, <1>4 DEF Books
<1>16. UNCHANGED Ledger!ledger
  <2>1. \A r \in OrderIds : ~Shows(t, r) /\ (Shows(t, r)' <=> r = o)
    BY <1>1, <1>2, <1>5, <1>6, <1>10 DEF Shows, InFlight, Filling
  <2>2. \A r \in OrderIds : (IF Shows(t, r)' THEN "PENDING" ELSE status'[r]) = (IF Shows(t, r) THEN "PENDING" ELSE status[r])
    BY <1>7, <1>9, <2>1
  <2>3. LedgerBook' = LedgerBook
    BY <2>2, LedgerIs, LedgerIsNext
  <2>4. LedgerShares' = LedgerShares
    BY <1>1, <1>4, LedgerIs, LedgerIsNext
  <2> QED
    BY <1>1, <2>3, <2>4 DEF Ledger!ledger, LedgerCash
<1> QED
  BY <1>12, <1>13, <1>14, <1>15, <1>16 DEF Carries, SerialInv

\* An order that can no longer be afforded is dropped.
LEMMA RejectCarries ==
    ASSUME NEW t, Threads = {t}, IInv, IInv', SerialInv(t), SettleReject(t)
    PROVE  Carries(t)
<1>1. UNCHANGED <<account, position, ticket, nextId, log, cached, fills>>
      /\ pc[t] = "reject" /\ pc'[t] = "settle" /\ frame'[t] = frame[t] /\ frame[t] \in Frames
  BY DEF SettleReject, Goto, environment, IInv, TypeOK
<1>2. PICK fill, o : fill = frame[t].fill /\ o = fill.order /\ fill \in Fills /\ o \in OrderIds
  BY <1>1 DEF Frames, Fills, SerialInv, Copies
<1>3. o # 0 /\ Marked(fill) /\ ~Affordable(fill, account, position[fill.sym]) /\ account.legacy = FALSE
  BY <1>1, <1>2 DEF SerialInv, Passes, Copies, Legacy, Filling, IInv, TypeOK, Accounts
<1>4. /\ status[o] = "FILLED" /\ fill.sym = ticket[o].sym /\ fill.side = ticket[o].side /\ fill.qty = ticket[o].qty
  BY <1>2, <1>3 DEF Marked
<1>5. status' = [status EXCEPT ![o] = "REJECTED"]
  BY <1>1, <1>2, <1>4 DEF SettleReject, SetStatus
<1>6. status'[o] = "REJECTED" /\ \A r \in OrderIds : r # o => status'[r] = status[r]
  BY <1>2, <1>5 DEF IInv, TypeOK
<1>7. Passes(t)'
  <2>1. Pending' = Pending
    BY <1>4, <1>6 DEF Pending
  <2> QED
    BY <1>1, <2>1 DEF SerialInv, Passes, Settling, Filling
<1>8. Legacy(t)' /\ Copies(t)'
  BY <1>1, <1>3 DEF SerialInv, Legacy, Copies, Bound
<1>9. Once(t)'
  BY <1>1, <1>2, <1>4, <1>6 DEF SerialInv, Once, InFlight, Filling
<1>10. Books(t) => Books(t)'
  BY <1>1 DEF Books
<1>11. Ledger!Reject(o)
  <2>1. \A r \in OrderIds : (Shows(t, r) <=> r = o) /\ ~Shows(t, r)'
    BY <1>1, <1>2 DEF Shows, InFlight, Filling
  <2>2. /\ LedgerBook = [r \in OrderIds |-> IF r = o THEN "PENDING" ELSE status[r]]
        /\ LedgerBook' = [r \in OrderIds |-> status'[r]]
    BY <2>1, LedgerIs, LedgerIsNext
  <2>3. LedgerBook[o] = "PENDING" /\ LedgerBook' = [LedgerBook EXCEPT ![o] = "REJECTED"]
    BY <1>2, <1>6, <2>2
  <2>4. LedgerShares' = LedgerShares /\ LedgerShares[fill.sym] = position[fill.sym].qty
    BY <1>1, <1>2, LedgerIs, LedgerIsNext DEF Fills
  <2>5. LedgerCash = account.cash /\ LedgerCash' = LedgerCash
    BY <1>1, <1>3 DEF LedgerCash
  <2>6. IF ticket[o].side = "BUY" THEN \E p \in Prices : ticket[o].qty * p * Fx[ticket[o].sym] > LedgerCash
        ELSE ticket[o].qty > LedgerShares[ticket[o].sym]
    <3>1. fill.price \in Prices /\ fill.qty \in Int /\ position[fill.sym].qty \in Int /\ account.cash \in Int
          /\ fill.price \in Int /\ Fx[fill.sym] \in Int
      <4>1. fill.price \in Prices /\ fill.qty \in Quantities /\ fill.sym \in Symbols
        BY <1>2 DEF Fills
      <4>2. fill.price \in Nat \ {0} /\ fill.qty \in Nat \ {0} /\ Fx[fill.sym] \in Nat \ {0}
        BY <4>1, QuantitiesAssumption, PricesAssumption, SymbolsAssumption
      <4>3. position[fill.sym] \in Positions /\ account \in Accounts
        BY <4>1 DEF IInv, TypeOK
      <4> QED
        BY <4>1, <4>2, <4>3 DEF Positions, Accounts
    <3>2. CASE fill.side = "BUY"
      <4>1. ValueBase(fill) > account.cash
        <5>1. ValueBase(fill) \in Int
          BY <3>1 DEF ValueBase
        <5> QED
          BY <1>3, <3>1, <3>2, <5>1 DEF Affordable
      <4>2. ticket[o].qty * fill.price * Fx[ticket[o].sym] = ValueBase(fill)
        BY <1>4 DEF ValueBase
      <4> QED
        BY <1>4, <2>5, <3>1, <3>2, <4>1, <4>2
    <3>3. CASE fill.side # "BUY"
      BY <1>3, <1>4, <2>4, <3>1, <3>3 DEF Affordable
    <3> QED
      BY <3>2, <3>3
  <2> QED
    BY <1>1, <2>3, <2>4, <2>5, <2>6 DEF Ledger!Reject, Ledger!Leave
<1> QED
  BY <1>2, <1>7, <1>8, <1>9, <1>10, <1>11 DEF Carries, SerialInv, Ledger!Next

\* The locals of an immediate fill, or of an order about to be queued.
LEMMA RouteCarries ==
    ASSUME NEW t, Threads = {t}, IInv, IInv', SerialInv(t), RouteToQueue(t) \/ RouteToFill(t)
    PROVE  Carries(t)
<1>1. UNCHANGED <<account, position, status, ticket, nextId, log, cached, fills>>
      /\ pc[t] = "route" /\ frame[t] \in Frames /\ frame'[t] \in Frames /\ frame[t].todo = {}
  <2>1. pc[t] = "route"
    BY DEF RouteToQueue, RouteToFill
  <2>2. frame[t].todo = {}
    BY <2>1 DEF SerialInv, Passes, Settling, Filling
  <2> QED
    BY <2>1, <2>2 DEF RouteToQueue, RouteToFill, store, environment, IInv, TypeOK
<1>2. \A o \in OrderIds : ~Shows(t, o)
  BY <1>1 DEF Shows, InFlight, Filling
<1>3. CASE Return(t)
  BY <1>1, <1>2, <1>3, ReturnCarries
<1>4. CASE ~Return(t)
  <2>1. /\ pc'[t] = "acct" /\ frame'[t].todo = {} /\ frame'[t].side = frame[t].side
        /\ \/ frame'[t].ret = IF frame[t].side = "BUY" THEN "reserve" ELSE "held"
           \/ frame'[t].ret = "pos" /\ frame'[t].fill.order = 0
    <3>1. CASE RouteToQueue(t)
      <4>1. pc'[t] = "acct" /\ frame'[t] = [frame[t] EXCEPT !.ret = IF frame[t].side = "BUY" THEN "reserve" ELSE "held"]
        BY <3>1 DEF RouteToQueue, CallAccount, Goto, IInv, TypeOK
      <4> QED
        BY <1>1, <4>1 DEF Frames
    <3>2. CASE RouteToFill(t)
      <4>1. PICK p, fill : /\ p \in Prices
                           /\ fill = [sym |-> frame[t].sym, side |-> frame[t].side,
                                      qty |-> frame[t].qty, price |-> p, order |-> 0]
                           /\ CallAccount(t, "pos", [frame[t] EXCEPT !.fill = fill])
        BY <1>4, <3>2 DEF RouteToFill
      <4>2. fill \in Fills /\ fill.order = 0
        BY <1>1, <4>1 DEF Frames, Fills
      <4> DEFINE h == [frame[t] EXCEPT !.fill = fill]
      <4>3. h \in Frames /\ h.todo = {} /\ h.fill = fill /\ h.side = frame[t].side
        BY <1>1, <4>2 DEF Frames
      <4>4. pc'[t] = "acct" /\ frame'[t] = [h EXCEPT !.ret = "pos"]
        BY <4>1 DEF CallAccount, Goto, IInv, TypeOK
      <4> HIDE DEF h
      <4>5. frame'[t].todo = h.todo /\ frame'[t].fill = h.fill /\ frame'[t].side = h.side /\ frame'[t].ret = "pos"
        BY <4>3, <4>4 DEF Frames
      <4> QED
        BY <4>2, <4>3, <4>4, <4>5
    <3> QED
      BY <3>1, <3>2
  <2>2. Filling(t)' => frame'[t].fill.order = 0
    BY <2>1 DEF Filling
  <2>3. \A o \in OrderIds : ~Shows(t, o)'
    BY <2>2, BoundsAssumption DEF Shows, InFlight, OrderIds
  <2>4. Passes(t)'
    BY <2>1, <2>2 DEF Passes
  <2>5. Legacy(t)' /\ Copies(t)'
    BY <1>1, <2>1, SymbolsAssumption DEF SerialInv, Legacy, Copies, Bound, Frames, Sides
  <2> QED
    BY <1>1, <1>2, <2>1, <2>3, <2>4, <2>5, Quiet
<1> QED
  BY <1>3, <1>4

\* The check of a fill, against the rows themselves.
LEMMA ReadPositionCarries ==
    ASSUME NEW t, Threads = {t}, IInv, IInv', SerialInv(t), ReadPosition(t)
    PROVE  Carries(t)
<1>1. UNCHANGED <<account, position, status, ticket, nextId, log, cached, fills>>
      /\ pc[t] = "pos" /\ frame[t] \in Frames /\ frame'[t] \in Frames
  BY DEF ReadPosition, store, environment, IInv, TypeOK
<1>2. PICK fill, held : /\ fill = frame[t].fill /\ held = position[fill.sym] /\ fill \in Fills /\ held \in Positions
  BY <1>1 DEF Frames, Fills, IInv, TypeOK
<1>3. frame[t].acct = account
  BY <1>1 DEF SerialInv, Copies
<1>4. CASE Affordable(fill, account, held)
  <2>1. pc'[t] = "write" /\ frame'[t] = [frame[t] EXCEPT !.held = held]
    BY <1>2, <1>3, <1>4 DEF ReadPosition, Goto, IInv, TypeOK
  <2>2. PICK g : /\ g = frame'[t] /\ g.todo = frame[t].todo /\ g.fill = fill /\ g.acct = account /\ g.held = held
    BY <1>1, <1>2, <1>3, <2>1 DEF Frames
  <2>3. \A o \in OrderIds : Shows(t, o)' <=> Shows(t, o)
    BY <1>1, <1>2, <2>1, <2>2 DEF Shows, InFlight, Filling
  <2>4. Passes(t)'
    BY <1>1, <1>2, <2>1, <2>2 DEF SerialInv, Passes, Settling, Filling, Pending, Marked
  <2>5. Legacy(t)' /\ Copies(t)'
    BY <1>1, <1>2, <2>1, <2>2 DEF SerialInv, Legacy, Copies, Bound
  <2> QED
    BY <1>1, <2>1, <2>3, <2>4, <2>5, Quiet
<1>5. CASE ~Affordable(fill, account, held) /\ fill.order = 0
  <2>1. Return(t)
    BY <1>2, <1>3, <1>5 DEF ReadPosition
  <2>2. \A o \in OrderIds : ~Shows(t, o)
    BY <1>2, <1>5, BoundsAssumption DEF Shows, OrderIds
  <2> QED
    BY <1>1, <2>1, <2>2, ReturnCarries
<1>6. CASE ~Affordable(fill, account, held) /\ fill.order # 0
  <2>1. pc'[t] = "reject" /\ frame'[t] = frame[t]
    BY <1>2, <1>3, <1>6 DEF ReadPosition, Goto, IInv, TypeOK
  <2>3. \A o \in OrderIds : Shows(t, o)' <=> Shows(t, o)
    BY <1>1, <2>1 DEF Shows, InFlight, Filling
  <2>4. Passes(t)'
    BY <1>1, <1>2, <2>1 DEF SerialInv, Passes, Settling, Filling, Pending, Marked
  <2>5. Legacy(t)' /\ Copies(t)'
    BY <1>1, <1>2, <1>6, <2>1 DEF SerialInv, Legacy, Copies, Bound
  <2> QED
    BY <1>1, <2>1, <2>3, <2>4, <2>5, Quiet
<1> QED
  BY <1>4, <1>5, <1>6

\* A fill moves the shares held by what it trades.
LEMMA SharesMove ==
    ASSUME NEW fill \in Fills, NEW held \in Positions
    PROVE  PositionAfter(fill, held).qty = held.qty + Sold(fill) /\ held.qty \in Int /\ Sold(fill) \in Int
<1>1. fill.qty \in Nat \ {0} /\ fill.side \in {"BUY", "SELL"} /\ held.qty \in Int
  BY QuantitiesAssumption DEF Fills, Sides, Positions
<1>2. CASE fill.side = "BUY"
  BY <1>1, <1>2 DEF PositionAfter, Sold
<1>3. CASE fill.side = "SELL" /\ fill.qty = held.qty
  BY <1>1, <1>3 DEF PositionAfter, Sold, Flat
<1>4. CASE fill.side = "SELL" /\ fill.qty # held.qty
  BY <1>1, <1>4 DEF PositionAfter, Sold
<1> QED
  BY <1>1, <1>2, <1>3, <1>4

\* The position is written, which does not show before the account is.
LEMMA WritePositionCarries ==
    ASSUME NEW t, Threads = {t}, IInv, IInv', SerialInv(t), WritePosition(t)
    PROVE  Carries(t)
<1>1. UNCHANGED <<account, status, ticket, nextId, log, cached, fills>>
      /\ pc[t] = "write" /\ pc'[t] = "debit" /\ frame'[t] = frame[t] /\ frame[t] \in Frames
  BY DEF WritePosition, Goto, environment, IInv, TypeOK
<1>2. PICK fill, held : /\ fill = frame[t].fill /\ held = frame[t].held /\ fill \in Fills /\ fill.sym \in Symbols
                        /\ held = position[fill.sym] /\ held \in Positions
  BY <1>1 DEF Frames, Fills, SerialInv, Copies
<1>3. position' = [position EXCEPT ![fill.sym] = PositionAfter(fill, held)]
  BY <1>2 DEF WritePosition
<1>4. position'[fill.sym] = PositionAfter(fill, held) /\ \A s \in Symbols : s # fill.sym => position'[s] = position[s]
  BY <1>2, <1>3 DEF IInv, TypeOK
<1>5. Affordable(fill, frame[t].acct, held)
  BY <1>1, <1>2 DEF IInv, GoodFrame
<1>6. PositionAfter(fill, held).qty = held.qty + Sold(fill) /\ held.qty \in Int /\ Sold(fill) \in Int
  BY <1>2, SharesMove
<1>7. Passes(t)'
  BY <1>1 DEF SerialInv, Passes, Settling, Filling, Pending, Marked
<1>8. Legacy(t)' /\ Copies(t)'
  BY <1>1, <1>2, <1>4 DEF SerialInv, Legacy, Copies, Bound
<1>9. Once(t)'
  BY <1>1 DEF SerialInv, Once, InFlight, Filling
<1>10. Books(t) => Books(t)'
  <2> SUFFICES ASSUME Books(t), ~account.legacy PROVE Books(t)'
    BY <1>1 DEF Books
  <2>1. \A s \in Symbols : position[s].qty = log.qty[s]
    BY <1>1 DEF Books
  <2>2. \A s \in Symbols : position'[s].qty = IF fill.sym = s THEN log.qty[s] + Sold(fill) ELSE log.qty[s]
    BY <1>2, <1>4, <1>6, <2>1
  <2> QED
    BY <1>1, <1>2, <2>2 DEF Books
<1>11. UNCHANGED Ledger!ledger
  <2>1. \A o \in OrderIds : Shows(t, o)' <=> Shows(t, o)
    BY <1>1 DEF Shows, InFlight, Filling
  <2>2. LedgerBook' = LedgerBook
    BY <1>1, <2>1, LedgerIs, LedgerIsNext
  <2>3. LedgerShares = [s \in Symbols |-> position[s].qty]
    BY <1>1, LedgerIs
  <2>4. LedgerShares' = [s \in Symbols |-> IF fill.sym = s THEN held.qty ELSE position'[s].qty]
    <3>1. \A s \in Symbols : (IF pc'[t] = "debit" /\ frame'[t].fill.sym = s THEN frame'[t].held.qty ELSE position'[s].qty)
                              = (IF fill.sym = s THEN held.qty ELSE position'[s].qty)
      BY <1>1, <1>2
    <3> QED
      BY <3>1, LedgerIsNext
  <2>5. \A s \in Symbols : (IF fill.sym = s THEN held.qty ELSE position'[s].qty) = position[s].qty
    BY <1>2, <1>4
  <2>6. LedgerShares' = LedgerShares
    BY <2>3, <2>4, <2>5
  <2> QED
    BY <1>1, <2>2, <2>6 DEF Ledger!ledger, LedgerCash
<1> QED
  BY <1>7, <1>8, <1>9, <1>10, <1>11 DEF Carries, SerialInv

\* What a fill does to the account, read as a trade of the ledger.
LEMMA TradeIs ==
    ASSUME NEW t, Threads = {t}, NEW fill \in Fills, NEW held \in Positions,
           LedgerCash = account.cash, LedgerCash' = CashAfter(fill, account),
           account \in Accounts, Affordable(fill, account, held),
           LedgerShares \in [Symbols -> Int], LedgerShares[fill.sym] = held.qty,
           LedgerShares' = [LedgerShares EXCEPT ![fill.sym] = held.qty + Sold(fill)]
    PROVE  Ledger!Trade(fill.sym, fill.side, fill.qty, fill.price)
<1>1. fill.side \in {"BUY", "SELL"} /\ fill.sym \in Symbols /\ fill.qty \in Int /\ held.qty \in Int /\ account.cash \in Int
      /\ ValueBase(fill) \in Int
  <2>1. fill.side \in {"BUY", "SELL"} /\ fill.sym \in Symbols /\ fill.qty \in Nat \ {0} /\ fill.price \in Nat \ {0}
        /\ Fx[fill.sym] \in Nat \ {0} /\ held.qty \in Int /\ account.cash \in Int
    BY QuantitiesAssumption, PricesAssumption, SymbolsAssumption DEF Fills, Sides, Positions, Accounts
  <2> QED
    BY <2>1 DEF ValueBase
<1>2. ValueBase(fill) = fill.qty * fill.price * Fx[fill.sym]
  BY DEF ValueBase
<1>3. CASE fill.side = "BUY"
  <2>1. ValueBase(fill) <= LedgerCash /\ LedgerCash' = LedgerCash - ValueBase(fill)
    BY <1>1, <1>3 DEF Affordable, CashAfter
  <2>2. LedgerShares' = [LedgerShares EXCEPT ![fill.sym] = @ + fill.qty]
    BY <1>1, <1>3 DEF Sold
  <2> HIDE DEF ValueBase
  <2> QED
    BY <1>2, <1>3, <2>1, <2>2 DEF Ledger!Trade
<1>4. CASE fill.side = "SELL"
  <2>1. fill.qty <= LedgerShares[fill.sym] /\ LedgerCash' = LedgerCash + ValueBase(fill)
    BY <1>1, <1>4 DEF Affordable, CashAfter
  <2>2. LedgerShares' = [LedgerShares EXCEPT ![fill.sym] = @ - fill.qty]
    BY <1>1, <1>4 DEF Sold
  <2> QED
    BY <1>2, <1>4, <2>1, <2>2 DEF Ledger!Trade
<1> QED
  BY <1>1, <1>3, <1>4

\* The account is updated: this is where the fill shows.
LEMMA UpdateAccountCarries ==
    ASSUME NEW t, Threads = {t}, IInv, IInv', SerialInv(t), UpdateAccount(t)
    PROVE  Carries(t)
<1>1. UNCHANGED <<position, status, ticket, nextId, log, cached>>
      /\ pc[t] = "debit" /\ pc'[t] = "log" /\ frame'[t] = frame[t] /\ frame[t] \in Frames
  BY DEF UpdateAccount, Goto, environment, IInv, TypeOK
<1>2. PICK fill, held, acct, o :
          /\ fill = frame[t].fill /\ held = frame[t].held /\ acct = frame[t].acct /\ o = fill.order
          /\ fill \in Fills /\ fill.sym \in Symbols /\ fill.qty \in Quantities /\ fill.price \in Prices
          /\ fill.side \in Sides /\ held \in Positions /\ acct \in Accounts /\ o \in OrderIds \cup {0}
  BY <1>1 DEF Frames, Fills
<1>3. acct = account /\ position[fill.sym] = PositionAfter(fill, held) /\ account.legacy = FALSE
      /\ account.cash \in Int /\ account.realized \in Int
  BY <1>1, <1>2 DEF SerialInv, Copies, Legacy, IInv, TypeOK, Accounts
<1>4. Affordable(fill, account, held)
  BY <1>1, <1>2, <1>3 DEF IInv, GoodFrame
<1>5. CashAfter(fill, account) \in Int /\ RealizedBase(fill, held) \in Int
  BY <1>2, <1>3, <1>4, FillTypes
<1>6. account' = [account EXCEPT !.cash = CashAfter(fill, account),
                                 !.realized = account.realized + RealizedBase(fill, held)]
  BY <1>2, <1>3 DEF UpdateAccount
<1>7. account'.cash = CashAfter(fill, account) /\ account'.realized = account.realized + RealizedBase(fill, held)
      /\ account'.legacy = FALSE
  <2>1. account \in Accounts
    BY DEF IInv, TypeOK
  <2> QED
    BY <1>3, <1>6, <2>1 DEF Accounts
<1>8. PositionAfter(fill, held).qty = held.qty + Sold(fill) /\ held.qty \in Int /\ Sold(fill) \in Int
  BY <1>2, SharesMove
<1>9. (o # 0 => o \in OrderIds /\ Marked(fill)) /\ 0 \notin OrderIds
  BY <1>1, <1>2, BoundsAssumption DEF SerialInv, Passes, Filling, OrderIds
<1>10. Passes(t)'
  BY <1>1 DEF SerialInv, Passes, Settling, Filling, Pending, Marked
<1>11. Legacy(t)' /\ Copies(t)'
  BY <1>1, <1>2, <1>7 DEF SerialInv, Legacy, Copies, Bound
<1>12. Once(t)'
  <2>1. ~InFlight(t)'
    BY <1>1 DEF InFlight
  <2>2. CASE o = 0
    BY <1>1, <1>2, <2>1, <2>2 DEF UpdateAccount, SerialInv, Once
  <2>3. CASE o # 0
    <3>1. fills[o].count = 0 /\ status[o] = "FILLED"
      BY <1>1, <1>2, <1>9, <2>3 DEF SerialInv, Once, InFlight, Filling, Marked
    <3>2. PICK day : fills' = [fills EXCEPT ![o] = [count |-> @.count + 1, day |-> day]]
      BY <1>2, <2>3 DEF UpdateAccount
    <3>3. fills'[o].count = 1 /\ \A r \in OrderIds : r # o => fills'[r] = fills[r]
      BY <1>9, <2>3, <3>1, <3>2 DEF IInv, TypeOK
    <3> QED
      BY <1>1, <2>1, <3>1, <3>3 DEF SerialInv, Once
  <2> QED
    BY <2>2, <2>3
<1>13. Books(t) => Books(t)'
  <2> SUFFICES ASSUME Books(t) PROVE Books(t)'
    OBVIOUS
  <2>1. account.cash = InitialCash + log.cash /\ account.realized = log.realized
    BY <1>1, <1>3 DEF Books
  <2>2. account'.cash = InitialCash + CashAfter(fill, log)
    <3>1. log.cash \in Int /\ InitialCash \in Int /\ ValueBase(fill) \in Int
      <4>1. fill.qty \in Nat \ {0} /\ fill.price \in Nat \ {0} /\ Fx[fill.sym] \in Nat \ {0}
        BY <1>2, QuantitiesAssumption, PricesAssumption, SymbolsAssumption
      <4> QED
        BY <4>1, MoneyAssumption DEF ValueBase, IInv, TypeOK
    <3> QED
      BY <1>7, <2>1, <3>1 DEF CashAfter
  <2>3. \A s \in Symbols : position[s].qty = IF fill.sym = s THEN log.qty[s] + Sold(fill) ELSE log.qty[s]
    BY <1>1, <1>2, <1>3 DEF Books
  <2> QED
    BY <1>1, <1>2, <1>7, <2>1, <2>2, <2>3 DEF Books
<1>14. Ledger!Trade(fill.sym, fill.side, fill.qty, fill.price)
  <2>1. LedgerCash = account.cash /\ LedgerCash' = CashAfter(fill, account)
    BY <1>3, <1>7 DEF LedgerCash
  <2>2. LedgerShares = [s \in Symbols |-> IF fill.sym = s THEN held.qty ELSE position[s].qty]
    BY <1>1, <1>2, LedgerIs
  <2>3. LedgerShares' = [s \in Symbols |-> position[s].qty]
    BY <1>1, LedgerIsNext
  <2>4. LedgerShares \in [Symbols -> Int] /\ LedgerShares[fill.sym] = held.qty
    BY <1>2, <1>8, <2>2 DEF IInv, TypeOK, Positions
  <2>5. \A s \in Symbols : position[s].qty = IF fill.sym = s THEN held.qty + Sold(fill) ELSE LedgerShares[s]
    BY <1>2, <1>3, <1>8, <2>2
  <2>6. LedgerShares' = [LedgerShares EXCEPT ![fill.sym] = held.qty + Sold(fill)]
    BY <1>2, <2>3, <2>4, <2>5
  <2>7. account \in Accounts
    BY <1>2, <1>3
  <2> QED
    BY <1>2, <1>4, <2>1, <2>4, <2>6, <2>7, TradeIs
<1>15. Ledger!Next
  <2>1. LedgerBook = [r \in OrderIds |-> IF r = o THEN "PENDING" ELSE status[r]]
    <3>1. \A r \in OrderIds : Shows(t, r) <=> r = o
      BY <1>1, <1>2 DEF Shows, InFlight, Filling
    <3> QED
      BY <3>1, LedgerIs
  <2>2. LedgerBook' = [r \in OrderIds |-> status[r]]
    <3>1. \A r \in OrderIds : ~Shows(t, r)'
      BY <1>1 DEF Shows, InFlight
    <3> QED
      BY <1>1, <3>1, LedgerIsNext
  <2>3. CASE o = 0
    <3>1. LedgerBook' = LedgerBook
      BY <1>9, <2>1, <2>2, <2>3
    <3>2. Ledger!Immediate
      BY <1>1, <1>2, <1>14, <3>1 DEF Ledger!Immediate, Sides
    <3> QED
      BY <3>2 DEF Ledger!Next
  <2>4. CASE o # 0
    <3>1. o \in OrderIds /\ status[o] = "FILLED" /\ NextWeekday(ticket[o].date) <= cached[ticket[o].sym]
          /\ fill.sym = ticket[o].sym /\ fill.side = ticket[o].side /\ fill.qty = ticket[o].qty
      BY <1>2, <1>9, <2>4 DEF Marked
    <3>2. LedgerBook[o] = "PENDING" /\ LedgerBook' = [LedgerBook EXCEPT ![o] = "FILLED"]
      BY <2>1, <2>2, <3>1
    <3>3. \E p \in Prices : Ledger!Trade(ticket[o].sym, ticket[o].side, ticket[o].qty, p)
      BY <1>2, <1>14, <3>1
    <3>4. Ledger!Fill(o)
      <4>1. Ledger!Leave(o, "FILLED") /\ UNCHANGED <<ticket, cached>>
        BY <1>1, <3>2 DEF Ledger!Leave
      <4>2. Ledger!NextWeekday(ticket[o].date) <= cached[ticket[o].sym]
        BY <3>1 DEF NextWeekday, Ledger!NextWeekday, IsWeekday, Ledger!IsWeekday
      <4> QED
        BY <3>3, <4>1, <4>2, Zenon DEF Ledger!Fill
    <3> QED
      BY <3>1, <3>4 DEF Ledger!Next
  <2> QED
    BY <2>3, <2>4
<1> QED
  BY <1>10, <1>11, <1>12, <1>13, <1>15 DEF Carries, SerialInv

\* The trade is logged, and the log agrees again.
LEMMA AddTradeCarries ==
    ASSUME NEW t, Threads = {t}, IInv, IInv', SerialInv(t), AddTrade(t)
    PROVE  Carries(t)
<1>1. UNCHANGED <<account, position, status, ticket, nextId, cached, fills>>
      /\ pc[t] = "log" /\ frame[t] \in Frames /\ frame'[t] \in Frames
  BY DEF AddTrade, environment, IInv, TypeOK
<1>2. PICK fill : fill = frame[t].fill /\ fill \in Fills /\ fill.sym \in Symbols /\ fill.side \in Sides
                  /\ fill.qty \in Nat \ {0}
  BY <1>1, QuantitiesAssumption DEF Frames, Fills
<1>3. /\ pc'[t] \in {"idle", "settle"} /\ frame'[t].todo \subseteq frame[t].todo
      /\ pc'[t] = "idle" => frame'[t].todo = {}
  BY <1>1, BlankTypes DEF AddTrade, Return, Goto, IInv, TypeOK, BlankFrame
<1>4. Passes(t)'
  BY <1>1, <1>3 DEF SerialInv, Passes, Settling, Filling, Pending
<1>5. Legacy(t)' /\ Copies(t)'
  BY <1>1, <1>3 DEF SerialInv, Legacy, Copies, Bound
<1>6. Once(t)'
  BY <1>1, <1>3 DEF SerialInv, Once, InFlight, Filling
<1>7. log' = [cash |-> CashAfter(fill, log), realized |-> log.realized + RealizedBase(fill, frame[t].held),
              qty |-> [log.qty EXCEPT ![fill.sym] = IF fill.side = "BUY" THEN @ + fill.qty ELSE @ - fill.qty]]
  BY <1>2 DEF AddTrade
<1>8. log.qty \in [Symbols -> Int]
  BY DEF IInv, TypeOK
<1>9. \A s \in Symbols : log'.qty[s] = IF fill.sym = s THEN log.qty[s] + Sold(fill) ELSE log.qty[s]
  BY <1>2, <1>7, <1>8 DEF Sold
<1>10. Books(t) => Books(t)'
  <2> SUFFICES ASSUME Books(t), ~account.legacy PROVE Books(t)'
    BY <1>1 DEF Books
  <2>1. /\ account.cash = InitialCash + CashAfter(fill, log)
        /\ account.realized = log.realized + RealizedBase(fill, frame[t].held)
        /\ \A s \in Symbols : position[s].qty = IF fill.sym = s THEN log.qty[s] + Sold(fill) ELSE log.qty[s]
    BY <1>1, <1>2 DEF Books
  <2>2. log'.cash = CashAfter(fill, log) /\ log'.realized = log.realized + RealizedBase(fill, frame[t].held)
    BY <1>7
  <2> QED
    BY <1>1, <1>3, <1>9, <2>1, <2>2 DEF Books
<1>11. UNCHANGED Ledger!ledger
  <2>1. \A o \in OrderIds : ~Shows(t, o) /\ ~Shows(t, o)'
    BY <1>1, <1>3 DEF Shows, InFlight, Filling
  <2>2. LedgerBook' = LedgerBook
    BY <1>1, <2>1, LedgerIs, LedgerIsNext
  <2>3. LedgerShares' = LedgerShares
    BY <1>1, <1>3, LedgerIs, LedgerIsNext
  <2> QED
    BY <1>1, <2>2, <2>3 DEF Ledger!ledger, LedgerCash
<1> QED
  BY <1>4, <1>5, <1>6, <1>10, <1>11 DEF Carries, SerialInv

\* The checks of _queue_pending, of the rows themselves.
LEMMA CheckReserveCarries ==
    ASSUME NEW t, Threads = {t}, IInv, IInv', SerialInv(t), CheckReserve(t)
    PROVE  Carries(t)
<1>1. UNCHANGED <<account, position, status, ticket, nextId, log, cached, fills>>
      /\ pc[t] = "reserve" /\ frame[t] \in Frames /\ frame'[t] \in Frames
  BY DEF CheckReserve, store, environment, IInv, TypeOK
<1>2. \A o \in OrderIds : ~Shows(t, o)
  BY <1>1 DEF Shows, InFlight, Filling
<1>3. PICK est : \/ est <= frame[t].acct.cash - ReservedCash /\ Goto(t, "enqueue", [frame[t] EXCEPT !.quote = est])
                 \/ Return(t)
  BY DEF CheckReserve
<1>4. CASE Return(t)
  BY <1>1, <1>2, <1>4, ReturnCarries
<1>5. CASE est <= frame[t].acct.cash - ReservedCash /\ Goto(t, "enqueue", [frame[t] EXCEPT !.quote = est])
  <2>1. pc'[t] = "enqueue" /\ frame'[t] = [frame[t] EXCEPT !.quote = est]
    BY <1>5 DEF Goto, IInv, TypeOK
  <2>2. PICK g : g = frame'[t] /\ g.todo = frame[t].todo /\ g.side = frame[t].side /\ g.quote = est
    BY <1>1, <2>1 DEF Frames
  <2>3. frame[t].acct = account /\ frame[t].side = "BUY" /\ frame[t].todo = {}
    BY <1>1 DEF SerialInv, Copies, Passes, Settling, Filling, Bound
  <2>4. \A o \in OrderIds : Shows(t, o)' <=> Shows(t, o)
    BY <1>2, <2>1 DEF Shows, InFlight, Filling
  <2>5. Passes(t)'
    BY <2>1, <2>2, <2>3 DEF Passes, Settling, Filling
  <2>6. Legacy(t)'
    BY <1>1, <2>1 DEF SerialInv, Legacy
  <2>7. Copies(t)'
    <3>1. g.side = "BUY" /\ g.quote <= account'.cash - ReservedCash'
      BY <1>1, <1>5, <2>2, <2>3, SumsStay
    <3> QED
      BY <2>1, <2>2, <3>1 DEF Copies, Bound
  <2> QED
    BY <1>1, <2>1, <2>4, <2>5, <2>6, <2>7, Quiet
<1> QED
  BY <1>3, <1>4, <1>5

LEMMA CheckPromisedCarries ==
    ASSUME NEW t, Threads = {t}, IInv, IInv', SerialInv(t), ReadHeld(t) \/ CheckPromised(t)
    PROVE  Carries(t)
<1>1. UNCHANGED <<account, position, status, ticket, nextId, log, cached, fills>>
      /\ pc[t] \in {"held", "promised"} /\ frame[t] \in Frames /\ frame'[t] \in Frames
  BY DEF ReadHeld, CheckPromised, store, environment, IInv, TypeOK
<1>2. \A o \in OrderIds : ~Shows(t, o)
  BY <1>1 DEF Shows, InFlight, Filling
<1>3. frame[t].side = "SELL" /\ frame[t].todo = {}
  BY <1>1 DEF SerialInv, Copies, Passes, Settling, Filling, Bound
<1>4. CASE Return(t)
  BY <1>1, <1>2, <1>4, ReturnCarries
<1>5. CASE ReadHeld(t)
  <2>1. pc'[t] = "promised" /\ frame'[t] = [frame[t] EXCEPT !.held = position[frame[t].sym]]
    BY <1>5 DEF ReadHeld, Goto, IInv, TypeOK
  <2>2. PICK g : /\ g = frame'[t] /\ g.todo = {} /\ g.side = "SELL" /\ g.sym = frame[t].sym
                 /\ g.held = position[frame[t].sym]
    BY <1>1, <1>3, <2>1 DEF Frames
  <2>3. \A o \in OrderIds : Shows(t, o)' <=> Shows(t, o)
    BY <1>2, <2>1 DEF Shows, InFlight, Filling
  <2>4. Passes(t)'
    BY <2>1, <2>2 DEF Passes, Settling, Filling
  <2>5. Legacy(t)' /\ Copies(t)'
    BY <1>1, <1>5, <2>1, <2>2 DEF SerialInv, Legacy, Copies, Bound, ReadHeld
  <2> QED
    BY <1>1, <2>1, <2>3, <2>4, <2>5, Quiet
<1>6. CASE CheckPromised(t) /\ ~Return(t)
  <2>1. /\ pc[t] = "promised" /\ pc'[t] = "enqueue" /\ frame'[t] = frame[t]
        /\ frame[t].qty <= frame[t].held.qty - PromisedQty(frame[t].sym)
    BY <1>6 DEF CheckPromised, Goto, IInv, TypeOK
  <2>2. \A o \in OrderIds : Shows(t, o)' <=> Shows(t, o)
    BY <1>2, <2>1 DEF Shows, InFlight, Filling
  <2>3. Passes(t)'
    BY <1>3, <2>1 DEF Passes, Settling, Filling
  <2>4. Legacy(t)'
    BY <1>1, <2>1 DEF SerialInv, Legacy
  <2>5. Copies(t)'
    <3>1. frame[t].held = position[frame[t].sym] /\ PromisedQty(frame[t].sym)' = PromisedQty(frame[t].sym)
      BY <1>1, <2>1, SumsStay DEF SerialInv, Copies
    <3>2. PICK g : g = frame'[t] /\ g = frame[t]
      BY <2>1
    <3>3. PromisedQty(g.sym)' = PromisedQty(g.sym)
      BY <1>1, SumsStay
    <3>4. g.side = "SELL" /\ g.qty <= position'[g.sym].qty - PromisedQty(g.sym)'
      BY <1>1, <1>3, <2>1, <3>1, <3>2, <3>3
    <3> QED
      BY <2>1, <3>2, <3>4 DEF Copies, Bound
  <2> QED
    BY <1>1, <2>1, <2>2, <2>3, <2>4, <2>5, Quiet
<1> QED
  BY <1>4, <1>5, <1>6

\* The order is inserted.
LEMMA EnqueueCarries ==
    ASSUME NEW t, Threads = {t}, IInv, IInv', LookInv, SerialInv(t), Enqueue(t)
    PROVE  Carries(t)
<1>1. UNCHANGED <<account, position, log, cached, fills>> /\ pc[t] = "enqueue" /\ frame[t] \in Frames
      /\ nextId \in OrderIds /\ pc'[t] = "idle" /\ frame'[t] = BlankFrame
  BY DEF Enqueue, environment, OrderIds, Return, Goto, IInv, TypeOK
<1>2. PICK f : f = frame[t] /\ f \in Frames
  BY <1>1
<1> DEFINE row == [sym |-> f.sym, side |-> f.side, qty |-> f.qty, reserve |-> f.quote,
                   date |-> TradingDate(clock), placed |-> clock]
<1>3. ticket' = [ticket EXCEPT ![nextId] = row] /\ status' = [status EXCEPT ![nextId] = "PENDING"]
  BY <1>2 DEF Enqueue
<1>4. row.sym = f.sym /\ row.side = f.side /\ row.qty = f.qty /\ row.reserve = f.quote
  OBVIOUS
<1> HIDE DEF row
<1>5. ticket'[nextId] = row /\ \A o \in OrderIds \ {nextId} : ticket'[o] = ticket[o] /\ status'[o] = status[o]
  BY <1>1, <1>3 DEF IInv, TypeOK
<1>6. status[nextId] = "NONE" /\ status'[nextId] = "PENDING" /\ fills[nextId].count = 0
  <2>1. status[nextId] = "NONE"
    BY <1>1 DEF LookInv, Given, IInv, TypeOK
  <2> QED
    BY <1>1, <1>3, <2>1 DEF SerialInv, Once, IInv, TypeOK
<1>7. Passes(t)'
  BY <1>1 DEF Passes, Settling, Filling, BlankFrame
<1>8. Legacy(t)' /\ Copies(t)'
  BY <1>1 DEF SerialInv, Legacy, Copies, Bound
<1>9. Once(t)'
  BY <1>1, <1>5, <1>6 DEF SerialInv, Once, InFlight, Filling
<1>10. Books(t) => Books(t)'
  BY <1>1 DEF Books
<1>11. \A o \in OrderIds : ~Shows(t, o) /\ ~Shows(t, o)'
  BY <1>1 DEF Shows, InFlight, Filling
<1>12. LedgerBook = [o \in OrderIds |-> status[o]] /\ LedgerBook' = [o \in OrderIds |-> status'[o]]
  <2>1. \A o \in OrderIds : (IF Shows(t, o) THEN "PENDING" ELSE status[o]) = status[o]
    BY <1>11
  <2>2. \A o \in OrderIds : (IF Shows(t, o)' THEN "PENDING" ELSE status'[o]) = status'[o]
    BY <1>11
  <2>3. LedgerBook = [o \in OrderIds |-> status[o]]
    BY <2>1, LedgerIs
  <2>4. LedgerBook' = [o \in OrderIds |-> status'[o]]
    BY <2>2, LedgerIsNext
  <2> QED
    BY <2>3, <2>4
<1>13. LedgerBook[nextId] = "NONE" /\ LedgerBook' = [LedgerBook EXCEPT ![nextId] = "PENDING"]
  BY <1>1, <1>5, <1>6, <1>12
<1>14. LedgerShares' = LedgerShares /\ LedgerShares = [s \in Symbols |-> position[s].qty]
  BY <1>1, LedgerIs, LedgerIsNext
<1>15. LedgerCash = account.cash /\ LedgerCash' = LedgerCash
  BY <1>1 DEF SerialInv, Legacy, LedgerCash
<1>16. \A side : Ledger!Pending(side) = {o \in Pending : ticket[o].side = side}
  BY <1>12 DEF Ledger!Pending, Pending
<1>17. Ledger!MapThenSumSet(LAMBDA i : ticket[i].reserve, Ledger!Pending("BUY")) = ReservedCash
  <2>1. Ledger!Pending("BUY") = {o \in Pending : ticket[o].side = "BUY"}
    BY <1>16
  <2> HIDE DEF row
  <2> QED
    BY <2>1, Zenon DEF ReservedCash, MapThenSumSet, MapThenFoldSet, Ledger!MapThenSumSet, Ledger!MapThenFoldSet
<1>18. \A s : Ledger!MapThenSumSet(LAMBDA i : ticket[i].qty, {i \in Ledger!Pending("SELL") : ticket[i].sym = s}) = PromisedQty(s)
  <2>1. ASSUME NEW s PROVE {i \in Ledger!Pending("SELL") : ticket[i].sym = s} = {o \in Pending : ticket[o].side = "SELL" /\ ticket[o].sym = s}
    BY <1>16
  <2> QED
    BY <2>1, Zenon DEF PromisedQty, MapThenSumSet, MapThenFoldSet, Ledger!MapThenSumSet, Ledger!MapThenFoldSet
<1>19. f.quote \in Int /\ f.qty \in Int /\ account.cash \in Int /\ position[f.sym].qty \in Int /\ f.sym \in Symbols
  <2>1. f.quote \in Nat /\ f.qty \in Nat \ {0} /\ f.sym \in Symbols /\ account \in Accounts
    BY <1>2, QuantitiesAssumption DEF Frames, IInv, TypeOK
  <2>2. position[f.sym] \in Positions
    BY <2>1 DEF IInv, TypeOK
  <2> QED
    BY <2>1, <2>2 DEF Accounts, Positions
<1>20. ReservedCash \in Int /\ PromisedQty(f.sym) \in Int
  BY SumsTyped DEF IInv
<1>21. \/ f.side = "BUY" /\ f.quote <= account.cash - ReservedCash
       \/ f.side = "SELL" /\ f.qty <= position[f.sym].qty - PromisedQty(f.sym)
  BY <1>1, <1>2 DEF SerialInv, Copies
<1>22. \/ row.side = "BUY" /\ row.reserve + ReservedCash <= LedgerCash
       \/ row.side = "SELL" /\ row.qty + PromisedQty(row.sym) <= LedgerShares[row.sym]
  BY <1>4, <1>14, <1>15, <1>19, <1>20, <1>21
<1>23. Ledger!Queue(nextId)
  <2>1. UNCHANGED <<LedgerCash, LedgerShares, cached>>
    BY <1>1, <1>14, <1>15
  <2>2. \A i \in OrderIds \ {nextId} : ticket'[i] = ticket[i]
    BY <1>5
  <2>3. LET new == ticket'[nextId] IN
          \/ /\ new.side = "BUY"
             /\ new.reserve + Ledger!MapThenSumSet(LAMBDA i : ticket[i].reserve, Ledger!Pending("BUY")) <= LedgerCash
          \/ /\ new.side = "SELL"
             /\ new.qty + Ledger!MapThenSumSet(LAMBDA i : ticket[i].qty,
                            {i \in Ledger!Pending("SELL") : ticket[i].sym = new.sym}) <= LedgerShares[new.sym]
    BY <1>5, <1>17, <1>18, <1>22, Zenon
  <2> QED
    BY <1>13, <2>1, <2>2, <2>3, Zenon DEF Ledger!Queue
<1> QED
  BY <1>1, <1>7, <1>8, <1>9, <1>10, <1>23, Zenon DEF Carries, SerialInv, Ledger!Next

\* A cancellation, of an order that is still pending.
LEMMA CancelCarries ==
    ASSUME NEW t, Threads = {t}, IInv, IInv', SerialInv(t), Lookup(t) \/ MarkCancelled(t)
    PROVE  Carries(t)
<1>1. /\ UNCHANGED <<account, position, ticket, nextId, log, cached, fills>>
      /\ pc[t] \in {"lookup", "mark"} /\ frame[t] \in Frames /\ frame'[t] \in Frames
  BY DEF Lookup, MarkCancelled, store, environment, IInv, TypeOK
<1>2. frame[t].todo = {} /\ \A o \in OrderIds : ~Shows(t, o)
  BY <1>1 DEF Shows, InFlight, Filling, SerialInv, Passes, Settling
<1>3. CASE Lookup(t) /\ Return(t)
  <2>1. UNCHANGED status
    BY <1>3 DEF Lookup, store
  <2> QED
    BY <1>1, <1>2, <1>3, <2>1, ReturnCarries
<1>4. CASE Lookup(t) /\ ~Return(t)
  <2>1. /\ UNCHANGED status /\ status[frame[t].order] = "PENDING" /\ pc'[t] = "mark" /\ frame'[t] = frame[t]
        /\ pc[t] = "lookup"
    BY <1>4 DEF Lookup, Goto, store, IInv, TypeOK
  <2>2. account.legacy => status[frame[t].order] = "NONE"
    <3>2. frame[t].order \in OrderIds
      BY <2>1 DEF SerialInv, Copies, Bound
    <3> QED
      BY <3>2 DEF SerialInv, Legacy
  <2>3. \A o \in OrderIds : Shows(t, o)' <=> Shows(t, o)
    BY <1>2, <2>1 DEF Shows, InFlight, Filling
  <2>4. Passes(t)'
    BY <1>2, <2>1 DEF Passes, Settling, Filling, SerialInv, Copies, Bound
  <2>5. Legacy(t)' /\ Copies(t)'
    BY <1>1, <2>1, <2>2 DEF SerialInv, Legacy, Copies, Bound
  <2> QED
    BY <1>1, <2>1, <2>3, <2>4, <2>5, Quiet
<1>5. CASE MarkCancelled(t)
  <2>1. PICK o : /\ o = frame[t].order /\ o \in OrderIds /\ status[o] = "PENDING" /\ pc[t] = "mark"
                 /\ SetStatus(o, "CANCELLED") /\ CallAccount(t, "idle", frame[t])
    BY <1>5 DEF MarkCancelled, SerialInv, Passes
  <2>2. pc'[t] = "acct" /\ frame'[t] = [frame[t] EXCEPT !.ret = "idle"]
    BY <2>1 DEF CallAccount, Goto, IInv, TypeOK
  <2>3. PICK g : g = frame'[t] /\ g.todo = {} /\ g.ret = "idle"
    BY <1>1, <1>2, <2>2 DEF Frames
  <2>4. status' = [status EXCEPT ![o] = "CANCELLED"]
    BY <2>1 DEF SetStatus
  <2>5. status'[o] = "CANCELLED" /\ \A r \in OrderIds : r # o => status'[r] = status[r]
    BY <2>1, <2>4 DEF IInv, TypeOK
  <2>6. Passes(t)'
    BY <2>2, <2>3 DEF Passes, Settling, Filling
  <2>7. Legacy(t)' /\ Copies(t)'
    BY <1>1, <2>1, <2>2, <2>3 DEF SerialInv, Legacy, Copies, Bound
  <2>8. Once(t)'
    BY <1>1, <2>1, <2>2, <2>3, <2>5 DEF SerialInv, Once, InFlight, Filling
  <2>9. Books(t) => Books(t)'
    BY <1>1, <2>1, <2>2 DEF Books
  <2>10. \A r \in OrderIds : ~Shows(t, r) /\ ~Shows(t, r)'
    BY <1>2, <2>2, <2>3 DEF Shows, InFlight, Filling
  <2>11. LedgerBook = [r \in OrderIds |-> status[r]] /\ LedgerBook' = [r \in OrderIds |-> status'[r]]
    <3>1. \A r \in OrderIds : (IF Shows(t, r) THEN "PENDING" ELSE status[r]) = status[r]
      BY <2>10
    <3>2. \A r \in OrderIds : (IF Shows(t, r)' THEN "PENDING" ELSE status'[r]) = status'[r]
      BY <2>10
    <3> QED
      BY <3>1, <3>2, LedgerIs, LedgerIsNext
  <2>12. Ledger!Cancel(o)
    <3>1. LedgerBook[o] = "PENDING" /\ LedgerBook' = [LedgerBook EXCEPT ![o] = "CANCELLED"]
      BY <2>1, <2>5, <2>11
    <3>2. UNCHANGED <<LedgerCash, LedgerShares>>
      BY <1>1, <2>1, <2>2, LedgerIs, LedgerIsNext DEF LedgerCash
    <3> QED
      BY <1>1, <3>1, <3>2 DEF Ledger!Cancel, Ledger!Leave
  <2> QED
    BY <2>1, <2>6, <2>7, <2>8, <2>9, <2>12, Zenon DEF Carries, SerialInv, Ledger!Next
<1> QED
  BY <1>3, <1>4, <1>5

\* The calendar and the warmer: a bar appears, and nothing else moves.
LEMMA EnvironmentCarries ==
    ASSUME NEW t, Threads = {t}, IInv, IInv', SerialInv(t),
           Tick \/ (\E s \in Symbols : Refresh(s)) \/ UNCHANGED vars
    PROVE  Carries(t)
<1>1. UNCHANGED <<account, position, status, ticket, nextId, log, fills, pc, frame>>
  BY DEF Tick, Refresh, vars, store
<1>2. \/ UNCHANGED cached
      \/ \E s \in Symbols : cached'[s] > cached[s] /\ \A r \in Symbols \ {s} : cached'[r] = cached[r]
  <2>1. CASE Tick \/ UNCHANGED vars
    BY <2>1 DEF Tick, vars, environment
  <2>2. CASE \E s \in Symbols : Refresh(s)
    <3>1. PICK s \in Symbols : Refresh(s)
      BY <2>2
    <3>2. cached'[s] = LatestBar(clock) /\ \A r \in Symbols \ {s} : cached'[r] = cached[r]
      BY <3>1 DEF Refresh, IInv, TypeOK
    <3>3. cached[s] \in Int /\ LatestBar(clock) \in Int /\ cached[s] < LatestBar(clock)
      BY <3>1, CalendarTypes DEF Refresh, IInv, TypeOK
    <3> QED
      BY <3>2, <3>3
  <2> QED
    BY <2>1, <2>2
<1>3. \A s \in Symbols : cached'[s] >= cached[s]
  BY <1>2 DEF IInv, TypeOK
<1>4. (Filling(t)' <=> Filling(t)) /\ (Settling(t)' <=> Settling(t)) /\ (InFlight(t)' <=> InFlight(t)) /\ Bound(t)' = Bound(t)
  BY <1>1 DEF Filling, Settling, InFlight, Bound
<1>5. Pending' = Pending /\ ReservedCash' = ReservedCash /\ \A s : PromisedQty(s)' = PromisedQty(s)
  BY <1>1, SumsStay
<1>6. Passes(t)'
  <2>1. Passes(t)
    BY DEF SerialInv
  <2>2. ASSUME Filling(t), frame[t].fill.order # 0 PROVE Marked(frame[t].fill)'
    <3>1. frame[t].fill.order \in OrderIds
      BY <1>1, <2>2 DEF IInv, TypeOK, Frames, Fills
    <3>2. PICK o : o = frame[t].fill.order /\ o \in OrderIds /\ Marked(frame[t].fill) /\ ticket[o] \in Tickets
      BY <2>1, <2>2, <3>1 DEF Passes, IInv, TypeOK
    <3>3. NextWeekday(ticket[o].date) \in Int /\ ticket[o].sym \in Symbols
      BY <3>2, CalendarTypes DEF Tickets, Instants, NextWeekday
    <3>4. cached'[ticket[o].sym] >= cached[ticket[o].sym] /\ cached[ticket[o].sym] \in Int /\ cached'[ticket[o].sym] \in Int
      BY <1>3, <3>3 DEF IInv, TypeOK
    <3>5. NextWeekday(ticket[o].date) <= cached'[ticket[o].sym]
      BY <3>2, <3>3, <3>4 DEF Marked
    <3> QED
      BY <1>1, <3>2, <3>5 DEF Marked
  <2> QED
    BY <1>1, <1>4, <1>5, <2>1, <2>2 DEF Passes
<1>7. Legacy(t)'
  BY <1>1 DEF SerialInv, Legacy
<1>8. Copies(t)'
  BY <1>1, <1>4, <1>5 DEF SerialInv, Copies
<1>9. Once(t)'
  BY <1>1, <1>4 DEF SerialInv, Once
<1>10. Books(t) => Books(t)'
  BY <1>1 DEF Books
<1>11. UNCHANGED <<LedgerCash, LedgerShares, LedgerBook>>
  BY <1>1 DEF LedgerCash, LedgerShares, LedgerBook, InFlight, Filling
<1>12. [Ledger!Next]_(Ledger!ledger)
  <2>1. CASE UNCHANGED cached
    BY <1>1, <1>11, <2>1 DEF Ledger!ledger
  <2>2. CASE \E s \in Symbols : cached'[s] > cached[s] /\ \A r \in Symbols \ {s} : cached'[r] = cached[r]
    <3>1. Ledger!NewBar
      BY <1>1, <1>11, <2>2 DEF Ledger!NewBar
    <3> QED
      BY <3>1 DEF Ledger!Next
  <2> QED
    BY <1>2, <2>1, <2>2
<1> QED
  BY <1>6, <1>7, <1>8, <1>9, <1>10, <1>12 DEF Carries, SerialInv

LEMMA InitSerial ==
    ASSUME NEW t, Threads = {t}, Init
    PROVE  SerialInv(t) /\ Books(t) /\ Ledger!Init
<1>1. /\ pc[t] = "idle" /\ frame[t] = BlankFrame
      /\ \A o \in OrderIds : status[o] = "NONE" /\ fills[o].count = 0
      /\ position = [s \in Symbols |-> Flat] /\ log = EmptyLog
      /\ account = FreshAccount \/ account.legacy = TRUE
  BY DEF Init
<1>2. Passes(t)
  BY <1>1 DEF Passes, Settling, Filling, BlankFrame
<1>3. Legacy(t) /\ Copies(t) /\ Once(t)
  BY <1>1 DEF Legacy, Copies, Once, Bound, InFlight, Filling
<1>4. Books(t)
  BY <1>1, MoneyAssumption DEF Books, EmptyLog, FreshAccount, Flat
<1>5. Ledger!Init
  <2>1. LedgerCash = InitialCash
    BY <1>1 DEF LedgerCash, FreshAccount
  <2>2. LedgerShares = [s \in Symbols |-> 0]
    BY <1>1, LedgerIs DEF Flat
  <2>3. LedgerBook = [o \in OrderIds |-> "NONE"]
    BY <1>1, LedgerIs DEF Shows, InFlight, Filling
  <2> QED
    BY <2>1, <2>2, <2>3 DEF Ledger!Init
<1> QED
  BY <1>2, <1>3, <1>4, <1>5 DEF SerialInv

\* Every step but a crash carries the invariant on, as a step of the ledger or as none.
LEMMA StepCarries ==
    ASSUME NEW t, Threads = {t}, IInv, IInv', LookInv, SerialInv(t), [Next]_vars, ~Crash
    PROVE  Carries(t)
<1>1. CASE Tick \/ (\E s \in Symbols : Refresh(s)) \/ UNCHANGED vars
  BY <1>1, EnvironmentCarries
<1>2. CASE Start(t)
  BY <1>2, StartCarries
<1>3. CASE Run(t)
  <2>1. CASE ReadAccount(t) \/ Migrate(t) \/ Reset(t)
    BY <2>1, ReadAccountCarries, WipeCarries
  <2>2. CASE Settle(t)
    BY <2>2, ListCarries, MarkCarries, RejectCarries DEF Settle
  <2>3. CASE RouteToQueue(t) \/ RouteToFill(t)
    BY <2>3, RouteCarries
  <2>4. CASE ExecuteFill(t)
    BY <2>4, ReadPositionCarries, WritePositionCarries, UpdateAccountCarries, AddTradeCarries DEF ExecuteFill
  <2>5. CASE QueuePending(t)
    BY <2>5, CheckReserveCarries, CheckPromisedCarries, EnqueueCarries DEF QueuePending
  <2>6. CASE Lookup(t) \/ MarkCancelled(t)
    BY <2>6, CancelCarries
  <2> QED
    BY <1>3, <2>1, <2>2, <2>3, <2>4, <2>5, <2>6 DEF Run
<1> QED
  BY <1>1, <1>2, <1>3 DEF Next

\* A crash drops the request, wherever it was: what it has committed stays.
LEMMA CrashKeepsSerial ==
    ASSUME NEW t, Threads = {t}, SerialInv(t), Crash
    PROVE  SerialInv(t)'
<1>1. /\ UNCHANGED <<account, status, fills>> /\ pc'[t] = "idle" /\ frame'[t] = BlankFrame
  BY DEF Crash, store
<1>2. Passes(t)'
  BY <1>1 DEF Passes, Settling, Filling, BlankFrame
<1>3. Legacy(t)' /\ Copies(t)' /\ Once(t)'
  BY <1>1 DEF SerialInv, Legacy, Copies, Once, Bound, InFlight, Filling
<1> QED
  BY <1>2, <1>3 DEF SerialInv

\* For one thread, with or without crashes.
LEMMA SerialInvariance ==
    ASSUME NEW t, Threads = {t}
    PROVE  Spec => [](IInv /\ LookInv /\ SerialInv(t))
<1>1. Init => IInv /\ LookInv /\ SerialInv(t)
  BY InitIInv, InitLook, InitSerial
<1>2. IInv /\ LookInv /\ SerialInv(t) /\ [Next]_vars => (IInv /\ LookInv /\ SerialInv(t))'
  <2> SUFFICES ASSUME IInv, LookInv, SerialInv(t), [Next]_vars
               PROVE  IInv' /\ LookInv' /\ SerialInv(t)'
    OBVIOUS
  <2>1. IInv' /\ LookInv'
    BY NextIInv, NextLook DEF IInv
  <2>2. SerialInv(t)'
    BY <2>1, StepCarries, CrashKeepsSerial DEF Carries
  <2> QED
    BY <2>1, <2>2
<1> QED
  BY <1>1, <1>2, PTL DEF Spec

\* Without crashes, every step of the portfolio is a step of the ledger or none.
LEMMA StepServes ==
    ASSUME NEW t, Threads = {t}, MaxCrashes = 0, IInv, IInv', LookInv, SerialInv(t), [Next]_vars
    PROVE  (Books(t) => Books(t)') /\ [Ledger!Next]_(Ledger!ledger)
<1>1. ~Crash
  BY DEF Crash, IInv, TypeOK
<1> QED
  BY <1>1, StepCarries DEF Carries

\* "Best-effort and idempotent" (_settle_pending): when requests come one after
\* the other, however often the pending orders are settled and wherever the
\* process dies, none is filled twice.  The order is marked before it trades.
THEOREM OneFillEach ==
    ASSUME NEW t, Threads = {t}
    PROVE  Spec => []AtMostOneFill
<1>1. SerialInv(t) => AtMostOneFill
  BY DEF SerialInv, Once, AtMostOneFill
<1> QED
  BY <1>1, SerialInvariance, PTL

\* When requests come one after the other and none is cut short, the account
\* and the positions are what the trade log replays to.
THEOREM AccountsReplay ==
    ASSUME NEW t, Threads = {t}, MaxCrashes = 0
    PROVE  Spec => []LedgerMatchesLog
<1>1. Books(t) => LedgerMatchesLog
  BY DEF Books, LedgerMatchesLog, Filling
<1>2. Init => Books(t)
  BY InitSerial
<1>3. IInv /\ IInv' /\ LookInv /\ SerialInv(t) /\ Books(t) /\ [Next]_vars => Books(t)'
  BY StepServes
<1> QED
  BY <1>1, <1>2, <1>3, SerialInvariance, PTL DEF Spec

\* ... and the portfolio then is the ledger whose fills, rejections, queueings,
\* cancellations and resets are each one step.
THEOREM ServesAsLedger ==
    ASSUME NEW t, Threads = {t}, MaxCrashes = 0
    PROVE  Spec => ImplementsLedger
<1>1. Init => Ledger!Init
  BY InitSerial
<1>2. IInv /\ IInv' /\ LookInv /\ SerialInv(t) /\ [Next]_vars => [Ledger!Next]_(Ledger!ledger)
  BY StepServes
<1> QED
  BY <1>1, <1>2, SerialInvariance, PTL DEF Spec, ImplementsLedger, Ledger!Spec

-----------------------------------------------------------------------------
(* What was paid for the positions.                                         *)

\* The sum of the costs of a set of symbols' positions, in the base currency.
LEMMA CostSum ==
    ASSUME NEW S, IsFiniteSet(S), NEW p, \A s \in S : p[s].cost * Fx[s] \in Int,
           NEW g, Adds(g, [s \in S |-> p[s].cost * Fx[s]], S)
    PROVE  MapThenSumSet(LAMBDA s : p[s].cost * Fx[s], S) = g[S]
<1> DEFINE h == [s \in S |-> p[s].cost * Fx[s]]
           Step(i) == [T \in SUBSET S |-> IF T = {} THEN 0 ELSE p[Last(T)].cost * Fx[Last(T)] + i[T \ {Last(T)}]]
           table == CHOOSE i : i = Step(i)
<1>1. MapThenSumSet(LAMBDA s : p[s].cost * Fx[s], S) = table[S]
  BY Zenon DEF MapThenSumSet, MapThenFoldSet, Last
<1>2. h \in [S -> Int] /\ Adds(g, h, S) /\ \A T \in SUBSET S : T # {} => h[Last(T)] = p[Last(T)].cost * Fx[Last(T)]
  BY DEF Last
<1> HIDE DEF h
<1>3. g = Step(g)
  <2>1. \A T \in SUBSET S : g[T] = IF T = {} THEN 0 ELSE h[Last(T)] + g[T \ {Last(T)}]
    <3> TAKE T \in SUBSET S
    <3>1. CASE T = {}
      BY <1>2, <3>1 DEF Adds
    <3>2. CASE T # {}
      <4>1. PICK x \in T : x = Last(T)
        BY <3>2 DEF Last
      <4> QED
        BY <1>2, <3>2, <4>1 DEF Adds
    <3> QED
      BY <3>1, <3>2
  <2>2. \A T \in SUBSET S : g[T] = IF T = {} THEN 0 ELSE p[Last(T)].cost * Fx[Last(T)] + g[T \ {Last(T)}]
    BY <1>2, <2>1
  <2>3. g = [T \in SUBSET S |-> g[T]]
    BY <1>2 DEF Adds
  <2> QED
    BY <2>2, <2>3
<1>4. table = Step(table)
  <2> HIDE DEF Step
  <2> QED
    BY <1>3
<1> HIDE DEF table
<1>5. \A T \in SUBSET S : table[T] = IF T = {} THEN 0 ELSE h[Last(T)] + table[T \ {Last(T)}]
  <2>1. \A T \in SUBSET S : Step(table)[T] = IF T = {} THEN 0 ELSE p[Last(T)].cost * Fx[Last(T)] + table[T \ {Last(T)}]
    OBVIOUS
  <2> HIDE DEF Step
  <2> QED
    BY <1>2, <1>4, <2>1
<1>6. table[S] = g[S]
  BY <1>2, <1>5, TableAdds
<1> QED
  BY <1>1, <1>6

\* The positions p at cost, in the base currency.
AtCost(p) == MapThenSumSet(LAMBDA s : p[s].cost * Fx[s], Symbols)

\* The cost of the positions is a sum that does not depend on the order of the symbols.
LEMMA CostTable ==
    ASSUME IsFiniteSet(Symbols), NEW p \in [Symbols -> Positions]
    PROVE  /\ \A s \in Symbols : p[s].cost * Fx[s] \in Int
           /\ \E g : Adds(g, [s \in Symbols |-> p[s].cost * Fx[s]], Symbols)
           /\ \A g : Adds(g, [s \in Symbols |-> p[s].cost * Fx[s]], Symbols) => AtCost(p) = g[Symbols]
           /\ AtCost(p) \in Int
<1> DEFINE h == [s \in Symbols |-> p[s].cost * Fx[s]]
<1>1. \A s \in Symbols : p[s].cost * Fx[s] \in Int
  <2>1. \A s \in Symbols : p[s].cost \in Int /\ Fx[s] \in Nat \ {0}
    BY SymbolsAssumption DEF Positions
  <2>2. \A s \in Symbols : p[s].cost \in Int /\ Fx[s] \in Int
    BY <2>1
  <2> QED
    BY <2>2
<1>2. h \in [Symbols -> Int]
  BY <1>1
<1> HIDE DEF h
<1>3. PICK g : Adds(g, h, Symbols)
  BY <1>2, AddsExists
<1>4. \A f : Adds(f, h, Symbols) => AtCost(p) = f[Symbols]
  BY <1>1, CostSum, Zenon DEF AtCost, h
<1>5. AtCost(p) \in Int
  BY <1>3, <1>4 DEF Adds
<1> QED
  BY <1>1, <1>3, <1>4, <1>5 DEF h

\* Changing one position changes the cost by that much.
LEMMA CostMoves ==
    ASSUME IsFiniteSet(Symbols), NEW p \in [Symbols -> Positions], NEW q \in [Symbols -> Positions],
           NEW r \in Symbols, \A s \in Symbols : s # r => q[s] = p[s]
    PROVE  AtCost(q) = AtCost(p) + (q[r].cost * Fx[r] - p[r].cost * Fx[r])
<1> DEFINE hp == [s \in Symbols |-> p[s].cost * Fx[s]]
           hq == [s \in Symbols |-> q[s].cost * Fx[s]]
           d == hq[r] - hp[r]
<1>1. hp \in [Symbols -> Int] /\ hq \in [Symbols -> Int] /\ \A s \in Symbols : s # r => hq[s] = hp[s]
  BY CostTable
<1>2. PICK g : Adds(g, hp, Symbols) /\ AtCost(p) = g[Symbols]
  BY CostTable
<1>3. \A f : Adds(f, hq, Symbols) => AtCost(q) = f[Symbols]
  BY CostTable
<1>4. hq[r] = q[r].cost * Fx[r] /\ hp[r] = p[r].cost * Fx[r]
  OBVIOUS
<1> HIDE DEF hp, hq
<1> DEFINE f == [X \in SUBSET Symbols |-> IF r \in X THEN g[X] + d ELSE g[X]]
<1>5. /\ g \in [SUBSET Symbols -> Int] /\ g[{}] = 0 /\ d \in Int
      /\ \A X \in SUBSET Symbols : \A x \in X : g[X] = hp[x] + g[X \ {x}]
  BY <1>1, <1>2 DEF Adds
<1>6. f \in [SUBSET Symbols -> Int] /\ f[{}] = 0
  BY <1>5
<1>7. ASSUME NEW X \in SUBSET Symbols, NEW x \in X PROVE f[X] = hq[x] + f[X \ {x}]
  <2>1. g[X] = hp[x] + g[X \ {x}] /\ X \ {x} \in SUBSET Symbols
        /\ g[X] \in Int /\ g[X \ {x}] \in Int /\ hp[x] \in Int /\ hq[x] \in Int /\ hp[r] \in Int /\ hq[r] \in Int
    BY <1>1, <1>5
  <2>2. CASE x = r
    <3>1. f[X] = g[X] + d /\ f[X \ {x}] = g[X \ {x}]
      BY <2>1, <2>2
    <3> HIDE DEF f
    <3> QED
      BY <2>1, <2>2, <3>1
  <2>3. CASE x # r /\ r \in X
    <3>1. f[X] = g[X] + d /\ f[X \ {x}] = g[X \ {x}] + d
      BY <2>1, <2>3
    <3>2. hq[x] = hp[x]
      BY <1>1, <2>3
    <3> HIDE DEF f
    <3> QED
      BY <1>5, <2>1, <3>1, <3>2
  <2>4. CASE x # r /\ r \notin X
    <3>1. f[X] = g[X] /\ f[X \ {x}] = g[X \ {x}]
      BY <2>1, <2>4
    <3> QED
      BY <1>1, <2>1, <2>4, <3>1
  <2> QED
    BY <2>2, <2>3, <2>4
<1>8. f[Symbols] = g[Symbols] + d
  OBVIOUS
<1> HIDE DEF f
<1>9. Adds(f, hq, Symbols)
  BY <1>6, <1>7 DEF Adds
<1> QED
  BY <1>2, <1>3, <1>4, <1>8, <1>9

\* Positions that are all empty cost nothing.
LEMMA NothingAtCost ==
    ASSUME IsFiniteSet(Symbols)
    PROVE  AtCost([s \in Symbols |-> Flat]) = 0
<1> DEFINE p == [s \in Symbols |-> Flat]
           h == [s \in Symbols |-> p[s].cost * Fx[s]]
           g == [X \in SUBSET Symbols |-> 0]
<1>1. p \in [Symbols -> Positions]
  BY BlankTypes
<1>2. \A s \in Symbols : h[s] = 0
  <2>1. \A s \in Symbols : Fx[s] \in Nat \ {0}
    BY SymbolsAssumption
  <2>2. \A s \in Symbols : Fx[s] \in Int
    BY <2>1
  <2> QED
    BY <2>2 DEF Flat
<1>3. Adds(g, h, Symbols)
  <2> HIDE DEF h
  <2> QED
    BY <1>2 DEF Adds
<1>4. g[Symbols] = 0
  OBVIOUS
<1> HIDE DEF p, g
<1> QED
  BY <1>1, <1>3, <1>4, CostTable DEF p

\* Cash and positions at cost are the initial cash and what was realized, except
\* while a written position is not paid for.
Basis(t) ==
    LET f == frame[t].fill IN
    ~account.legacy =>
        account.cash + AtCost(position) = InitialCash + account.realized +
            (IF pc[t] = "debit" THEN position[f.sym].cost * Fx[f.sym] - frame[t].held.cost * Fx[f.sym] ELSE 0)

\* What a fill takes from the cash it adds to the cost of the position, or
\* realizes.
LEMMA FillBalances ==
    ASSUME NEW f \in Fills, NEW acct \in Accounts, NEW held \in Positions, Affordable(f, acct, held)
    PROVE  CashAfter(f, acct) + (PositionAfter(f, held).cost * Fx[f.sym] - held.cost * Fx[f.sym])
             = acct.cash + RealizedBase(f, held)
<1>1. /\ f.qty \in Nat \ {0} /\ f.price \in Nat \ {0} /\ Fx[f.sym] \in Nat \ {0}
      /\ f.side \in {"BUY", "SELL"}
      /\ held.qty \in Int /\ held.cost \in Int /\ acct.cash \in Int
  BY QuantitiesAssumption, PricesAssumption, SymbolsAssumption
     DEF Fills, Sides, Positions, Accounts
<1>2. PICK v, x, c : /\ v = f.qty * f.price /\ x = Fx[f.sym] /\ c = held.cost
                     /\ v \in Int /\ x \in Int /\ c \in Int
  BY <1>1
<1>3. CASE f.side = "BUY"
  <2>1. CashAfter(f, acct) = acct.cash - v * x /\ RealizedBase(f, held) = 0
    BY <1>1, <1>2, <1>3 DEF CashAfter, RealizedBase, ValueBase
  <2>2. PositionAfter(f, held).cost = c + v
    BY <1>1, <1>2, <1>3 DEF PositionAfter
  <2>3. (c + v) * x = c * x + v * x /\ c * x \in Int /\ v * x \in Int
    BY <1>2
  <2> QED
    BY <1>1, <1>2, <2>1, <2>2, <2>3
<1>4. CASE f.side = "SELL"
  <2>1. held.qty \in Nat \ {0}
    BY <1>1, <1>4 DEF Affordable
  <2>2. PICK r : r = Relief(f, held) /\ r \in Int
    <3>1. held.cost * f.qty \in Int
      BY <1>1
    <3> QED
      BY <2>1, <3>1 DEF Relief
  <2>3. CashAfter(f, acct) = acct.cash + v * x /\ RealizedBase(f, held) = (v - r) * x
    BY <1>1, <1>2, <1>4, <2>2 DEF CashAfter, RealizedBase, ValueBase
  <2>4. PositionAfter(f, held).cost = c - r
    <3>1. CASE f.qty # held.qty
      BY <1>1, <1>2, <1>4, <2>2, <3>1 DEF PositionAfter
    <3>2. CASE f.qty = held.qty
      <4>1. r = c
        <5>1. r = (c * held.qty) \div held.qty
          BY <1>2, <2>2, <3>2 DEF Relief
        <5> QED
          BY <1>2, <2>1, <5>1
      <4>2. PositionAfter(f, held).cost = 0
        BY <1>4, <3>2 DEF PositionAfter, Flat
      <4> QED
        BY <1>2, <4>1, <4>2
    <3> QED
      BY <3>1, <3>2
  <2>5. /\ (v - r) * x = v * x - r * x /\ (c - r) * x = c * x - r * x
        /\ v * x \in Int /\ r * x \in Int /\ c * x \in Int
    BY <1>2, <2>2
  <2> QED
    BY <1>1, <1>2, <2>3, <2>4, <2>5
<1> QED
  BY <1>1, <1>3, <1>4

\* Every step but a crash leaves the cost basis as far off as the fill in hand explains.
LEMMA BasisKept ==
    ASSUME NEW t, Threads = {t}, IsFiniteSet(Symbols), IInv, IInv', SerialInv(t), Basis(t), [Next]_vars, ~Crash
    PROVE  Basis(t)'
<1>1. CASE UNCHANGED <<account, position>> /\ pc[t] # "debit" /\ pc'[t] # "debit"
  BY <1>1 DEF Basis
<1>2. CASE UNCHANGED <<account, position, pc, frame>>
  BY <1>2 DEF Basis
<1>3. CASE WritePosition(t)
  <2>1. UNCHANGED account /\ pc[t] = "write" /\ pc'[t] = "debit" /\ frame'[t] = frame[t] /\ frame[t] \in Frames
    BY <1>3 DEF WritePosition, Goto, IInv, TypeOK
  <2>2. PICK fill, held : /\ fill = frame[t].fill /\ held = frame[t].held /\ fill \in Fills /\ fill.sym \in Symbols
                          /\ held = position[fill.sym] /\ held \in Positions
    BY <2>1 DEF Frames, Fills, SerialInv, Copies
  <2>3. position' = [position EXCEPT ![fill.sym] = PositionAfter(fill, held)]
    BY <1>3, <2>2 DEF WritePosition
  <2>4. /\ position \in [Symbols -> Positions] /\ position' \in [Symbols -> Positions]
        /\ \A s \in Symbols : s # fill.sym => position'[s] = position[s]
    BY <2>3 DEF IInv, TypeOK
  <2>5. AtCost(position') = AtCost(position) + (position'[fill.sym].cost * Fx[fill.sym] - held.cost * Fx[fill.sym])
    BY <2>2, <2>4, CostMoves
  <2>6. AtCost(position) \in Int /\ position'[fill.sym].cost * Fx[fill.sym] \in Int /\ held.cost * Fx[fill.sym] \in Int
    BY <2>2, <2>4, CostTable
  <2>7. account.cash \in Int /\ account.realized \in Int /\ InitialCash \in Int
    BY MoneyAssumption DEF IInv, TypeOK, Accounts
  <2>8. ~account.legacy => account.cash + AtCost(position) = InitialCash + account.realized
    BY <2>1, <2>7 DEF Basis
  <2>9. ~account.legacy => account.cash + AtCost(position')
           = InitialCash + account.realized + (position'[fill.sym].cost * Fx[fill.sym] - held.cost * Fx[fill.sym])
    BY <2>5, <2>6, <2>7, <2>8
  <2>10. AtCost(position)' = AtCost(position')
    BY Zenon DEF AtCost, MapThenSumSet, MapThenFoldSet
  <2> QED
    BY <2>1, <2>2, <2>9, <2>10 DEF Basis
<1>4. CASE UpdateAccount(t)
  <2>1. UNCHANGED position /\ pc[t] = "debit" /\ pc'[t] = "log" /\ frame'[t] = frame[t] /\ frame[t] \in Frames
        /\ account \in Accounts
    BY <1>4 DEF UpdateAccount, Goto, IInv, TypeOK
  <2>2. PICK fill, held : /\ fill = frame[t].fill /\ held = frame[t].held /\ fill \in Fills /\ fill.sym \in Symbols
                          /\ held \in Positions /\ frame[t].acct = account
                          /\ position[fill.sym] = PositionAfter(fill, held)
    BY <2>1 DEF Frames, Fills, SerialInv, Copies
  <2>3. Affordable(fill, account, held)
    BY <2>1, <2>2 DEF IInv, GoodFrame
  <2>4. /\ account'.cash = CashAfter(fill, account) /\ account'.realized = account.realized + RealizedBase(fill, held)
        /\ account'.legacy = account.legacy
    <3>1. account' = [account EXCEPT !.cash = CashAfter(fill, account),
                                     !.realized = account.realized + RealizedBase(fill, held)]
      BY <1>4, <2>2 DEF UpdateAccount
    <3> QED
      BY <2>1, <3>1 DEF Accounts
  <2>5. CashAfter(fill, account) + (position[fill.sym].cost * Fx[fill.sym] - held.cost * Fx[fill.sym])
          = account.cash + RealizedBase(fill, held)
    BY <2>1, <2>2, <2>3, FillBalances
  <2>6. /\ position \in [Symbols -> Positions] /\ AtCost(position) \in Int
        /\ position[fill.sym].cost * Fx[fill.sym] \in Int /\ held.cost * Fx[fill.sym] \in Int
    <3>1. position \in [Symbols -> Positions]
      BY DEF IInv, TypeOK
    <3>2. held.cost \in Int /\ Fx[fill.sym] \in Nat \ {0}
      BY <2>2, SymbolsAssumption DEF Positions
    <3>3. held.cost * Fx[fill.sym] \in Int
      BY <3>2
    <3> QED
      BY <2>2, <3>1, <3>3, CostTable
  <2>7. /\ account.cash \in Int /\ account.realized \in Int /\ InitialCash \in Int
        /\ CashAfter(fill, account) \in Int /\ RealizedBase(fill, held) \in Int
    BY <2>1, <2>2, <2>3, MoneyAssumption, FillTypes DEF Accounts
  <2>8. ~account.legacy => account.cash + AtCost(position)
           = InitialCash + account.realized + (position[fill.sym].cost * Fx[fill.sym] - held.cost * Fx[fill.sym])
    BY <2>1, <2>2 DEF Basis
  <2>9. ~account.legacy => account'.cash + AtCost(position) = InitialCash + account'.realized + 0
    <3>1. PICK d : /\ d = position[fill.sym].cost * Fx[fill.sym] - held.cost * Fx[fill.sym] /\ d \in Int
      BY <2>6
    <3>2. CashAfter(fill, account) + d = account.cash + RealizedBase(fill, held)
      BY <2>5, <3>1
    <3>3. ~account.legacy => account.cash + AtCost(position) = InitialCash + account.realized + d
      BY <2>8, <3>1
    <3>4. AtCost(position) \in Int
      BY <2>6
    <3>5. PICK a, c, r, k, e : /\ a = AtCost(position) /\ c = CashAfter(fill, account) /\ r = RealizedBase(fill, held)
                               /\ k = account.cash /\ e = account.realized
                               /\ a \in Int /\ c \in Int /\ r \in Int /\ k \in Int /\ e \in Int
      BY <2>7, <3>4
    <3>6. k + a = InitialCash + e + d => c + a = InitialCash + (e + r) + 0
      BY <2>7, <3>1, <3>2, <3>5
    <3> QED
      BY <2>4, <3>3, <3>5, <3>6
  <2>10. AtCost(position)' = AtCost(position)
    BY <2>1, Zenon DEF AtCost, MapThenSumSet, MapThenFoldSet
  <2> QED
    BY <2>1, <2>4, <2>9, <2>10 DEF Basis
<1>5. CASE Migrate(t) \/ Reset(t)
  <2>1. account' = FreshAccount /\ position' = [s \in Symbols |-> Flat] /\ pc'[t] = "acct"
    BY <1>5 DEF Migrate, Reset, Wipe, Goto, CallAccount, IInv, TypeOK
  <2>2. AtCost(position)' = 0
    <3>1. AtCost(position)' = AtCost([s \in Symbols |-> Flat])
      BY <2>1, Zenon DEF AtCost, MapThenSumSet, MapThenFoldSet
    <3> QED
      BY <3>1, NothingAtCost
  <2> QED
    BY <2>1, <2>2, MoneyAssumption DEF Basis, FreshAccount
<1>6. CASE Start(t)
  <2>1. UNCHANGED <<account, position>> /\ pc[t] # "debit" /\ pc'[t] # "debit"
    BY <1>6 DEF Start, StartPoll, StartPreview, StartPlace, StartCancel, StartReset, Receive, CallAccount, Goto,
                store, IInv, TypeOK
  <2> QED
    BY <1>1, <2>1
<1>7. CASE Run(t) /\ ~WritePosition(t) /\ ~UpdateAccount(t) /\ ~(Migrate(t) \/ Reset(t))
  <2>1. CASE ReadAccount(t)
    <3>1. UNCHANGED <<account, position>> /\ pc[t] = "acct" /\ pc'[t] \in {"migrate", "idle", frame[t].ret}
          /\ frame[t].ret \in Returns
      BY <2>1 DEF ReadAccount, Return, Goto, store, IInv, TypeOK, Frames
    <3> QED
      BY <1>1, <3>1 DEF Returns
  <2>2. CASE Settle(t)
    <3>1. UNCHANGED <<account, position>> /\ pc[t] \in {"list", "settle", "reject"}
          /\ pc'[t] \in {"settle", "acct", "route", "idle"}
      BY <2>2 DEF Settle, ListPending, SettleSkip, SettleMark, SettleDone, SettleReject,
                  Return, CallAccount, Goto, store, IInv, TypeOK
    <3> QED
      BY <1>1, <3>1
  <2>3. CASE RouteToQueue(t) \/ RouteToFill(t) \/ ReadPosition(t) \/ AddTrade(t)
    <3>1. UNCHANGED <<account, position>> /\ pc[t] \in {"route", "pos", "log"}
          /\ pc'[t] \in {"settle", "acct", "idle", "write", "reject"}
      BY <2>3 DEF RouteToQueue, RouteToFill, ReadPosition, AddTrade, Return, CallAccount, Goto, store, IInv, TypeOK
    <3> QED
      BY <1>1, <3>1
  <2>4. CASE QueuePending(t) \/ Lookup(t) \/ MarkCancelled(t)
    <3>1. UNCHANGED <<account, position>> /\ pc[t] \in {"reserve", "held", "promised", "enqueue", "lookup", "mark"}
          /\ pc'[t] \in {"enqueue", "promised", "acct", "idle", "mark"}
      BY <2>4 DEF QueuePending, CheckReserve, ReadHeld, CheckPromised, Enqueue, Lookup, MarkCancelled,
                  Return, CallAccount, Goto, store, IInv, TypeOK
    <3> QED
      BY <1>1, <3>1
  <2> QED
    BY <1>7, <2>1, <2>2, <2>3, <2>4 DEF Run, ExecuteFill
<1>8. CASE UNCHANGED vars \/ Tick \/ \E s \in Symbols : Refresh(s)
  <2>1. UNCHANGED <<account, position, pc, frame>>
    BY <1>8 DEF vars, store, Tick, Refresh
  <2> QED
    BY <1>2, <2>1
<1> QED
  BY <1>3, <1>4, <1>5, <1>6, <1>7, <1>8 DEF Next

\* When requests come one after the other and none is cut short, realized P/L is
\* exactly what left the cost basis, however many fills there were.
THEOREM BasisBalances ==
    ASSUME NEW t, Threads = {t}, MaxCrashes = 0, IsFiniteSet(Symbols)
    PROVE  Spec => []CostBasis
<1>1. Init => Basis(t)
  <2> SUFFICES ASSUME Init PROVE Basis(t)
    OBVIOUS
  <2>1. position = [s \in Symbols |-> Flat] /\ pc[t] = "idle" /\ (account = FreshAccount \/ account.legacy = TRUE)
    BY DEF Init
  <2>2. AtCost(position) = 0
    BY <2>1, NothingAtCost
  <2> QED
    BY <2>1, <2>2, MoneyAssumption DEF Basis, FreshAccount
<1>2. IInv /\ IInv' /\ SerialInv(t) /\ Basis(t) /\ [Next]_vars => Basis(t)'
  <2>1. IInv => ~Crash
    BY DEF Crash, IInv, TypeOK
  <2> QED
    BY <2>1, BasisKept
<1>3. IInv /\ Basis(t) => CostBasis
  <2> SUFFICES ASSUME IInv, Basis(t), ~Filling(t), ~account.legacy
               PROVE  account.cash + MapThenSumSet(LAMBDA s : position[s].cost * Fx[s], Symbols)
                        = InitialCash + account.realized
    BY DEF CostBasis
  <2>1. account.realized \in Int /\ InitialCash \in Int /\ pc[t] # "debit"
    BY MoneyAssumption DEF IInv, TypeOK, Accounts, Filling
  <2>2. account.cash + AtCost(position) = InitialCash + account.realized
    BY <2>1 DEF Basis
  <2>3. AtCost(position) = MapThenSumSet(LAMBDA s : position[s].cost * Fx[s], Symbols)
    BY Zenon DEF AtCost
  <2> QED
    BY <2>2, <2>3, Zenon
<1> QED
  BY <1>1, <1>2, <1>3, SerialInvariance, PTL DEF Spec
=============================================================================
