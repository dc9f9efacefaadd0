---------------------- MODULE ConfirmedOrders_proofs ----------------------
(***************************************************************************)
(* Theorems about ConfirmedOrders, for any orders, caps, lives of tokens,  *)
(* retries and number of requests.                                         *)
(***************************************************************************)
EXTENDS ConfirmedOrders, FiniteSetTheorems, SequenceTheorems, TLAPS

-----------------------------------------------------------------------------
(* The connection.  That there is one says nothing of who may open the      *)
(* next: a thread past the lock holds it, and only such a thread has one.   *)

PastLock(t) == At(t, "connect") \/ At(t, "use") \/ At(t, "leave")

GateHeld ==
    /\ pc = [t \in Threads |-> pc[t]]
    /\ sockets \subseteq Threads
    /\ \A t \in Threads : PastLock(t) => gate = t
    /\ \A t \in sockets : At(t, "use") \/ At(t, "leave")

LEMMA GateInit == PoolInit /\ OrdersInit => GateHeld
BY DEF PoolInit, OrdersInit, GateHeld, PastLock, At

\* Where a handler goes on, it does not hold the gateway.
LEMMA NextCallGoes ==
    ASSUME NEW t, NEW f, NextCall(t, f)
    PROVE  \E l \in {"idle", "call", "lock"} : pc' = [pc EXCEPT ![t] = l]
BY DEF NextCall, Go, Done

\* A call that returns goes on to the next one, to the record or to the end.
LEMMA ReturnedGoes ==
    ASSUME NEW t, NEW f, NEW answered, Returned(t, f, answered)
    PROVE  \E l \in {"idle", "call", "lock", "record"} : pc' = [pc EXCEPT ![t] = l]
BY NextCallGoes DEF Returned, Go, Done

\* A step of a thread outside the lock.
LEMMA OutsideLock ==
    ASSUME GateHeld, NEW t \in Threads, ~PastLock(t),
           NEW l \in {"idle", "guard", "call", "lock", "record"},
           pc' = [pc EXCEPT ![t] = l], UNCHANGED <<gate, sockets>>
    PROVE  GateHeld'
BY DEF GateHeld, PastLock, At

LEMMA GateStep == GateHeld /\ [OrdersNext]_ordersAll => GateHeld'
<1> SUFFICES ASSUME GateHeld, [OrdersNext]_ordersAll PROVE GateHeld'
  OBVIOUS
<1>1. CASE UNCHANGED ordersAll \/ Tick \/ GatewayFreesId
  BY <1>1 DEF ordersAll, orderVars, gateway, pool, Tick, GatewayFreesId, GateHeld, PastLock, At
<1>2. ASSUME NEW t \in Threads, Preview(t) \/ StartPlace(t) \/ StartRead(t) \/ StartCancel(t)
      PROVE  GateHeld'
  <2>1. ~PastLock(t) /\ UNCHANGED <<gate, sockets>>
    BY <1>2 DEF Preview, StartPlace, StartRead, StartCancel, Begin, PastLock, At, orderVars, gateway
  <2>2. \E l \in {"idle", "guard", "call", "lock", "record"} : pc' = [pc EXCEPT ![t] = l]
    BY <1>2 DEF Preview, StartPlace, StartRead, StartCancel, Begin
  <2> QED
    BY <2>1, <2>2, OutsideLock
<1>3. ASSUME NEW t \in Threads, Guard(t) PROVE GateHeld'
  <2>1. ~PastLock(t) /\ UNCHANGED <<gate, sockets>>
    BY <1>3 DEF Guard, PastLock, At, orderVars, gateway
  <2>2. \E l \in {"idle", "call", "lock"} : pc' = [pc EXCEPT ![t] = l]
    BY <1>3, NextCallGoes DEF Guard, Done, Go
  <2> QED
    BY <2>1, <2>2, OutsideLock
<1>4. ASSUME NEW t \in Threads, Call(t) PROVE GateHeld'
  <2>1. ~PastLock(t) /\ UNCHANGED <<gate, sockets>>
    BY <1>4 DEF Call, PastLock, At, gateway
  <2>2. \E l \in {"idle", "call", "lock", "record"} : pc' = [pc EXCEPT ![t] = l]
    BY <1>4, ReturnedGoes DEF Call
  <2> QED
    BY <2>1, <2>2, OutsideLock
<1>5. ASSUME NEW t \in Threads, Record(t) PROVE GateHeld'
  <2>1. ~PastLock(t) /\ UNCHANGED <<gate, sockets>> /\ pc' = [pc EXCEPT ![t] = "idle"]
    BY <1>5 DEF Record, PastLock, At, gateway, Done, Go
  <2> QED
    BY <2>1, OutsideLock
<1>6. ASSUME NEW t \in Threads, LockGateway(t) PROVE GateHeld'
  <2>1. \A u \in Threads : ~PastLock(u)
    BY <1>6, GateAssumption DEF LockGateway, GateHeld
  <2>2. gate' = t /\ sockets' = sockets /\ pc' = [pc EXCEPT ![t] = "connect"]
    BY <1>6 DEF LockGateway, Go
  <2> QED
    BY <2>1, <2>2 DEF GateHeld, PastLock, At
<1>7. ASSUME NEW t \in Threads, Connect(t) PROVE GateHeld'
  <2>1. At(t, "connect") /\ \A u \in Threads : PastLock(u) => u = t
    BY <1>7 DEF Connect, GateHeld, PastLock
  <2>2. \/ pc' = [pc EXCEPT ![t] = "use"] /\ sockets' = sockets \cup {t} /\ gate' = gate
        \/ pc' = [pc EXCEPT ![t] = "connect"] /\ UNCHANGED <<gate, sockets>>
        \/ pc' = [pc EXCEPT ![t] = "idle"] /\ gate' = Nobody /\ sockets' = sockets
    BY <1>7 DEF Connect, Go, Done
  <2> QED
    BY <2>1, <2>2 DEF GateHeld, PastLock, At
<1>8. ASSUME NEW t \in Threads, UseGateway(t) PROVE GateHeld'
  BY <1>8 DEF UseGateway, Go, gateway, GateHeld, PastLock, At
<1>9. ASSUME NEW t \in Threads, LeaveGateway(t) PROVE GateHeld'
  <2>1. At(t, "leave") /\ \A u \in Threads : PastLock(u) => u = t
    BY <1>9 DEF LeaveGateway, GateHeld, PastLock
  <2>2. sockets' = sockets \ {t}
    BY <1>9 DEF LeaveGateway
  <2>3. PICK l \in {"idle", "call", "lock", "record"} : pc' = [pc EXCEPT ![t] = l]
    BY <1>9, ReturnedGoes DEF LeaveGateway
  <2> QED
    BY <2>1, <2>2, <2>3 DEF GateHeld, PastLock, At
<1> QED
  BY <1>1, <1>2, <1>3, <1>4, <1>5, <1>6, <1>7, <1>8, <1>9 DEF OrdersNext

\* Whoever is connected is in the lock, so there is one connection.
LEMMA HeldByOne == GateHeld => OneConnection
<1> SUFFICES ASSUME GateHeld PROVE Cardinality(sockets) <= 1
  BY DEF OneConnection
<1>1. sockets \subseteq {gate}
  BY DEF GateHeld, PastLock
<1>2. IsFiniteSet({gate}) /\ Cardinality({gate}) = 1
  BY FS_Singleton
<1>3. Cardinality(sockets) <= Cardinality({gate})
  BY <1>1, <1>2, FS_Subset
<1> QED
  BY <1>2, <1>3

\* The gateway refuses a second connection with the client id in use: although each
\* request has a service and a client of its own, _GATEWAY_LOCK lets one connect at
\* a time, whatever is retried, fails or raises.
THEOREM GatewaySeesOneConnection == OrdersSpec => []OneConnection
<1>1. PoolInit /\ OrdersInit => GateHeld
  BY GateInit
<1>2. GateHeld /\ [OrdersNext]_ordersAll => GateHeld'
  BY GateStep
<1>3. GateHeld => OneConnection
  BY HeldByOne
<1> QED
  BY <1>1, <1>2, <1>3, PTL DEF OrdersSpec

-----------------------------------------------------------------------------
(* The confirmation and the guard.  An order at the broker was carried there *)
(* by a handler that outlives its token and its look at _recent: what was   *)
(* true when the token was checked, and when the guard let the order pass,  *)
(* has to follow it through the lock, the connection, its retries and the   *)
(* calls before its own.                                                    *)

\* Among the previews ps, one of order o was young enough at the time c.
Quoted(ps, o, c) ==
    \E p \in ps :
        /\ <<p.order.symbol, p.order.side, p.order.type>> = <<o.symbol, o.side, o.type>>
        /\ Formatted(p.order.quantity) = Formatted(o.quantity)
        /\ Formatted(p.order.price) = Formatted(o.price)
        /\ p.at <= c /\ c - p.at <= Ttl

HasOrder(ps, f) ==
    /\ {"order", "confirmed"} \subseteq DOMAIN f /\ f.order \in Orders
    /\ Quoted(ps, f.order, f.confirmed)

\* Of the first seen of the marks ms, none speaks against order o at the time n.
Apart(ms, o, n, seen) ==
    \A m \in 1..seen : ms[m].signature = Signature(o) =>
        \/ n - ms[m].now >= Window
        \/ \E later \in (m + 1)..seen : ms[later].signature = Signature(o) /\ ms[later].now < ms[m].now

\* The order of f is confirmed and has passed the guard.
Guarded(ps, ms, f) ==
    /\ HasOrder(ps, f)
    /\ {"now", "seen"} \subseteq DOMAIN f /\ f.now \in Nat /\ f.seen \in 0..Len(ms)
    /\ Apart(ms, f.order, f.now, f.seen)

CallNames == {"probe", "read", "order", "cancel"}

\* The calls that are left to a handler: it has an order for the one that needs it.
Carries(ps, ms, f) ==
    /\ "calls" \in DOMAIN f /\ f.calls \in Seq(CallNames)
    /\ Guarded(ps, ms, f) \/ \A i \in DOMAIN f.calls : f.calls[i] # "order"

Calling(t) == At(t, "call") \/ At(t, "lock") \/ At(t, "connect") \/ At(t, "use") \/ At(t, "leave")

Handlers ==
    /\ pc = [t \in Threads |-> pc[t]] /\ frame = [t \in Threads |-> frame[t]]
    /\ \A t \in Threads :
         /\ At(t, "guard") => HasOrder(previews, frame[t])
         /\ Calling(t) => Carries(previews, marks, frame[t]) /\ frame[t].calls # <<>>
         /\ At(t, "record") => Guarded(previews, marks, frame[t])

Previews ==
    /\ ticks \in Nat
    /\ \A p \in previews : p.order \in Orders /\ p.at \in Nat /\ p.at <= ticks

Book ==
    /\ Len(book) \in Nat /\ book = [i \in 1..Len(book) |-> book[i]]
    /\ \A i \in 1..Len(book) : Guarded(previews, marks, book[i])

\* What _recent says of a signature is the last mark of it.
LastMark(s) ==
    \/ recent[s] = Never /\ \A m \in 1..Len(marks) : marks[m].signature # s
    \/ \E k \in 1..Len(marks) :
           /\ marks[k].signature = s /\ marks[k].now = recent[s]
           /\ \A m \in (k + 1)..Len(marks) : marks[m].signature # s

Marks ==
    /\ marks \in Seq([signature : Signatures, now : Nat])
    /\ venue = "MOOMOO" \/ marks = <<>>
    /\ recent = [s \in Signatures |-> recent[s]]
    /\ \A s \in Signatures : LastMark(s)

IInv == Handlers /\ Previews /\ Book /\ Marks

LEMMA InitInv == PoolInit /\ OrdersInit => IInv
BY DEF PoolInit, OrdersInit, IInv, Handlers, Previews, Book, Calling, At, Marks, LastMark

\* The marks ns begin with the marks ms.
Grows(ms, ns) ==
    /\ Len(ms) \in Nat /\ Len(ns) \in Nat /\ Len(ms) <= Len(ns)
    /\ \A m \in 1..Len(ms) : ns[m] = ms[m]

\* Previews and marks are not forgotten.
LEMMA StillHas ==
    ASSUME NEW ps, NEW qs, ps \subseteq qs, NEW ms, NEW ns, Grows(ms, ns), NEW f
    PROVE  /\ HasOrder(ps, f) => HasOrder(qs, f)
           /\ Guarded(ps, ms, f) => Guarded(qs, ns, f)
           /\ Carries(ps, ms, f) => Carries(qs, ns, f)
<1>1. HasOrder(ps, f) => HasOrder(qs, f)
  BY DEF HasOrder, Quoted
<1>2. ASSUME Guarded(ps, ms, f) PROVE Guarded(qs, ns, f)
  <2>1. f.seen \in 0..Len(ns) /\ \A m \in 1..f.seen : ns[m] = ms[m]
    BY <1>2 DEF Grows, Guarded
  <2>2. Apart(ns, f.order, f.now, f.seen)
    <3> SUFFICES ASSUME NEW m \in 1..f.seen, ns[m].signature = Signature(f.order)
                 PROVE  \/ f.now - ns[m].now >= Window
                        \/ \E later \in (m + 1)..f.seen :
                               ns[later].signature = Signature(f.order) /\ ns[later].now < ns[m].now
      BY DEF Apart
    <3>1. \/ f.now - ms[m].now >= Window
          \/ \E later \in (m + 1)..f.seen :
                 ms[later].signature = Signature(f.order) /\ ms[later].now < ms[m].now
      BY <1>2, <2>1 DEF Guarded, Apart
    <3>2. \A later \in (m + 1)..f.seen : later \in 1..f.seen
      BY <2>1
    <3> QED
      BY <2>1, <3>1, <3>2
  <2> QED
    BY <1>1, <1>2, <2>1, <2>2 DEF Guarded
<1> QED
  BY <1>1, <1>2 DEF Carries

Kept == previews \subseteq previews' /\ Grows(marks, marks')

\* Previews and marks are only ever added to.
LEMMA NothingForgotten ==
    ASSUME Marks, previews \subseteq previews', UNCHANGED marks
    PROVE  Kept
BY DEF Kept, Grows, Marks

\* One signature, one order up to the digits that are kept.
LEMMA SignatureSame ==
    ASSUME NEW o \in Orders, NEW q \in Orders, Signature(q) = Signature(o)
    PROVE  /\ <<q.symbol, q.side, q.type>> = <<o.symbol, o.side, o.type>>
           /\ Formatted(q.quantity) = Formatted(o.quantity)
           /\ Formatted(q.price) = Formatted(o.price)
<1>1. ASSUME NEW r \in Orders
      PROVE  Signature(r) = [symbol |-> r.symbol, side |-> r.side, quantity |-> Formatted(r.quantity),
                             type |-> r.type, price |-> Formatted(r.price)]
  <2> DEFINE h == [r EXCEPT !.quantity = Formatted(r.quantity)]
  <2>1. h = [symbol |-> r.symbol, side |-> r.side, quantity |-> Formatted(r.quantity),
             type |-> r.type, price |-> r.price]
    BY OrderFields
  <2>2. Signature(r) = [h EXCEPT !.price = Formatted(h.price)]
    BY <2>1, Zenon DEF Signature
  <2> HIDE DEF h
  <2> QED
    BY <2>1, <2>2
<1> QED
  BY <1>1

\* What the token says at the moment it is checked.
LEMMA TokenSays ==
    ASSUME Previews, NEW o \in Orders, NEW p \in previews, TokenFits(o, p)
    PROVE  Quoted(previews, o, ticks)
<1>1. p.at \in Nat /\ p.at <= ticks /\ ticks \in Nat /\ p.order \in Orders /\ Ttl \in Nat
  BY OrdersAssumption DEF Previews
<1>2. ticks - Second(p.at) <= Ttl /\ Second(p.at) <= p.at /\ Second(p.at) \in Nat
  BY <1>1 DEF TokenFits, Live, Second
<1>3. ticks - p.at <= Ttl
  BY <1>1, <1>2
<1> QED
  BY <1>1, <1>3, SignatureSame DEF TokenFits, Quoted

\* Thread t goes to l with locals that carry what it needs there; no preview goes.
LEMMA Goes ==
    ASSUME Handlers, Kept, NEW t \in Threads, NEW l, NEW f,
           pc' = [pc EXCEPT ![t] = l], frame' = [frame EXCEPT ![t] = f],
           l = "guard" => HasOrder(previews', f),
           l \in {"call", "lock", "connect", "use", "leave"} =>
               Carries(previews', marks', f) /\ f.calls # <<>>,
           l = "record" => Guarded(previews', marks', f)
    PROVE  Handlers'
<1>1. /\ pc' = [u \in Threads |-> pc'[u]] /\ frame' = [u \in Threads |-> frame'[u]]
      /\ pc'[t] = l /\ frame'[t] = f
      /\ \A u \in Threads : u # t => pc'[u] = pc[u] /\ frame'[u] = frame[u]
  BY DEF Handlers
<1>2. ASSUME NEW u \in Threads
      PROVE  /\ At(u, "guard")' => HasOrder(previews', frame'[u])
             /\ Calling(u)' => Carries(previews', marks', frame'[u]) /\ frame'[u].calls # <<>>
             /\ At(u, "record")' => Guarded(previews', marks', frame'[u])
  <2>1. CASE u = t
    BY <1>1, <2>1 DEF At, Calling
  <2>2. CASE u # t
    <3>1. /\ At(u, "guard")' <=> At(u, "guard")
          /\ Calling(u)' <=> Calling(u)
          /\ At(u, "record")' <=> At(u, "record")
          /\ frame'[u] = frame[u]
      BY <1>1, <2>2 DEF At, Calling
    <3> QED
      BY <3>1, StillHas DEF Handlers, Kept
  <2> QED
    BY <2>1, <2>2
<1> QED
  BY <1>1, <1>2 DEF Handlers, At, Calling, HasOrder, Carries, Guarded, Quoted, Apart

\* So an order in the book stays one that was confirmed.
LEMMA BookStays == ASSUME Book, Kept, UNCHANGED book PROVE Book'
<1>1. \A i \in 1..Len(book) : Guarded(previews', marks', book[i])
  BY StillHas DEF Book, Kept
<1> QED
  BY <1>1 DEF Book, Guarded, HasOrder, Quoted, Apart

Told == {"calls", "order", "confirmed", "now", "seen"}

\* What f tells of its order and calls, g tells too.
Keeps(f, g) == \A k \in DOMAIN f \cap Told : k \in DOMAIN g /\ g[k] = f[k]

\* Locals that keep the order and the calls carry what the others did.
LEMMA Agree ==
    ASSUME NEW ps, NEW ms, NEW f, NEW g, Carries(ps, ms, f), Keeps(f, g)
    PROVE  Carries(ps, ms, g) /\ g.calls = f.calls
<1>1. "calls" \in DOMAIN g /\ g.calls = f.calls
  BY DEF Carries, Told, Keeps
<1>2. Guarded(ps, ms, f) => Guarded(ps, ms, g)
  BY DEF Guarded, HasOrder, Told, Keeps
<1> QED
  BY <1>1, <1>2 DEF Carries

\* A step that ends the request, or goes on to its next call.
LEMMA NextCallGoesOn ==
    ASSUME Handlers, Kept, NEW t \in Threads, NEW f,
           Carries(previews', marks', f), NextCall(t, f)
    PROVE  Handlers'
<1>1. CASE f.calls = <<>>
  BY <1>1, Goes DEF NextCall, Done, Go
<1>2. CASE f.calls # <<>>
  <2>1. PICK l \in {"call", "lock"} : pc' = [pc EXCEPT ![t] = l] /\ frame' = [frame EXCEPT ![t] = f]
    BY <1>2 DEF NextCall, Go
  <2> QED
    BY <1>2, <2>1, Goes
<1> QED
  BY <1>1, <1>2

LEMMA ReturnedGoesOn ==
    ASSUME Handlers, Kept, NEW t \in Threads, NEW f, NEW answered,
           Carries(previews', marks', f), f.calls # <<>>, Returned(t, f, answered)
    PROVE  Handlers'
<1>1. CASE ~answered
  BY <1>1, Goes DEF Returned, Done, Go
<1>2. CASE answered /\ Head(f.calls) = "order"
  <2>1. Guarded(previews', marks', f)
    BY <1>2 DEF Carries
  <2> QED
    BY <1>2, <2>1, Goes DEF Returned, Go
<1>3. CASE answered /\ Head(f.calls) # "order"
  <2> DEFINE g == [f EXCEPT !.calls = Tail(f.calls)]
  <2>1. NextCall(t, g)
    BY <1>3, Zenon DEF Returned
  <2>2. "calls" \in DOMAIN f /\ f.calls \in Seq(CallNames)
    BY DEF Carries
  <2>3. /\ Tail(f.calls) \in Seq(CallNames)
        /\ \A i \in DOMAIN Tail(f.calls) : i + 1 \in DOMAIN f.calls /\ Tail(f.calls)[i] = f.calls[i + 1]
    BY <2>2
  <2>4. /\ DOMAIN g = DOMAIN f /\ g.calls = Tail(f.calls) /\ g["order"] = f["order"]
        /\ g["confirmed"] = f["confirmed"] /\ g["now"] = f["now"] /\ g["seen"] = f["seen"]
    BY <2>2
  <2> HIDE DEF g
  <2>5. Guarded(previews', marks', f) => Guarded(previews', marks', g)
    BY <2>4 DEF Guarded, HasOrder
  <2>6. Carries(previews', marks', g)
    BY <2>2, <2>3, <2>4, <2>5 DEF Carries
  <2> QED
    BY <2>1, <2>6, NextCallGoesOn
<1> QED
  BY <1>1, <1>2, <1>3

\* An order that a handler had comes into the book with its confirmation.
LEMMA AtBrokerKeepsBook ==
    ASSUME Book, Kept, UNCHANGED <<previews, marks>>, NEW f, NEW answered,
           Carries(previews, marks, f), f.calls # <<>>, AtBroker(f, answered)
    PROVE  Book'
<1>1. CASE book' = book
  BY <1>1, BookStays
<1>2. CASE Head(f.calls) = "order" /\ book' = Append(book, Placed(f))
  <2>1. Guarded(previews, marks, f)
    BY <1>2 DEF Carries
  <2>2. Guarded(previews, marks, Placed(f))
    BY <2>1 DEF Guarded, HasOrder, Placed
  <2> DEFINE n == Len(book)
             S == {book[i] : i \in 1..n} \cup {Placed(f)}
  <2>3. book \in Seq(S) /\ Placed(f) \in S
    <3>1. n \in Nat /\ book \in [1..n -> S]
      BY DEF Book
    <3> QED
      BY <3>1, SeqDef
  <2>4. /\ book' \in Seq(S) /\ Len(book') = n + 1
        /\ \A i \in 1..n : book'[i] = book[i]
        /\ book'[n + 1] = Placed(f)
    <3> HIDE DEF S
    <3> QED
      BY <1>2, <2>3, AppendProperties
  <2>5. Len(book') \in Nat /\ book' = [i \in 1..Len(book') |-> book'[i]]
    <3> HIDE DEF S
    <3> QED
      BY <2>4, LenProperties DEF Book
  <2>6. \A i \in 1..Len(book') : Guarded(previews, marks, book'[i])
    BY <2>2, <2>4 DEF Book
  <2> QED
    BY <2>5, <2>6 DEF Book, Guarded, HasOrder, Quoted, Apart
<1>3. CASE book' = [book EXCEPT ![f.id].cancelled = TRUE]
  <2>1. Len(book') = Len(book) /\ book' = [i \in 1..Len(book) |-> book'[i]]
    <3> DEFINE n == Len(book)
               S == {book'[i] : i \in 1..n}
    <3>1. n \in Nat /\ DOMAIN book' = 1..n /\ book' = [i \in 1..n |-> book'[i]]
      BY <1>3 DEF Book
    <3>2. book' \in [1..n -> S]
      BY <3>1
    <3> HIDE DEF n, S
    <3>3. book' \in Seq(S)
      BY <3>1, <3>2, SeqDef
    <3>4. Len(book') \in Nat /\ 1..Len(book') = 1..n
      BY <3>1, <3>3, LenProperties
    <3>5. Len(book') = n
      BY <3>1, <3>4
    <3> QED
      BY <3>1, <3>5 DEF n
  <2>2. ASSUME NEW i \in 1..Len(book) PROVE Guarded(previews, marks, book'[i])
    <3>1. Guarded(previews, marks, book[i])
      BY DEF Book
    <3>2. CASE i # f.id
      BY <1>3, <3>1, <3>2 DEF Book
    <3>3. CASE i = f.id
      <4> DEFINE r == book[i]
                 s == [r EXCEPT !.cancelled = TRUE]
      <4>1. book'[i] = s
        BY <1>3, <3>3 DEF Book
      <4>2. /\ DOMAIN s = DOMAIN r /\ s["order"] = r["order"] /\ s["confirmed"] = r["confirmed"]
            /\ s["now"] = r["now"] /\ s["seen"] = r["seen"]
        OBVIOUS
      <4> HIDE DEF s
      <4> QED
        BY <3>1, <4>1, <4>2 DEF Guarded, HasOrder
    <3> QED
      BY <3>2, <3>3
  <2> QED
    BY <2>1, <2>2 DEF Book, Guarded, HasOrder, Quoted, Apart
<1> QED
  BY <1>1, <1>2, <1>3 DEF AtBroker

-----------------------------------------------------------------------------

\* Previews are of the past, and stay so.
LEMMA PreviewsStay == ASSUME Previews, UNCHANGED <<ticks, previews>> PROVE Previews'
BY DEF Previews

\* The last mark of each signature is the one remembered, while none is added.
LEMMA MarksStay == ASSUME Marks, UNCHANGED <<recent, marks, venue>> PROVE Marks'
BY DEF Marks, LastMark

LEMMA PreviewInv ==
    ASSUME IInv, NEW t \in Threads, Preview(t)
    PROVE  IInv'
<1>1. previews \subseteq previews' /\ UNCHANGED <<ticks, book, marks, recent, venue>>
  BY DEF Preview
<1>k. Kept /\ Marks'
  BY <1>1, NothingForgotten, MarksStay DEF IInv
<1>2. Previews'
  BY DEF Preview, Token, IInv, Previews
<1>3. Handlers'
  BY <1>1, <1>k, Goes DEF Preview, Begin, IInv
<1> QED
  BY <1>1, <1>2, <1>3, <1>k, BookStays DEF IInv

\* The other requests, as they begin.
LEMMA StartInv ==
    ASSUME IInv, NEW t \in Threads, StartPlace(t) \/ StartRead(t) \/ StartCancel(t)
    PROVE  IInv'
<1>1. UNCHANGED <<previews, ticks, book, marks, recent, venue>>
  BY DEF StartPlace, StartRead, StartCancel, orderVars
<1>k. Kept /\ Marks'
  BY <1>1, NothingForgotten, MarksStay DEF IInv
<1>2. CASE StartPlace(t)
  <2>1. PICK o \in Orders, p \in previews :
          TokenFits(o, p) /\ Begin(t, "guard", [op |-> "place", order |-> o, confirmed |-> ticks])
    BY <1>2 DEF StartPlace
  <2> DEFINE f == [op |-> "place", order |-> o, confirmed |-> ticks]
  <2>2. HasOrder(previews, f)
    BY <2>1, TokenSays DEF HasOrder, IInv
  <2>3. pc' = [pc EXCEPT ![t] = "guard"] /\ frame' = [frame EXCEPT ![t] = f]
    BY <2>1 DEF Begin
  <2> HIDE DEF f
  <2>4. Handlers'
    BY <1>1, <2>2, <2>3, <1>k, Goes DEF IInv
  <2> QED
    BY <1>1, <2>4, <1>k, PreviewsStay, BookStays DEF IInv
<1>3. CASE StartRead(t) \/ StartCancel(t)
  <2>1. PICK l, f :
          /\ l \in {"call", "lock"}
          /\ Begin(t, l, f) /\ "calls" \in DOMAIN f
          /\ f.calls \in {<<"probe">>, <<"probe", "read">>, <<"read">>, <<"probe", "cancel">>}
    <3>1. CASE StartRead(t)
      BY <3>1 DEF StartRead, Reads, ListOrders
    <3>2. CASE StartCancel(t)
      BY <3>2 DEF StartCancel, CancelCalls
    <3> QED
      BY <1>3, <3>1, <3>2
  <2>2. ASSUME NEW calls \in {<<"probe">>, <<"probe", "read">>, <<"read">>, <<"probe", "cancel">>}
        PROVE  calls \in Seq(CallNames) /\ calls # <<>> /\ \A i \in DOMAIN calls : calls[i] # "order"
    <3>1. CASE calls = <<"probe">>
      BY <3>1 DEF CallNames
    <3>2. CASE calls = <<"probe", "read">>
      BY <3>2 DEF CallNames
    <3>3. CASE calls = <<"read">>
      BY <3>3 DEF CallNames
    <3>4. CASE calls = <<"probe", "cancel">>
      BY <3>4 DEF CallNames
    <3> QED
      BY <2>2, <3>1, <3>2, <3>3, <3>4
  <2>3. Carries(previews, marks, f) /\ f.calls # <<>>
    BY <2>1, <2>2 DEF Carries
  <2>4. Handlers'
    BY <1>1, <2>1, <2>3, <1>k, Goes DEF Begin, IInv
  <2> QED
    BY <1>1, <2>4, <1>k, PreviewsStay, BookStays DEF IInv
<1> QED
  BY <1>2, <1>3

\* What the look at _recent says of all that had been recorded before it.
LEMMA GuardLets ==
    ASSUME IInv, NEW o \in Orders,
           ~Repeated(IF venue = "MOOMOO" THEN recent[Signature(o)] ELSE Never, ticks)
    PROVE  Apart(marks, o, ticks, Len(marks))
<1> DEFINE s == Signature(o)
<1>1. s \in Signatures /\ ticks \in Nat /\ Window \in Nat
  BY OrdersAssumption DEF Signatures, IInv, Previews
<1>2. marks \in Seq([signature : Signatures, now : Nat]) /\ Len(marks) \in Nat
  BY DEF IInv, Marks
<1>3. \A m \in 1..Len(marks) : marks[m].now \in Nat
  <2>1. \A m \in 1..Len(marks) : marks[m] \in [signature : Signatures, now : Nat]
    BY <1>2, ElementOfSeq
  <2> QED
    BY <2>1
<1> HIDE DEF s
<1>4. CASE \A m \in 1..Len(marks) : marks[m].signature # s
  BY <1>4 DEF Apart, s
<1>5. CASE \E m \in 1..Len(marks) : marks[m].signature = s
  <2>1. venue = "MOOMOO" /\ LastMark(s)
    <3>1. marks # <<>>
      BY <1>5
    <3> QED
      BY <1>1, <3>1 DEF IInv, Marks
  <2>2. PICK k \in 1..Len(marks) :
          /\ marks[k].signature = s /\ marks[k].now = recent[s]
          /\ \A m \in (k + 1)..Len(marks) : marks[m].signature # s
    BY <1>5, <2>1 DEF LastMark
  <2>3. ticks - marks[k].now >= Window
    BY <1>1, <1>3, <2>1, <2>2 DEF Repeated, Never, s
  <2>4. ASSUME NEW m \in 1..Len(marks), marks[m].signature = s
        PROVE  \/ ticks - marks[m].now >= Window
               \/ \E later \in (m + 1)..Len(marks) :
                      marks[later].signature = s /\ marks[later].now < marks[m].now
    <3>1. m <= k
      BY <1>2, <2>2, <2>4
    <3>2. CASE m = k
      BY <2>3, <3>2
    <3>3. CASE m < k
      <4>1. k \in (m + 1)..Len(marks)
        BY <1>2, <3>3
      <4>2. marks[k].now < marks[m].now \/ ticks - marks[m].now >= Window
        BY <1>1, <1>3, <2>3
      <4> QED
        BY <2>2, <4>1, <4>2
    <3> QED
      BY <3>1, <3>2, <3>3
  <2> QED
    BY <2>4 DEF Apart, s
<1> QED
  BY <1>4, <1>5

\* Whoever passes the guard saw no mark of the order that is younger than the window.
LEMMA GuardInv ==
    ASSUME IInv, NEW t \in Threads, Guard(t)
    PROVE  IInv'
<1>1. UNCHANGED <<previews, ticks, book, marks, recent, venue>>
  BY DEF Guard, orderVars
<1>k. Kept /\ Marks'
  BY <1>1, NothingForgotten, MarksStay DEF IInv
<1>2. CASE Done(t)
  BY <1>1, <1>2, <1>k, Goes, PreviewsStay, BookStays DEF Done, Go, IInv
<1>3. CASE ~Done(t)
  <2> DEFINE calls == IF venue = "MOOMOO" THEN <<"probe", "order">> ELSE <<"order">>
             f == [op |-> "place", order |-> frame[t].order, confirmed |-> frame[t].confirmed,
                   now |-> ticks, seen |-> Len(marks), calls |-> calls]
  <2>1. calls \in Seq(CallNames)
    <3>1. <<"probe", "order">> \in Seq(CallNames) /\ <<"order">> \in Seq(CallNames)
      BY DEF CallNames
    <3> QED
      BY <3>1, Zenon
  <2>2. NextCall(t, f)
    BY <1>3 DEF Guard
  <2> HIDE DEF calls
  <2>3. HasOrder(previews, frame[t])
    BY DEF Guard, IInv, Handlers
  <2>4. Apart(marks, frame[t].order, ticks, Len(marks))
    BY <1>3, <2>3, GuardLets DEF Guard, HasOrder
  <2>5. Guarded(previews, marks, f)
    <3>1. ticks \in Nat /\ Len(marks) \in Nat
      BY DEF IInv, Previews, Marks
    <3>2. HasOrder(previews, f)
      BY <2>3 DEF HasOrder
    <3> QED
      BY <2>4, <3>1, <3>2 DEF Guarded
  <2>6. Carries(previews, marks, f)
    BY <2>1, <2>5 DEF Carries
  <2> HIDE DEF f
  <2>7. Handlers'
    BY <1>1, <1>k, <2>2, <2>6, NextCallGoesOn DEF IInv
  <2> QED
    BY <1>1, <2>7, <1>k, PreviewsStay, BookStays DEF IInv
<1> QED
  BY <1>2, <1>3

\* An order that the broker books is the one in the frame, with its preview.
LEMMA CallInv ==
    ASSUME IInv, NEW t \in Threads, Call(t)
    PROVE  IInv'
<1>1. UNCHANGED <<previews, ticks, marks, recent, venue>>
  BY DEF Call
<1>k. Kept /\ Marks'
  BY <1>1, NothingForgotten, MarksStay DEF IInv
<1>2. Carries(previews, marks, frame[t]) /\ frame[t].calls # <<>>
  BY DEF Call, IInv, Handlers, Calling
<1>3. PICK answered \in BOOLEAN : AtBroker(frame[t], answered) /\ Returned(t, frame[t], answered)
  BY DEF Call
<1>4. Book'
  BY <1>1, <1>2, <1>3, <1>k, AtBrokerKeepsBook DEF IInv
<1>5. Handlers'
  BY <1>1, <1>2, <1>3, <1>k, ReturnedGoesOn DEF IInv
<1> QED
  BY <1>1, <1>4, <1>5, <1>k, PreviewsStay DEF IInv

LEMMA LockGatewayInv ==
    ASSUME IInv, NEW t \in Threads, LockGateway(t)
    PROVE  IInv'
<1>1. UNCHANGED <<previews, ticks, book, marks, recent, venue>>
  BY DEF LockGateway
<1>k. Kept /\ Marks'
  BY <1>1, NothingForgotten, MarksStay DEF IInv
<1> DEFINE f == frame[t]
           g == With(f, "attempt", 1)
<1>2. Carries(previews, marks, f) /\ f.calls # <<>>
  BY DEF LockGateway, IInv, Handlers, Calling
<1>3. Keeps(f, g)
  BY DEF With, Told, Keeps
<1>4. pc' = [pc EXCEPT ![t] = "connect"] /\ frame' = [frame EXCEPT ![t] = g]
  BY DEF LockGateway, Go
<1> HIDE DEF f, g
<1>5. Carries(previews, marks, g) /\ g.calls # <<>>
  BY <1>2, <1>3, Agree
<1>6. Handlers'
  BY <1>1, <1>4, <1>5, <1>k, Goes DEF IInv
<1> QED
  BY <1>1, <1>6, <1>k, PreviewsStay, BookStays DEF IInv

LEMMA ConnectInv ==
    ASSUME IInv, NEW t \in Threads, Connect(t)
    PROVE  IInv'
<1>1. UNCHANGED <<previews, ticks, book, marks, recent, venue>>
  BY DEF Connect
<1>k. Kept /\ Marks'
  BY <1>1, NothingForgotten, MarksStay DEF IInv
<1> DEFINE f == frame[t]
           g == [f EXCEPT !.attempt = f.attempt + 1]
<1>2. Carries(previews, marks, f) /\ f.calls # <<>>
  BY DEF Connect, IInv, Handlers, Calling
<1>3. Keeps(f, g)
  BY DEF Told, Keeps
<1>4. \/ pc' = [pc EXCEPT ![t] = "use"] /\ frame' = [frame EXCEPT ![t] = f]
      \/ pc' = [pc EXCEPT ![t] = "connect"] /\ frame' = [frame EXCEPT ![t] = g]
      \/ Done(t)
  BY DEF Connect, Go
<1> HIDE DEF f, g
<1>5. Carries(previews, marks, g) /\ g.calls # <<>>
  BY <1>2, <1>3, Agree
<1>6. Handlers'
  BY <1>1, <1>2, <1>4, <1>5, <1>k, Goes DEF Done, Go, IInv
<1> QED
  BY <1>1, <1>6, <1>k, PreviewsStay, BookStays DEF IInv

LEMMA UseGatewayInv ==
    ASSUME IInv, NEW t \in Threads, UseGateway(t)
    PROVE  IInv'
<1>1. UNCHANGED <<previews, ticks, marks, recent, venue>>
  BY DEF UseGateway
<1>k. Kept /\ Marks'
  BY <1>1, NothingForgotten, MarksStay DEF IInv
<1>2. PICK answered \in BOOLEAN :
        AtBroker(frame[t], answered) /\ Go(t, "leave", With(frame[t], "answered", answered))
  BY DEF UseGateway
<1> DEFINE f == frame[t]
           g == With(f, "answered", answered)
<1>3. Carries(previews, marks, f) /\ f.calls # <<>>
  BY DEF UseGateway, IInv, Handlers, Calling
<1>4. Keeps(f, g)
  BY DEF With, Told, Keeps
<1>5. pc' = [pc EXCEPT ![t] = "leave"] /\ frame' = [frame EXCEPT ![t] = g] /\ AtBroker(f, answered)
  BY <1>2 DEF Go
<1> HIDE DEF f, g
<1>6. Carries(previews, marks, g) /\ g.calls # <<>>
  <2>1. Carries(previews, marks, g) /\ g.calls = f.calls
    BY <1>3, <1>4, Agree
  <2> QED
    BY <1>3, <2>1
<1>7. Handlers'
  BY <1>1, <1>5, <1>6, <1>k, Goes DEF IInv
<1>8. Book'
  BY <1>1, <1>3, <1>5, <1>k, AtBrokerKeepsBook DEF IInv
<1> QED
  BY <1>1, <1>7, <1>8, <1>k, PreviewsStay DEF IInv

LEMMA LeaveGatewayInv ==
    ASSUME IInv, NEW t \in Threads, LeaveGateway(t)
    PROVE  IInv'
<1>1. UNCHANGED <<previews, ticks, book, marks, recent, venue>>
  BY DEF LeaveGateway
<1>k. Kept /\ Marks'
  BY <1>1, NothingForgotten, MarksStay DEF IInv
<1> DEFINE f == frame[t]
           g == [l \in DOMAIN f \ {"answered", "attempt"} |-> f[l]]
<1>2. Carries(previews, marks, f) /\ f.calls # <<>>
  BY DEF LeaveGateway, IInv, Handlers, Calling
<1>3. Keeps(f, g)
  BY DEF Told, Keeps
<1>4. Returned(t, g, f.answered)
  BY DEF LeaveGateway
<1> HIDE DEF f, g
<1>5. Carries(previews, marks, g) /\ g.calls # <<>>
  BY <1>2, <1>3, Agree
<1>6. Handlers'
  BY <1>1, <1>4, <1>5, <1>k, ReturnedGoesOn DEF IInv
<1> QED
  BY <1>1, <1>6, <1>k, PreviewsStay, BookStays DEF IInv

\* A placement that is recorded becomes the last mark of its signature.
LEMMA RecordMarks ==
    ASSUME Marks, NEW s \in Signatures, NEW n \in Nat, venue = "MOOMOO", venue' = venue,
           recent' = [recent EXCEPT ![s] = n],
           marks' = Append(marks, [signature |-> s, now |-> n])
    PROVE  Grows(marks, marks') /\ Marks'
<1> DEFINE T == [signature : Signatures, now : Nat]
           e == [signature |-> s, now |-> n]
<1>1. marks \in Seq(T) /\ e \in T
  BY DEF Marks
<1> HIDE DEF T, e
<1>2. /\ marks' \in Seq(T) /\ Len(marks') = Len(marks) + 1 /\ Len(marks) \in Nat
      /\ \A m \in 1..Len(marks) : marks'[m] = marks[m]
      /\ marks'[Len(marks) + 1] = e
  BY <1>1, AppendProperties, LenProperties DEF e
<1>3. e.signature = s /\ e.now = n
  BY DEF e
<1>4. /\ recent' = [r \in Signatures |-> recent'[r]] /\ recent'[s] = n
      /\ \A r \in Signatures : r # s => recent'[r] = recent[r]
  BY DEF Marks
<1>5. ASSUME NEW r \in Signatures PROVE LastMark(r)'
  <2>1. CASE r = s
    <3>1. Len(marks) + 1 \in 1..Len(marks') /\ (Len(marks) + 2)..Len(marks') = {}
      BY <1>2
    <3> QED
      BY <1>2, <1>3, <1>4, <2>1, <3>1 DEF LastMark
  <2>2. CASE r # s /\ recent[r] = Never /\ \A m \in 1..Len(marks) : marks[m].signature # r
    BY <1>2, <1>3, <1>4, <2>2 DEF LastMark
  <2>3. CASE r # s /\ \E k \in 1..Len(marks) :
               /\ marks[k].signature = r /\ marks[k].now = recent[r]
               /\ \A m \in (k + 1)..Len(marks) : marks[m].signature # r
    <3>1. PICK k \in 1..Len(marks) :
            /\ marks[k].signature = r /\ marks[k].now = recent[r]
            /\ \A m \in (k + 1)..Len(marks) : marks[m].signature # r
      BY <2>3
    <3>2. k \in 1..Len(marks') /\ marks'[k] = marks[k]
      BY <1>2
    <3>3. ASSUME NEW m \in (k + 1)..Len(marks') PROVE marks'[m].signature # r
      <4>1. CASE m \in 1..Len(marks)
        BY <1>2, <3>1, <4>1
      <4>2. CASE m = Len(marks) + 1
        BY <1>2, <1>3, <2>3, <4>2
      <4> QED
        BY <1>2, <4>1, <4>2
    <3> QED
      BY <1>4, <2>3, <3>1, <3>2, <3>3 DEF LastMark
  <2> QED
    BY <2>1, <2>2, <2>3 DEF LastMark, Marks
<1>6. Grows(marks, marks')
  BY <1>2 DEF Grows
<1> QED
  BY <1>2, <1>4, <1>5, <1>6 DEF Marks, T

LEMMA RecordInv ==
    ASSUME IInv, NEW t \in Threads, Record(t)
    PROVE  IInv'
<1>1. UNCHANGED <<previews, ticks, book, venue>> /\ Done(t)
  BY DEF Record
<1>2. Guarded(previews, marks, frame[t])
  BY DEF Record, IInv, Handlers
<1>3. Kept /\ Marks'
  <2>1. CASE venue = "MOOMOO"
    <3> DEFINE s == Signature(frame[t].order)
    <3>1. s \in Signatures /\ frame[t].now \in Nat
      BY <1>2 DEF Guarded, HasOrder, Signatures
    <3>2. /\ recent' = [recent EXCEPT ![s] = frame[t].now]
          /\ marks' = Append(marks, [signature |-> s, now |-> frame[t].now])
      BY <2>1 DEF Record
    <3> HIDE DEF s
    <3> QED
      BY <1>1, <2>1, <3>1, <3>2, RecordMarks DEF IInv, Kept
  <2>2. CASE venue # "MOOMOO"
    BY <1>1, <2>2, NothingForgotten, MarksStay DEF Record, IInv
  <2> QED
    BY <2>1, <2>2
<1>4. Handlers'
  BY <1>1, <1>3, Goes DEF Done, Go, IInv
<1> QED
  BY <1>1, <1>3, <1>4, PreviewsStay, BookStays DEF IInv

LEMMA StepInv == IInv /\ [OrdersNext]_ordersAll => IInv'
<1> SUFFICES ASSUME IInv, [OrdersNext]_ordersAll PROVE IInv'
  OBVIOUS
<1>1. CASE UNCHANGED ordersAll \/ Tick \/ GatewayFreesId
  <2>1. /\ UNCHANGED <<pc, frame, previews, book, marks, recent, venue>>
        /\ ticks' = ticks \/ ticks' = ticks + 1
    BY <1>1 DEF ordersAll, orderVars, pool, Tick, GatewayFreesId
  <2>2. Previews'
    BY <2>1 DEF IInv, Previews
  <2>3. Handlers'
    BY <2>1 DEF IInv, Handlers, Calling, At, HasOrder, Carries, Guarded, Apart, Quoted
  <2> QED
    BY <2>1, <2>2, <2>3, BookStays, NothingForgotten, MarksStay DEF IInv
<1> QED
  BY <1>1, PreviewInv, StartInv, GuardInv, CallInv, LockGatewayInv, ConnectInv, UseGatewayInv,
     LeaveGatewayInv, RecordInv DEF OrdersNext

\* broker/service.py and ibkr_service.py: no order without a fresh confirmation.
\* Whatever comes between the check of the token and the broker's answer, an order
\* in its book was previewed, as far as %g tells, at most the token's life before
\* it was confirmed.
THEOREM OrdersWereConfirmed == OrdersSpec => []ConfirmedBeforePlaced
<1>1. PoolInit /\ OrdersInit => IInv
  BY InitInv
<1>2. IInv /\ [OrdersNext]_ordersAll => IInv'
  BY StepInv
<1>3. IInv => ConfirmedBeforePlaced
  BY DEF IInv, Book, Guarded, HasOrder, Quoted, ConfirmedBeforePlaced
<1> QED
  BY <1>1, <1>2, <1>3, PTL DEF OrdersSpec

\* The duplicate guard of broker/service.py, for any order, window and number of
\* threads: an order in the book is a window away from every placement of its
\* signature that was recorded before the guard looked, except from those that a
\* slower request had overwritten with an earlier time.
THEOREM RepeatsWait == OrdersSpec => []RepeatsAreApart
<1>1. PoolInit /\ OrdersInit => IInv
  BY InitInv
<1>2. IInv /\ [OrdersNext]_ordersAll => IInv'
  BY StepInv
<1>3. IInv => RepeatsAreApart
  BY DEF IInv, Book, Guarded, Apart, RepeatsAreApart
<1> QED
  BY <1>1, <1>2, <1>3, PTL DEF OrdersSpec

=============================================================================
