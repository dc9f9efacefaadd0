--------------------------- MODULE ConfirmedOrders ---------------------------
(***************************************************************************)
(* The two confirmed order paths: broker/ (Moomoo OpenD) and brokers/ibkr_* *)
(* (IB Gateway).  A preview returns a token that signs the order and the   *)
(* second of the preview; placing needs the token of the same order while  *)
(* it is young, and a guard refuses an order that looks like a recent one. *)
(*                                                                         *)
(* The Moomoo service is one object for all requests.  The IBKR service is *)
(* built for each request, so its guard remembers nothing; its client      *)
(* opens a connection per call, one at a time behind _GATEWAY_LOCK, and    *)
(* the gateway may hold on to the client id for a while after a close.     *)
(***************************************************************************)
EXTENDS RequestThreads, SequencesExt

CONSTANTS
    Orders,      \* what users may ask for: [symbol, side, quantity, type, price]
    Exact,       \* numbers below it keep every digit when formatted by %g
    MaxQuantity, MaxValue,  \* risk caps
    Ttl,         \* confirmation_ttl_seconds and
    Window,      \* duplicate_window_seconds, in ticks
    Retries,     \* _CLIENT_ID_RETRIES
    MaxTicks,    \* bound: ticks of the clock, half a second each
    MaxPlaced    \* bound: orders at the venue

ASSUME OrdersAssumption == {Exact, MaxQuantity, MaxValue, Ttl, Window, Retries} \subseteq Nat \ {0}
ASSUME OrderFields ==
    \A o \in Orders : o = [symbol |-> o.symbol, side |-> o.side, quantity |-> o.quantity,
                          type |-> o.type, price |-> o.price]

VARIABLES
    venue,      \* the broker that this behaviour's orders go to
    ticks,      \* time.time()
    previews,   \* orders previewed, with when: a token is made from nothing else
    recent,     \* _recent: signature -> last placement, of the shared service
    book,       \* orders the broker took
    gate,       \* who holds _GATEWAY_LOCK
    sockets,    \* threads with a live connection to the gateway
    lingering,  \* the gateway still has the client id of a closed connection
    marks       \* history: the writes of recent

gateway == <<gate, sockets, lingering>>
orderVars == <<venue, ticks, previews, recent, book, gateway, marks>>

Nobody == "nobody"
Never == -1

ASSUME GateAssumption == Nobody \notin Threads

Second(tick) == (tick \div 2) * 2   \* int(time.time())

\* %g rounds to six significant digits; here, past Exact, to tens.
Formatted(n) == IF n < Exact THEN n ELSE ((n + 5) \div 10) * 10

\* _order_signature, _signature: the trading environment is the same throughout.
Signature(o) == [o EXCEPT !.quantity = Formatted(@), !.price = Formatted(@)]
Signatures == {Signature(o) : o \in Orders}

\* The risk caps.  A MARKET order without a price is worth nothing to them.
WithinCaps(o) == o.quantity <= MaxQuantity /\ o.price * o.quantity <= MaxValue

\* _validate.
Valid(o) ==
    /\ o.quantity > 0
    /\ o.type = "LIMIT" => o.price > 0
    /\ WithinCaps(o)

OrdersInit ==
    /\ venue \in {"MOOMOO", "IBKR"}
    /\ ticks = 0
    /\ previews = {}
    /\ recent = [s \in Signatures |-> Never]
    /\ book = <<>>
    /\ gate = Nobody /\ sockets = {} /\ lingering = FALSE
    /\ marks = <<>>

\* What the token of a preview is made from.
Token(o) == [order |-> o, at |-> ticks]

\* preview never places: it answers with the token.
Preview(t) ==
    /\ \E o \in Orders : Valid(o) /\ previews' = previews \cup {Token(o)}
    /\ Begin(t, "idle", NoFrame)
    /\ UNCHANGED <<venue, ticks, recent, book, gateway, marks>>

\* Where a handler asks the broker: Moomoo's answers without a lock of ours.
NextCall(t, f) ==
    IF f.calls = <<>> THEN Done(t)
    ELSE Go(t, IF venue = "MOOMOO" THEN "call" ELSE "lock", f)

\* Fault: the age of the token is not looked at.
TokenEverFits(o, p) == Signature(p.order) = Signature(o)

\* The token lives from the second that it names.
Live(p) == ticks - Second(p.at) <= Ttl

\* _verify_token, of the token that preview p gave.
TokenFits(o, p) ==
    /\ Live(p)
    /\ Signature(p.order) = Signature(o)

\* place, up to the guard; a refused token ends the request.
StartPlace(t) ==
    /\ \E o \in Orders, p \in previews :
         /\ Valid(o) /\ TokenFits(o, p)
         /\ Begin(t, "guard", [op |-> "place", order |-> o, confirmed |-> ticks])
    /\ UNCHANGED orderVars

\* Fault: the age of the last order is not measured in the same unit.
RepeatedWithin(last, now) == last # Never /\ 2 * (now - last) < Window

Repeated(last, now) == last # Never /\ now - last < Window

\* The duplicate guard; the IBKR service of this request has an empty _recent.
Guard(t) ==
    /\ At(t, "guard")
    /\ LET f == frame[t]
           last == IF venue = "MOOMOO" THEN recent[Signature(f.order)] ELSE Never
       IN IF Repeated(last, ticks) THEN Done(t)
          ELSE NextCall(t, [op |-> "place", order |-> f.order, confirmed |-> f.confirmed,
                            now |-> ticks, seen |-> Len(marks),
                            calls |-> IF venue = "MOOMOO" THEN <<"probe", "order">> ELSE <<"order">>])
    /\ UNCHANGED orderVars

\* status probes; orders, and account and positions at Moomoo, probe and then ask.
ListOrders == <<"probe", "read">>

\* At IBKR account and positions ask at once: the answer tells if there is a connection.
Reads == {<<"probe">>, ListOrders} \cup (IF venue = "IBKR" THEN {<<"read">>} ELSE {})

StartRead(t) ==
    /\ \E calls \in Reads : Begin(t, IF venue = "MOOMOO" THEN "call" ELSE "lock",
                                                              [op |-> "read", calls |-> calls])
    /\ UNCHANGED orderVars

CancelCalls == <<"probe", "cancel">>

StartCancel(t) ==
    /\ \E id \in DOMAIN book : Begin(t, IF venue = "MOOMOO" THEN "call" ELSE "lock",
                                     [op |-> "cancel", id |-> id, calls |-> CancelCalls])
    /\ UNCHANGED orderVars

(********************************* One call *********************************)

Placed(f) == [order |-> f.order, confirmed |-> f.confirmed, now |-> f.now, seen |-> f.seen,
              cancelled |-> FALSE]

\* What the broker may do with a call: answered says whether the handler is told.
AtBroker(f, answered) ==
    CASE Head(f.calls) = "order" ->
           \/ /\ Len(book) < MaxPlaced
              /\ book' = Append(book, Placed(f))
           \/ ~answered /\ UNCHANGED book
      [] Head(f.calls) = "cancel" ->
           \/ book' = [book EXCEPT ![f.id].cancelled = TRUE]
           \/ ~answered /\ UNCHANGED book
      [] OTHER -> UNCHANGED book

\* After the call: an order that was answered is recorded, an error ends the request.
Returned(t, f, answered) ==
    IF ~answered THEN Done(t)
    ELSE IF Head(f.calls) = "order" THEN Go(t, "record", f)
    ELSE NextCall(t, [f EXCEPT !.calls = Tail(@)])

\* MoomooBrokerClient: a context of its own for each call.
Call(t) ==
    /\ At(t, "call")
    /\ \E answered \in BOOLEAN :
         AtBroker(frame[t], answered) /\ Returned(t, frame[t], answered)
    /\ UNCHANGED <<venue, ticks, previews, recent, gateway, marks>>

\* A local of the call itself, which the handler does not see.
With(f, local, value) == [l \in DOMAIN f \cup {local} |-> IF l = local THEN value ELSE f[l]]

\* Fault: the connection is opened without the lock.
LockNothing(t) ==
    /\ At(t, "lock")
    /\ gate' = t
    /\ Go(t, "connect", With(frame[t], "attempt", 1))
    /\ UNCHANGED <<venue, ticks, previews, recent, book, sockets, lingering, marks>>

LockGateway(t) ==
    /\ At(t, "lock")
    /\ gate = Nobody
    /\ gate' = t
    /\ Go(t, "connect", With(frame[t], "attempt", 1))
    /\ UNCHANGED <<venue, ticks, previews, recent, book, sockets, lingering, marks>>

\* _classify_connect_error; a client id that lingers shows as one of the first two.
ConnectErrors == {"in use", "timeout", "read-only", "other"}
Transient == {"in use", "timeout"}

\* _do_connect tries again a few times.
Retried(error, attempt) == error \in Transient /\ attempt < Retries

\* An exception that leaves the socket connected is ignored.
Connect(t) ==
    /\ At(t, "connect")
    /\ LET f == frame[t] IN
         \/ /\ ~lingering
            /\ sockets' = sockets \cup {t}
            /\ Go(t, "use", f)
            /\ UNCHANGED gate
         \/ \E error \in ConnectErrors :
              /\ lingering => error \in Transient
              /\ IF Retried(error, f.attempt)
                 THEN Go(t, "connect", [f EXCEPT !.attempt = @ + 1]) /\ UNCHANGED gate
                 ELSE gate' = Nobody /\ Done(t)
              /\ UNCHANGED sockets
    /\ UNCHANGED <<venue, ticks, previews, recent, book, lingering, marks>>

\* The call itself.
UseGateway(t) ==
    /\ At(t, "use")
    /\ \E answered \in BOOLEAN :
         /\ AtBroker(frame[t], answered)
         /\ Go(t, "leave", With(frame[t], "answered", answered))
    /\ UNCHANGED <<venue, ticks, previews, recent, gateway, marks>>

\* finally: disconnect, and the lock.
LeaveGateway(t) ==
    /\ At(t, "leave")
    /\ sockets' = sockets \ {t}
    /\ lingering' = TRUE
    /\ gate' = Nobody
    /\ LET f == frame[t] IN
         Returned(t, [l \in DOMAIN f \ {"answered", "attempt"} |-> f[l]], f.answered)
    /\ UNCHANGED <<venue, ticks, previews, recent, book, marks>>

GatewayFreesId ==
    /\ lingering
    /\ lingering' = FALSE
    /\ UNCHANGED <<pool, venue, ticks, previews, recent, book, gate, sockets, marks>>

\* The order counts from the time that the guard read; IBKR records it where
\* nobody looks again.
Record(t) ==
    /\ At(t, "record")
    /\ LET f == frame[t]
           s == Signature(f.order)
       IN IF venue = "MOOMOO"
          THEN /\ recent' = [recent EXCEPT ![s] = f.now]
               /\ marks' = Append(marks, [signature |-> s, now |-> f.now])
          ELSE UNCHANGED <<recent, marks>>
    /\ Done(t)
    /\ UNCHANGED <<venue, ticks, previews, book, gateway>>

Tick ==
    /\ ticks < MaxTicks
    /\ ticks' = ticks + 1
    /\ UNCHANGED <<pool, venue, previews, recent, book, gateway, marks>>

OrdersNext ==
    \/ Tick \/ GatewayFreesId
    \/ \E t \in Threads :
         \/ Preview(t) \/ StartPlace(t) \/ Guard(t) \/ StartRead(t) \/ StartCancel(t)
         \/ Call(t) \/ LockGateway(t) \/ Connect(t) \/ UseGateway(t) \/ LeaveGateway(t)
         \/ Record(t)

ordersAll == <<pool, orderVars>>
OrdersSpec == PoolInit /\ OrdersInit /\ [][OrdersNext]_ordersAll

-----------------------------------------------------------------------------

\* Whatever was retried, lost or delayed on the way, an order reaches the broker
\* only if the same order, to the digits that %g keeps, was previewed less than the
\* token's life before it was confirmed (a second may be truncated away).
ConfirmedBeforePlaced ==
    \A i \in DOMAIN book : \E p \in previews :
        LET o == book[i].order IN
        /\ <<p.order.symbol, p.order.side, p.order.type>> = <<o.symbol, o.side, o.type>>
        /\ Formatted(p.order.quantity) = Formatted(o.quantity)
        /\ Formatted(p.order.price) = Formatted(o.price)
        /\ p.at <= book[i].confirmed /\ book[i].confirmed - p.at <= Ttl

\* Moomoo's guard holds for every order that had been recorded when it looked,
\* unless a slower request has since moved the record back in time.
RepeatsAreApart ==
    \A i \in DOMAIN book : \A m \in 1..book[i].seen :
        LET s == Signature(book[i].order) IN
        marks[m].signature = s =>
            \/ book[i].now - marks[m].now >= Window
            \/ \E later \in (m + 1)..book[i].seen :
                   marks[later].signature = s /\ marks[later].now < marks[m].now

\* The gateway never sees two connections with the one client id, although every
\* request has a service and a client of its own.
OneConnection == Cardinality(sockets) <= 1

=============================================================================
