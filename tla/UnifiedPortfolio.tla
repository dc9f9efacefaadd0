-------------------------- MODULE UnifiedPortfolio --------------------------
(***************************************************************************)
(* The portfolio over all linked brokers (backend/app/portfolio): a daemon *)
(* thread asks each broker for the account and then for the positions, the *)
(* request collects the answers until a deadline and adds them up; a       *)
(* snapshot stores the sum, and performance compares it with an earlier    *)
(* one.                                                                    *)
(*                                                                         *)
(* A sum of money is the set of links whose accounts are in it.  A worker  *)
(* that the request has given up has no effect, and is left out.           *)
(***************************************************************************)
EXTENDS BrokerConnections, Sequences

CONSTANTS MaxSnapshots, MaxDate  \* bounds: rows, midnights

VARIABLES
    snapshots,  \* table portfolio_snapshots, in the order of its ids
    date        \* the date in UTC

portfolioVars == <<snapshots, date>>

PortfolioInit == snapshots = <<>> /\ date = 0

\* What a worker has of its broker, and what it asks next.
Unasked == [next |-> "account", funded |-> FALSE, held |-> FALSE, failed |-> FALSE]

\* for_user, up to the start of the workers; the route says what the sum is for.
StartPortfolio(t) ==
    /\ \E u \in Clients, route \in {"portfolio", "performance", "snapshot"} :
         Begin(t, "collect", [op |-> route, user |-> u, asked |-> [r \in {l \in links : l.user = u} |-> Unasked]])
    /\ UNCHANGED portfolioVars

\* The worker of link r goes on with what the broker has answered.
Answer(t, r, answer) == Go(t, "collect", [frame[t] EXCEPT !.asked[r] = answer])

\* account() answers, is not connected, or raises.
AskAccount(t) ==
    /\ At(t, "collect")
    /\ \E r \in DOMAIN frame[t].asked, up \in BOOLEAN :
         /\ frame[t].asked[r].next = "account"
         /\ Answer(t, r, [Unasked EXCEPT !.next = "positions", !.funded = up, !.failed = ~up])
    /\ UNCHANGED portfolioVars

\* positions() answers, is not connected, which is no error, or raises.
AskPositions(t) ==
    /\ At(t, "collect")
    /\ \E r \in DOMAIN frame[t].asked, answer \in {"in", "down", "raised"} :
         LET had == frame[t].asked[r] IN
         /\ had.next = "positions"
         /\ Answer(t, r, [had EXCEPT !.next = "none", !.held = answer = "in", !.failed = @ \/ answer = "raised"])
    /\ UNCHANGED portfolioVars

BrokersOf(rows) == {r.broker : r \in rows}

\* Fault: a broker counts as heard from once its worker has begun.
NobodyTimedOut(asked, reported) == {}

\* Brokers that nothing was heard of: a second link of one that reported is not among them.
TimedOut(asked, reported) == BrokersOf(DOMAIN asked) \ BrokersOf(reported)

\* All have reported, or the deadline has passed; what is late is left out.
Merge(t) ==
    /\ At(t, "collect")
    /\ LET f == frame[t]
           reported == {r \in DOMAIN f.asked : f.asked[r].next = "none"}
       IN Go(t, IF f.op = "portfolio" THEN "shown" ELSE f.op,
             [op |-> f.op, user |-> f.user, listed |-> DOMAIN f.asked,
              equity |-> {r \in reported : f.asked[r].funded},
              holdings |-> {r \in reported : f.asked[r].held},
              errors |-> BrokersOf({r \in reported : f.asked[r].failed}) \cup TimedOut(f.asked, reported),
              baseline |-> {}])
    /\ UNCHANGED portfolioVars

\* create_snapshot: the sum is stored, without the errors.
StoreSnapshot(t) ==
    /\ At(t, "snapshot") /\ Len(snapshots) < MaxSnapshots
    /\ snapshots' = Append(snapshots, [user |-> frame[t].user, date |-> date, equity |-> frame[t].equity])
    /\ Done(t)
    /\ UNCHANGED date

\* latest_before: the user's last snapshot of an earlier date, if there is one.
Baselines(u) ==
    LET earlier == {i \in DOMAIN snapshots : snapshots[i].user = u /\ snapshots[i].date < date}
    IN {snapshots[i].equity : i \in {k \in earlier : \A j \in earlier : j <= k}}

\* performance: the profit of the day is the difference to the baseline, or none.
Compare(t) ==
    /\ At(t, "performance")
    /\ Go(t, "shown", [frame[t] EXCEPT !.baseline = Baselines(frame[t].user)])
    /\ UNCHANGED portfolioVars

ShowPortfolio(t) == At(t, "shown") /\ Done(t) /\ UNCHANGED portfolioVars

Midnight ==
    /\ date < MaxDate /\ date' = date + 1
    /\ UNCHANGED <<pool, snapshots>>

PortfolioNext ==
    \/ Midnight
    \/ \E t \in Threads :
         \/ StartPortfolio(t) \/ AskAccount(t) \/ AskPositions(t) \/ Merge(t)
         \/ StoreSnapshot(t) \/ Compare(t) \/ ShowPortfolio(t)

BrokersNext == (LinkNext /\ UNCHANGED portfolioVars) \/ (PortfolioNext /\ UNCHANGED linkVars)

BrokersSpec == PoolInit /\ LinkInit /\ PortfolioInit /\ [][BrokersNext]_<<pool, linkVars, portfolioVars>>

-----------------------------------------------------------------------------
\* portfolio/service.py: "Per-broker failures ... are recorded as non-fatal errors":
\* whatever brokers do until the deadline, one that the sum leaves out is named, unless
\* the user has it linked twice, as two crossing requests can, and the other one came.
AbsentBrokersAreNamed ==
    \A t \in Threads : pc[t] \in {"shown", "performance", "snapshot"} =>
        \A r \in frame[t].listed \ frame[t].equity :
            \/ r.broker \in frame[t].errors
            \/ \E other \in frame[t].listed \ {r} : other.broker = r.broker

=============================================================================
