-------------------------------- MODULE Feed --------------------------------
(***************************************************************************)
(* The notification centre (backend/app/notifications).  Listing the feed  *)
(* first refreshes it: its signals are evaluated one after the other, and  *)
(* each condition that holds is added under a key that the table keeps     *)
(* unique per user.  Two conditions are changes: the health score against  *)
(* the last one seen for the user, and the best market against the last    *)
(* one seen for anybody.  What was last seen is process memory.            *)
(***************************************************************************)
EXTENDS RequestThreads, Sequences, FiniteSets

CONSTANTS
    Readers,    \* users
    Alerts,     \* [phase, what]: conditions of the signals that keep no history
    Scores,     \* portfolio health scores
    DropWarn,   \* HEALTH_DROP_WARN
    Regions,    \* markets the rotation may name as the best
    FeedDays    \* bound: session dates

ASSUME FeedAssumption ==
    /\ Scores \subseteq Nat /\ DropWarn \in Nat /\ FeedDays \in Nat
    /\ "" \notin Regions

VARIABLES
    inbox,       \* table notifications: by user, in id order
    lastHealth,  \* _last_health
    lastBest,    \* _last_best_market
    date,        \* session date
    heard,       \* history: what the last evaluations were told, since the start
    owed         \* history: changes that were told

seen == <<lastHealth, lastBest, heard>>
feedVars == <<inbox, seen, date, owed>>

\* "radar" stands for the radar and the daily picks, "advice" for the auto watchlist
\* and the rebalance: their answers alone decide.
Phases == <<"radar", "health", "advice", "rotation">>
Unseen == -1  \* no score yet

Holds(u, key) == \E i \in DOMAIN inbox[u] : inbox[u][i].key = key
Unread(u) == Cardinality({i \in DOMAIN inbox[u] : ~inbox[u][i].read})

FeedInit ==
    /\ inbox = [u \in Readers |-> <<>>]
    /\ lastHealth = [u \in Readers |-> Unseen]
    /\ lastBest = ""
    /\ date = 0
    /\ heard = [health |-> [u \in Readers |-> Unseen], best |-> ""]
    /\ owed = {}

\* GET /v1/notifications.  The day is read once, as the refresh starts.
StartList(t) ==
    /\ \E u \in Readers :
         Begin(t, "signal", [op |-> "list", user |-> u, day |-> date, phase |-> 1, todo |-> {}])
    /\ UNCHANGED feedVars

\* On to the next signal, and after the last one to reading the list.
NextSignal(t, f) ==
    IF f.phase < Len(Phases)
    THEN Go(t, "signal", [f EXCEPT !.phase = @ + 1, !.todo = {}])
    ELSE Done(t)

\* The keys that a signal's answer gives rise to are added one by one; their order
\* within an answer is left open.  An error of the signal is an empty answer.
Answered(t, keys) ==
    IF keys = {} THEN NextSignal(t, frame[t])
    ELSE Go(t, "add", [frame[t] EXCEPT !.todo = keys])

\* Nothing is published from stale or unavailable data.
AskSignal(t) ==
    /\ At(t, "signal")
    /\ LET phase == Phases[frame[t].phase] IN
         /\ phase \notin {"health", "rotation"}
         /\ \E told \in SUBSET {a \in Alerts : a.phase = phase} :
              Answered(t, {<<phase, frame[t].day, a.what>> : a \in told})
    /\ UNCHANGED feedVars

DropKey(day, prev, score) == <<"health", day, prev, score>>
ChangeKey(day, prev, best) == <<"changed", day, prev, best>>
Dropped(prev, score) == prev # Unseen /\ prev - score > DropWarn

\* Fault: only a drop replaces the last score.
AskHealthKeeps(t) ==
    /\ At(t, "signal")
    /\ Phases[frame[t].phase] = "health"
    /\ LET u == frame[t].user IN
         \E score \in Scores :
              /\ lastHealth' = IF Dropped(lastHealth[u], score)
                               THEN [lastHealth EXCEPT ![u] = score] ELSE lastHealth
              /\ Answered(t, IF Dropped(lastHealth[u], score)
                             THEN {DropKey(frame[t].day, lastHealth[u], score)} ELSE {})
              /\ heard' = [heard EXCEPT !.health[u] = score]
              /\ owed' = IF Dropped(heard.health[u], score)
                         THEN owed \cup {DropKey(frame[t].day, heard.health[u], score)} ELSE owed
    /\ UNCHANGED <<inbox, lastBest, date>>

\* The swap of the last score is one critical section.
AskHealth(t) ==
    /\ At(t, "signal")
    /\ Phases[frame[t].phase] = "health"
    /\ LET u == frame[t].user IN
         \/ Answered(t, {}) /\ UNCHANGED <<lastHealth, heard, owed>>
         \/ \E score \in Scores :
              /\ lastHealth' = [lastHealth EXCEPT ![u] = score]
              /\ Answered(t, IF Dropped(lastHealth[u], score)
                             THEN {DropKey(frame[t].day, lastHealth[u], score)} ELSE {})
              /\ heard' = [heard EXCEPT !.health[u] = score]
              /\ owed' = IF Dropped(heard.health[u], score)
                         THEN owed \cup {DropKey(frame[t].day, heard.health[u], score)} ELSE owed
    /\ UNCHANGED <<inbox, lastBest, date>>

\* The best market is announced once a day, and its change whenever it is seen.
AskRotation(t) ==
    /\ At(t, "signal")
    /\ Phases[frame[t].phase] = "rotation"
    /\ \/ Answered(t, {}) /\ UNCHANGED <<lastBest, heard, owed>>
       \/ \E best \in Regions :
            LET changed == lastBest # "" /\ lastBest # best
                told == heard.best # "" /\ heard.best # best
            IN /\ lastBest' = best
               /\ Answered(t, {<<"best", frame[t].day, best>>}
                              \cup (IF changed THEN {ChangeKey(frame[t].day, lastBest, best)} ELSE {}))
               /\ heard' = [heard EXCEPT !.best = best]
               /\ owed' = IF told THEN owed \cup {ChangeKey(frame[t].day, heard.best, best)} ELSE owed
    /\ UNCHANGED <<inbox, lastHealth, date>>

\* store.add: one insert, ignored when the key is there.
Add(t) ==
    /\ At(t, "add")
    /\ LET u == frame[t].user IN
         \E key \in frame[t].todo :
            /\ inbox' = IF Holds(u, key) THEN inbox
                        ELSE [inbox EXCEPT ![u] = Append(@, [key |-> key, read |-> FALSE])]
            /\ IF frame[t].todo = {key} THEN NextSignal(t, frame[t])
               ELSE Go(t, "add", [frame[t] EXCEPT !.todo = @ \ {key}])
    /\ UNCHANGED <<seen, date, owed>>

\* POST /v1/notifications/read: the rows named, or all of them when none is.
StartMark(t) ==
    /\ \E u \in Readers :
         \E ids \in {{}} \cup {{i} : i \in DOMAIN inbox[u]} :
            Begin(t, "mark", [op |-> "mark", user |-> u, ids |-> ids])
    /\ UNCHANGED feedVars

MarkRead(t) ==
    /\ At(t, "mark")
    /\ LET u == frame[t].user
           ids == IF frame[t].ids = {} THEN DOMAIN inbox[u] ELSE frame[t].ids
       IN inbox' = [inbox EXCEPT ![u] =
                       [i \in DOMAIN @ |-> IF i \in ids THEN [@[i] EXCEPT !.read = TRUE] ELSE @[i]]]
    /\ Done(t)
    /\ UNCHANGED <<seen, date, owed>>

FeedNextDay ==
    /\ date < FeedDays
    /\ date' = date + 1
    /\ UNCHANGED <<pool, inbox, seen, owed>>

\* The process restarts: requests and what was last seen are gone, the table is not.
FeedRestart ==
    /\ \E t \in Threads : ~At(t, "idle")
    /\ pc' = [t \in Threads |-> "idle"]
    /\ frame' = [t \in Threads |-> NoFrame]
    /\ lastHealth' = [u \in Readers |-> Unseen]
    /\ lastBest' = ""
    /\ heard' = [health |-> [u \in Readers |-> Unseen], best |-> ""]
    /\ owed' = {}
    /\ UNCHANGED <<requests, inbox, date>>

FeedNext ==
    \/ FeedNextDay \/ FeedRestart
    \/ \E t \in Threads :
         \/ StartList(t) \/ AskSignal(t) \/ AskHealth(t) \/ AskRotation(t)
         \/ Add(t) \/ StartMark(t) \/ MarkRead(t)

-----------------------------------------------------------------------------

InFlight(key) == \E t \in Threads : At(t, "add") /\ frame[t].op = "list" /\ key \in frame[t].todo

\* A drop of the health score and a change of the best market are noticed by
\* whichever request swaps the last value, and none is lost between two requests:
\* it is in somebody's inbox, or the request that noticed it is about to add it.
ChangesReachAnInbox ==
    \A key \in owed : InFlight(key) \/ \E u \in Readers : Holds(u, key)

=============================================================================
