----------------------------- MODULE UserServices -----------------------------
(***************************************************************************)
(* The services behind a signed-in user, as one process: accounts and      *)
(* subscriptions, the notification feed, the auto watchlist and the trade  *)
(* journal.  They share the request threads, and a restart of the process, *)
(* but none reads the tables of another.                                   *)
(***************************************************************************)
EXTENDS Membership, Feed, AutoWatchlist, Journal

VARIABLE focus  \* the service that this behaviour's requests are for

serviceVars == <<pool, membershipVars, feedVars, watchlistVars, journalVars, focus>>

Services == {"membership", "feed", "watchlist", "journal"}

UserInit ==
    /\ focus \in Services
    /\ PoolInit /\ MembershipInit /\ FeedInit /\ WatchlistInit /\ JournalInit
    \* Nothing but requests for the subscription is judged by the preview mode.
    /\ focus # "membership" => preview

MembershipStep == focus = "membership" /\ MembershipNext /\ UNCHANGED <<feedVars, watchlistVars, journalVars>>
FeedStep == focus = "feed" /\ FeedNext /\ UNCHANGED <<membershipVars, watchlistVars, journalVars>>
WatchlistStep == focus = "watchlist" /\ WatchlistNext /\ UNCHANGED <<membershipVars, feedVars, journalVars>>
JournalStep == focus = "journal" /\ JournalNext /\ UNCHANGED <<pool, membershipVars, feedVars, watchlistVars>>

UserNext ==
    /\ MembershipStep \/ FeedStep \/ WatchlistStep \/ JournalStep
    /\ UNCHANGED focus

UserSpec == UserInit /\ [][UserNext]_serviceVars

===============================================================================
