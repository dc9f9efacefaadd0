----------------------------- MODULE Membership -----------------------------
(***************************************************************************)
(* Who a user is and what the user may do: backend/app/auth (accounts by   *)
(* password or by a social identity, sessions) and backend/app/            *)
(* subscription (tier, expiry, feature gates, the daily limit).            *)
(*                                                                         *)
(* Both keep their rows in SQLite and commit once per call; a handler is   *)
(* several calls.  Cryptography is abstracted: a verified identity token   *)
(* is the identity it names, and a password matches itself only.           *)
(***************************************************************************)
EXTENDS RequestThreads, Sequences, FiniteSets

CONSTANTS
    Emails, Passwords, Subjects,  \* what users may present
    TokenDays,       \* access_token_ttl_seconds
    TermDays,        \* what one upgrade pays for
    AnalysisPerDay,  \* analysis_per_day of FREE
    Earlier,         \* what earlier processes left in the table users
    MaxUsers,        \* bound: accounts
    MaxDay           \* bound: days

ASSUME MembershipAssumption ==
    /\ {TokenDays, TermDays, AnalysisPerDay} \subseteq Nat \ {0}
    /\ {MaxUsers, MaxDay} \subseteq Nat

VARIABLES
    users,     \* table users, by id
    sessions,  \* access tokens issued, with (history) what was presented for them
    subs,      \* table subscriptions, by user
    daily,     \* table usage_daily, metric "analysis", by user and day
    preview,   \* TRADEWIZZ_PREVIEW_MODE: nothing is enforced
    today,
    bought,    \* history: upgrades
    opened,    \* history: paid features opened while enforced
    freeUses   \* history: analyses a FREE user was let through, by user and day

identities == <<users, sessions>>
entitled == <<subs, daily, bought, opened, freeUses>>
membershipVars == <<identities, entitled, preview, today>>

Ids == 1..MaxUsers
Days == 0..MaxDay
Unlimited == -1  \* UNLIMITED

Tiers == {"FREE", "PRO", "ELITE"}
Level(tier) == CASE tier = "FREE" -> 0 [] tier = "PRO" -> 1 [] tier = "ELITE" -> 2
\* One feature for each tier that is the first to include it.
Features == {"global_markets", "opportunity_radar", "portfolio_health"}
MinTier(f) == CASE f = "global_markets" -> "FREE"
                [] f = "opportunity_radar" -> "PRO"
                [] f = "portfolio_health" -> "ELITE"
TierIncludes(tier, f) == Level(MinTier(f)) <= Level(tier)
AnalysisLimit(tier) == IF tier = "FREE" THEN AnalysisPerDay ELSE Unlimited
\* normalize_tier: any other string is FREE.
Normalize(tier) == IF tier \in Tiers THEN tier ELSE "FREE"

\* A user row, or what a user presents: "" for a column that is NULL or empty.
Rows == [provider : {"EMAIL"}, email : Emails, password : Passwords, subject : {""}]
        \cup [provider : {"GOOGLE", "APPLE"}, email : Emails, password : {""}, subject : Subjects]

\* The column email is UNIQUE.
ASSUME EarlierAssumption ==
    \A table \in Earlier :
        /\ table \in Seq(Rows) /\ Len(table) <= MaxUsers
        /\ \A i, j \in 1..Len(table) : table[i].email = table[j].email => i = j
NoSub == [tier |-> "none", expires |-> 0]
FreeSub == [tier |-> "FREE", expires |-> 0]
PaidSubs == [tier : Tiers \ {"FREE"}, expires : 1..(MaxDay + TermDays)]

WithEmail(e) == {i \in DOMAIN users : users[i].email = e}
WithSubject(r) == {i \in DOMAIN users :
                     users[i].provider = r.provider /\ users[i].subject = r.subject}
HasToken(u) == \E s \in sessions : s.user = u /\ today < s.expires

MembershipInit ==
    /\ users \in Earlier
    /\ sessions = {[user |-> u, shown |-> users[u], expires |-> TokenDays] : u \in DOMAIN users}
    /\ subs = [u \in Ids |-> NoSub]
    /\ daily = [u \in Ids |-> [d \in Days |-> 0]]
    /\ preview \in BOOLEAN
    /\ today = 0
    /\ bought = {} /\ opened = {}
    /\ freeUses = [u \in Ids |-> [d \in Days |-> 0]]

(***************************** auth/service.py *****************************)

\* issue_token, the last thing a successful login does.
Issue(t, u, shown) ==
    /\ sessions' = sessions \cup {[user |-> u, shown |-> shown, expires |-> today + TokenDays]}
    /\ Done(t)

StartRegister(t) ==
    /\ \E e \in Emails, p \in Passwords :
         LET row == [provider |-> "EMAIL", email |-> e, password |-> p, subject |-> ""]
         IN Begin(t, "email", [op |-> "register", row |-> row])
    /\ UNCHANGED membershipVars

StartLogin(t) ==
    /\ \E e \in Emails, p \in Passwords :
         LET row == [provider |-> "EMAIL", email |-> e, password |-> p, subject |-> ""]
         IN Begin(t, "email", [op |-> "login", row |-> row])
    /\ UNCHANGED membershipVars

\* An identity token names its subject and, perhaps, an address, perhaps verified.
StartSocial(t) ==
    /\ \E e \in Emails, s \in Subjects, p \in {"GOOGLE", "APPLE"}, verified \in BOOLEAN :
         LET row == [provider |-> p, email |-> e, password |-> "", subject |-> s]
         IN Begin(t, "subject", [op |-> "social", row |-> row, verified |-> verified])
    /\ UNCHANGED membershipVars

\* The subject's column is not unique, and no order is asked of the rows.
LookupSubject(t) ==
    /\ At(t, "subject")
    /\ LET row == frame[t].row IN
         \/ \E i \in WithSubject(row) : Issue(t, i, row)
         \/ /\ WithSubject(row) = {}
            /\ IF frame[t].verified THEN Go(t, "email", frame[t]) ELSE Done(t)
            /\ UNCHANGED sessions
    /\ UNCHANGED <<users, entitled, preview, today>>

\* verify_password refuses the empty hash of a social account.
PasswordFits(row, i) == users[i].password # "" /\ users[i].password = row.password

\* Fault: an account with the address of a social identity is taken for its own.
LinkByEmail(t) ==
    /\ At(t, "email")
    /\ LET row == frame[t].row
           found == WithEmail(row.email)
       IN IF frame[t].op # "register" /\ found # {}
          THEN \E i \in found : (frame[t].op = "social" \/ PasswordFits(row, i)) /\ Issue(t, i, row)
          ELSE /\ IF frame[t].op # "login" THEN Go(t, "create", frame[t]) ELSE Done(t)
               /\ UNCHANGED sessions
    /\ UNCHANGED <<users, entitled, preview, today>>

LookupEmail(t) ==
    /\ At(t, "email")
    /\ LET row == frame[t].row
           found == WithEmail(row.email)
       IN IF frame[t].op = "login"
          THEN IF \E i \in found : PasswordFits(row, i)
               THEN \E i \in found : PasswordFits(row, i) /\ Issue(t, i, row)
               ELSE Done(t) /\ UNCHANGED sessions
          ELSE /\ IF found = {} THEN Go(t, "create", frame[t]) ELSE Done(t)
               /\ UNCHANGED sessions
    /\ UNCHANGED <<users, entitled, preview, today>>

\* The UNIQUE column refuses the insert when another request was first.
Create(t) ==
    /\ At(t, "create")
    /\ LET row == frame[t].row IN
         IF WithEmail(row.email) # {}
         THEN Done(t) /\ UNCHANGED identities
         ELSE /\ Len(users) < MaxUsers
              /\ users' = Append(users, row)
              /\ Issue(t, Len(users) + 1, row)
    /\ UNCHANGED <<entitled, preview, today>>

(************************* subscription/service.py *************************)

\* An endpoint that reads the tier, for a user with a valid token.
StartTier(t, u, f) ==
    /\ HasToken(u)
    /\ Begin(t, "tier", f)
    /\ UNCHANGED membershipVars

StartMe(t) == \E u \in DOMAIN users : StartTier(t, u, [op |-> "me", user |-> u])
StartUpgrade(t) == \E u \in DOMAIN users, asked \in Tiers \cup {"other"} :
    StartTier(t, u, [op |-> "upgrade", user |-> u, tier |-> Normalize(asked), since |-> today])
StartAnalysis(t) == \E u \in DOMAIN users : StartTier(t, u, [op |-> "analysis", user |-> u])
\* In preview mode require_feature returns at once.
StartFeature(t) == ~preview /\ \E u \in DOMAIN users, f \in Features :
    StartTier(t, u, [op |-> "feature", user |-> u, feature |-> f])

\* Fault: the last day is past the term.
ExpiredLate(row) == row.tier \in Tiers \ {"FREE"} /\ row.expires < today

Expired(row) == row.tier \in Tiers \ {"FREE"} /\ row.expires <= today
\* What the handler does with the tier it was given by _ensure.
WithTier(t, tier) ==
    LET f == frame[t] IN
    CASE f.op = "me" -> Done(t) /\ UNCHANGED opened
      [] f.op = "upgrade" -> Go(t, "set", f) /\ UNCHANGED opened
      [] f.op = "analysis" ->
           /\ Go(t, "used", [op |-> "analysis", user |-> f.user, limit |-> AnalysisLimit(tier)])
           /\ UNCHANGED opened
      [] f.op = "feature" ->
           /\ opened' = IF TierIncludes(tier, f.feature) /\ MinTier(f.feature) # "FREE"
                        THEN opened \cup {[user |-> f.user, tier |-> MinTier(f.feature), day |-> today]}
                        ELSE opened
           /\ Done(t)

\* _ensure: a first touch creates the row, an expired tier becomes FREE.
EnsureRead(t) ==
    /\ At(t, "tier")
    /\ LET row == subs[frame[t].user] IN
         IF row = NoSub \/ Expired(row)
         THEN Go(t, "free", frame[t]) /\ UNCHANGED opened
         ELSE WithTier(t, row.tier)
    /\ UNCHANGED <<identities, subs, daily, bought, freeUses, preview, today>>

EnsureWrite(t) ==
    /\ At(t, "free")
    /\ subs' = [subs EXCEPT ![frame[t].user] = FreeSub]
    /\ WithTier(t, "FREE")
    /\ UNCHANGED <<identities, daily, bought, freeUses, preview, today>>

\* upgrade writes the tier and returns what get_subscription then reads.
SetTier(t) ==
    /\ At(t, "set")
    /\ LET u == frame[t].user
           tier == frame[t].tier
           since == frame[t].since
           row == [tier |-> tier, expires |-> IF tier = "FREE" THEN 0 ELSE since + TermDays]
       IN /\ subs' = [subs EXCEPT ![u] = row]
          /\ bought' = IF tier = "FREE" THEN bought
                       ELSE bought \cup {[user |-> u, tier |-> tier, from |-> since]}
          /\ Go(t, "tier", [op |-> "me", user |-> u])
    /\ UNCHANGED <<identities, daily, opened, freeUses, preview, today>>

\* Fault: one more than the limit.
OverLimitLate(limit, used) == ~preview /\ limit # Unlimited /\ used > limit

OverLimit(limit, used) == ~preview /\ limit # Unlimited /\ used >= limit
\* check_and_count_analysis reads the counter, and counts in a second call.
ReadUsage(t) ==
    /\ At(t, "used")
    /\ IF OverLimit(frame[t].limit, daily[frame[t].user][today])
       THEN Done(t)
       ELSE Go(t, "count", frame[t])
    /\ UNCHANGED membershipVars

CountUse(t) ==
    /\ At(t, "count")
    /\ LET u == frame[t].user IN
         /\ daily' = [daily EXCEPT ![u][today] = @ + 1]
         /\ freeUses' = IF ~preview /\ frame[t].limit # Unlimited
                        THEN [freeUses EXCEPT ![u][today] = @ + 1] ELSE freeUses
    /\ Done(t)
    /\ UNCHANGED <<identities, subs, bought, opened, preview, today>>

NextDay ==
    /\ today < MaxDay
    /\ today' = today + 1
    /\ UNCHANGED <<pool, identities, entitled, preview>>

MembershipNext ==
    \/ NextDay
    \/ \E t \in Threads :
         \/ StartRegister(t) \/ StartLogin(t) \/ StartSocial(t)
         \/ LookupSubject(t) \/ LookupEmail(t) \/ Create(t)
         \/ StartMe(t) \/ StartUpgrade(t) \/ StartAnalysis(t) \/ StartFeature(t)
         \/ EnsureRead(t) \/ EnsureWrite(t) \/ SetTier(t) \/ ReadUsage(t) \/ CountUse(t)

MembershipSpec == PoolInit /\ MembershipInit /\ [][MembershipNext]_<<pool, membershipVars>>

-----------------------------------------------------------------------------

\* However registrations and sign-ins race, a session belongs to the account whose
\* own credentials were shown for it, and to the only one of its address: an address
\* alone, however it was verified, never opens somebody's account.
SessionsMatchCredentials ==
    \A s \in sessions :
        LET row == users[s.user] IN
        /\ row.provider = s.shown.provider
        /\ row.provider = "EMAIL" => row.email = s.shown.email /\ row.password = s.shown.password
        /\ row.provider # "EMAIL" => row.subject = s.shown.subject
        /\ WithEmail(row.email) = {s.user}

\* Whatever requests cross in _ensure and upgrade, a paid feature is opened only
\* within the term of an upgrade to its tier or above.
OpenedWithinTerm ==
    \A o \in opened : \E b \in bought :
        /\ b.user = o.user /\ Level(o.tier) <= Level(b.tier)
        /\ b.from <= o.day /\ o.day < b.from + TermDays

\* check_and_count_analysis reads and counts in two calls, so a FREE user can pass
\* the daily limit, but only by the other requests that were in flight.
OverrunIsInFlight ==
    \A u \in Ids, d \in Days :
        freeUses[u][d] < AnalysisPerDay + Cardinality(Threads)

=============================================================================
