------------------------ MODULE UserServices_proofs ------------------------
(***************************************************************************)
(* Theorems about the services behind a signed-in user, for any users,     *)
(* credentials, terms, limits, alerts, offers and number of threads.       *)
(*                                                                         *)
(* Each invariant has a part about the tables and a part about the locals  *)
(* of the requests.  The tables keep theirs whichever service a behaviour  *)
(* is about; the locals are those of the service it is about.              *)
(***************************************************************************)
EXTENDS UserServices, FiniteSetTheorems, SequenceTheorems, WellFoundedInduction, TLAPS

-----------------------------------------------------------------------------
(* The request threads. *)

Pool == pc = [t \in Threads |-> pc[t]] /\ frame = [t \in Threads |-> frame[t]]

\* Thread t goes to l with the locals f, the others stay where they are.
Moved(t, l, f) ==
    /\ Pool'
    /\ pc'[t] = l /\ frame'[t] = f
    /\ \A u \in Threads : u # t => pc'[u] = pc[u] /\ frame'[u] = frame[u]

\* A thread that goes on leaves the others where they are.
LEMMA Moves ==
    ASSUME Pool, NEW t \in Threads, NEW l, NEW f, Begin(t, l, f) \/ Go(t, l, f)
    PROVE  Moved(t, l, f)
BY DEF Pool, Moved, Begin, Go

\* So does one that returns.
LEMMA Ends ==
    ASSUME Pool, NEW t \in Threads, Done(t)
    PROVE  Moved(t, "idle", NoFrame)
BY Moves DEF Done

-----------------------------------------------------------------------------
(* Accounts.  A session can only be wrong if an account with the address, or *)
(* the subject, of another was made between a look and a write.              *)

Accounts ==
    /\ users \in Seq(Rows) /\ Len(users) \in Nat /\ Len(users) <= MaxUsers
    /\ \A i, j \in 1..Len(users) : users[i].email = users[j].email => i = j

Matches(row, shown) ==
    /\ row.provider = shown.provider
    /\ row.provider = "EMAIL" => row.email = shown.email /\ row.password = shown.password
    /\ row.provider # "EMAIL" => row.subject = shown.subject

Sessions == \A s \in sessions : s.user \in 1..Len(users) /\ Matches(users[s.user], s.shown)

Tables == Accounts /\ Sessions /\ today \in Nat

Upgrades == [op : {"upgrade"}, user : Ids, tier : Tiers, since : Nat]
Callers == Upgrades \cup [op : {"me", "analysis"}, user : Ids]
                    \cup [op : {"feature"}, user : Ids, feature : Features]
Counters == [op : {"analysis"}, user : Ids, limit : {AnalysisPerDay, Unlimited}]

\* The locals f that a request may have at l.
Fits(l, f) ==
    /\ l = "subject" => f.row \in Rows /\ f.row.provider # "EMAIL" /\ f.op # "login"
    /\ l = "email" => f.row \in Rows /\ (f.op = "login" => f.row.provider = "EMAIL")
    /\ l = "create" => f.row \in Rows
    /\ l \in {"tier", "free"} => f \in Callers
    /\ l = "set" => f \in Upgrades
    /\ l \in {"used", "count"} => f \in Counters

Requests == Pool /\ \A t \in Threads : Fits(pc[t], frame[t])
AccountsInv == Requests /\ Tables

\* The columns of a row, by its provider.
LEMMA RowColumns ==
    ASSUME NEW r \in Rows
    PROVE  r.password # "" => r.provider = "EMAIL"
BY DEF Rows

LEMMA TablesInit == MembershipInit => Tables
<1> SUFFICES ASSUME MembershipInit PROVE Tables
  OBVIOUS
<1>1. Accounts
  BY EarlierAssumption, LenProperties DEF MembershipInit, Accounts
<1>2. \A u \in DOMAIN users : u \in 1..Len(users)
  BY <1>1 DEF Accounts
<1>3. Sessions
  BY <1>2 DEF MembershipInit, Sessions, Matches
<1> QED
  BY <1>1, <1>3 DEF Tables, MembershipInit

\* A session of an account that fits what was shown.
LEMMA IssueKeeps ==
    ASSUME Tables, NEW t, NEW i \in 1..Len(users), NEW row, Matches(users[i], row),
           Issue(t, i, row), UNCHANGED <<users, today>>
    PROVE  Tables'
BY DEF Tables, Accounts, Sessions, Issue, Matches

LEMMA TablesStay == Tables /\ UNCHANGED <<identities, today>> => Tables'
BY DEF Tables, Accounts, Sessions, Matches, identities

LEMMA RequestsStay ==
    ASSUME Requests, NEW t \in Threads, NEW l, NEW f, Moved(t, l, f), Fits(l, f)
    PROVE  Requests'
BY DEF Requests, Moved

\* The first calls of auth.
LEMMA StartAuth ==
    ASSUME AccountsInv, NEW t \in Threads, StartRegister(t) \/ StartLogin(t) \/ StartSocial(t)
    PROVE  AccountsInv'
<1>1. Tables'
  BY TablesStay DEF StartRegister, StartLogin, StartSocial, membershipVars, AccountsInv
<1>2. ASSUME NEW row \in Rows, row.provider = "EMAIL", NEW o,
             Begin(t, "email", [op |-> o, row |-> row])
      PROVE  AccountsInv'
  <2> DEFINE f == [op |-> o, row |-> row]
  <2>1. Moved(t, "email", f) /\ f.row = row
    BY <1>2, Moves DEF AccountsInv, Requests
  <2> HIDE DEF f
  <2> QED
    BY <1>1, <1>2, <2>1, RequestsStay DEF AccountsInv, Fits
<1>3. ASSUME NEW row \in Rows, row.provider # "EMAIL", NEW v,
             Begin(t, "subject", [op |-> "social", row |-> row, verified |-> v])
      PROVE  AccountsInv'
  <2> DEFINE f == [op |-> "social", row |-> row, verified |-> v]
  <2>1. Moved(t, "subject", f) /\ f.row = row /\ f.op = "social"
    BY <1>3, Moves DEF AccountsInv, Requests
  <2> HIDE DEF f
  <2> QED
    BY <1>1, <1>3, <2>1, RequestsStay DEF AccountsInv, Fits
<1>4. CASE StartRegister(t)
  <2>1. PICK e \in Emails, p \in Passwords :
          Begin(t, "email", [op |-> "register", row |-> [provider |-> "EMAIL", email |-> e, password |-> p, subject |-> ""]])
    BY <1>4 DEF StartRegister
  <2> DEFINE row == [provider |-> "EMAIL", email |-> e, password |-> p, subject |-> ""]
  <2>2. row \in Rows /\ row.provider = "EMAIL" /\ Begin(t, "email", [op |-> "register", row |-> row])
    BY <2>1 DEF Rows
  <2> HIDE DEF row
  <2> QED
    BY <1>2, <2>2
<1>5. CASE StartLogin(t)
  <2>1. PICK e \in Emails, p \in Passwords :
          Begin(t, "email", [op |-> "login", row |-> [provider |-> "EMAIL", email |-> e, password |-> p, subject |-> ""]])
    BY <1>5 DEF StartLogin
  <2> DEFINE row == [provider |-> "EMAIL", email |-> e, password |-> p, subject |-> ""]
  <2>2. row \in Rows /\ row.provider = "EMAIL" /\ Begin(t, "email", [op |-> "login", row |-> row])
    BY <2>1 DEF Rows
  <2> HIDE DEF row
  <2> QED
    BY <1>2, <2>2
<1>6. CASE StartSocial(t)
  <2>1. PICK e \in Emails, s \in Subjects, v \in {"GOOGLE", "APPLE"}, verified \in BOOLEAN :
          Begin(t, "subject", [op |-> "social", verified |-> verified,
                               row |-> [provider |-> v, email |-> e, password |-> "", subject |-> s]])
    BY <1>6 DEF StartSocial
  <2> DEFINE row == [provider |-> v, email |-> e, password |-> "", subject |-> s]
  <2>2. row \in Rows /\ row.provider # "EMAIL" /\ Begin(t, "subject", [op |-> "social", row |-> row, verified |-> verified])
    BY <2>1 DEF Rows
  <2> HIDE DEF row
  <2> QED
    BY <1>3, <2>2
<1> QED
  BY <1>4, <1>5, <1>6

\* A thread whose request ends, and whatever it did to the tables.
LEMMA EndsWith ==
    ASSUME AccountsInv, NEW t \in Threads, Done(t), Tables'
    PROVE  AccountsInv'
BY Ends, RequestsStay DEF AccountsInv, Requests, Fits

LEMMA LookupSubjectKeeps ==
    ASSUME AccountsInv, NEW t \in Threads, LookupSubject(t)
    PROVE  AccountsInv'
<1> DEFINE row == frame[t].row
<1>1. row \in Rows /\ row.provider # "EMAIL" /\ frame[t].op # "login"
  BY DEF LookupSubject, AccountsInv, Requests, Fits, At
<1>2. ASSUME NEW i \in WithSubject(row), Issue(t, i, row), UNCHANGED <<users, today>>
      PROVE  AccountsInv'
  <2>1. i \in 1..Len(users) /\ Matches(users[i], row)
    BY <1>1, <1>2 DEF WithSubject, AccountsInv, Tables, Accounts, Matches
  <2>2. Tables'
    BY <1>2, <2>1, IssueKeeps DEF AccountsInv
  <2> QED
    BY <1>2, <2>2, EndsWith DEF Issue
<1>3. ASSUME UNCHANGED <<identities, today>>, Go(t, "email", frame[t]) \/ Done(t)
      PROVE  AccountsInv'
  <2>1. Tables'
    BY <1>3, TablesStay DEF AccountsInv
  <2>2. CASE Go(t, "email", frame[t])
    <3>1. Moved(t, "email", frame[t])
      BY <2>2, Moves DEF AccountsInv, Requests
    <3> QED
      BY <1>1, <2>1, <3>1, RequestsStay DEF AccountsInv, Fits
  <2> QED
    BY <1>3, <2>1, <2>2, EndsWith
<1> QED
  BY <1>2, <1>3 DEF LookupSubject, identities

LEMMA LookupEmailKeeps ==
    ASSUME AccountsInv, NEW t \in Threads, LookupEmail(t)
    PROVE  AccountsInv'
<1> DEFINE row == frame[t].row
<1>1. row \in Rows /\ (frame[t].op = "login" => row.provider = "EMAIL")
  BY DEF LookupEmail, AccountsInv, Requests, Fits, At
<1>2. ASSUME NEW i \in WithEmail(row.email), frame[t].op = "login", PasswordFits(row, i),
             Issue(t, i, row), UNCHANGED <<users, today>>
      PROVE  AccountsInv'
  <2>1. i \in 1..Len(users) /\ users[i] \in Rows /\ users[i].email = row.email
    BY DEF WithEmail, AccountsInv, Tables, Accounts
  <2>2. Matches(users[i], row)
    BY <1>1, <1>2, <2>1, RowColumns DEF Matches, PasswordFits
  <2>3. Tables'
    BY <1>2, <2>1, <2>2, IssueKeeps DEF AccountsInv
  <2> QED
    BY <1>2, <2>3, EndsWith DEF Issue
<1>3. ASSUME UNCHANGED <<identities, today>>, Go(t, "create", frame[t]) \/ Done(t)
      PROVE  AccountsInv'
  <2>1. Tables'
    BY <1>3, TablesStay DEF AccountsInv
  <2>2. CASE Go(t, "create", frame[t])
    <3>1. Moved(t, "create", frame[t])
      BY <2>2, Moves DEF AccountsInv, Requests
    <3> QED
      BY <1>1, <2>1, <3>1, RequestsStay DEF AccountsInv, Fits
  <2> QED
    BY <1>3, <2>1, <2>2, EndsWith
<1> QED
  BY <1>2, <1>3 DEF LookupEmail, identities

LEMMA CreateKeeps ==
    ASSUME AccountsInv, NEW t \in Threads, Create(t)
    PROVE  AccountsInv'
<1> DEFINE row == frame[t].row
           n == Len(users)
<1>1. row \in Rows
  BY DEF Create, AccountsInv, Requests, Fits, At
<1>2. CASE WithEmail(row.email) # {}
  <2>1. Done(t) /\ UNCHANGED <<identities, today>>
    BY <1>2 DEF Create
  <2> QED
    BY <2>1, TablesStay, EndsWith DEF AccountsInv
<1>3. CASE WithEmail(row.email) = {}
  <2>1. n < MaxUsers /\ users' = Append(users, row) /\ Issue(t, n + 1, row)
    BY <1>3 DEF Create
  <2>2. /\ users' \in Seq(Rows) /\ Len(users') = n + 1 /\ n \in Nat
        /\ \A i \in 1..n : users'[i] = users[i]
        /\ users'[n + 1] = row
    BY <1>1, <2>1, AppendProperties DEF AccountsInv, Tables, Accounts
  <2>3. \A i \in 1..n : users[i].email # row.email
    BY <1>3 DEF WithEmail, AccountsInv, Tables, Accounts
  <2>4. Accounts'
    <3>1. ASSUME NEW i \in 1..(n + 1), NEW j \in 1..(n + 1), users'[i].email = users'[j].email
          PROVE  i = j
      BY <2>2, <2>3, <3>1 DEF AccountsInv, Tables, Accounts
    <3>2. n + 1 <= MaxUsers
      BY <2>1, <2>2, MembershipAssumption
    <3> QED
      BY <2>2, <3>1, <3>2 DEF Accounts
  <2>5. Sessions'
    <3>1. ASSUME NEW s \in sessions'
          PROVE  s.user \in 1..(n + 1) /\ Matches(users'[s.user], s.shown)
      <4>1. CASE s \in sessions
        BY <2>2, <4>1 DEF AccountsInv, Tables, Sessions
      <4>2. CASE s \notin sessions
        BY <2>1, <2>2, <4>2 DEF Issue, Matches
      <4> QED
        BY <4>1, <4>2
    <3> QED
      BY <2>2, <3>1 DEF Sessions, Matches
  <2> QED
    BY <2>1, <2>4, <2>5, EndsWith DEF Issue, Tables, Create, AccountsInv
<1> QED
  BY <1>2, <1>3

-----------------------------------------------------------------------------
(* The handlers of the subscription: what they do to the threads. *)

LEMMA StartAsks ==
    ASSUME AccountsInv, NEW t \in Threads,
           StartMe(t) \/ StartUpgrade(t) \/ StartAnalysis(t) \/ StartFeature(t)
    PROVE  \E f \in Callers : Moved(t, "tier", f)
<1>1. \A u \in DOMAIN users : u \in Ids
  BY MembershipAssumption DEF AccountsInv, Tables, Accounts, Ids
<1>2. ASSUME NEW f \in Callers, NEW u, StartTier(t, u, f)
      PROVE  \E g \in Callers : Moved(t, "tier", g)
  BY <1>2, Moves DEF StartTier, AccountsInv, Requests
<1>3. CASE StartMe(t)
  <2>1. PICK u \in DOMAIN users : StartTier(t, u, [op |-> "me", user |-> u])
    BY <1>3 DEF StartMe
  <2>2. [op |-> "me", user |-> u] \in Callers
    BY <1>1 DEF Callers
  <2> QED
    BY <1>2, <2>1, <2>2
<1>4. CASE StartUpgrade(t)
  <2>1. PICK u \in DOMAIN users, asked \in Tiers \cup {"other"} :
          StartTier(t, u, [op |-> "upgrade", user |-> u, tier |-> Normalize(asked), since |-> today])
    BY <1>4 DEF StartUpgrade
  <2>2. [op |-> "upgrade", user |-> u, tier |-> Normalize(asked), since |-> today] \in Callers
    BY <1>1 DEF Callers, Upgrades, Normalize, Tiers, AccountsInv, Tables
  <2> QED
    BY <1>2, <2>1, <2>2
<1>5. CASE StartAnalysis(t)
  <2>1. PICK u \in DOMAIN users : StartTier(t, u, [op |-> "analysis", user |-> u])
    BY <1>5 DEF StartAnalysis
  <2>2. [op |-> "analysis", user |-> u] \in Callers
    BY <1>1 DEF Callers
  <2> QED
    BY <1>2, <2>1, <2>2
<1>6. CASE StartFeature(t)
  <2>1. PICK u \in DOMAIN users, f \in Features :
          StartTier(t, u, [op |-> "feature", user |-> u, feature |-> f])
    BY <1>6 DEF StartFeature
  <2>2. [op |-> "feature", user |-> u, feature |-> f] \in Callers
    BY <1>1 DEF Callers
  <2> QED
    BY <1>2, <2>1, <2>2
<1> QED
  BY <1>3, <1>4, <1>5, <1>6

\* Where a handler goes with the tier it was given.
LEMMA WithTierGoes ==
    ASSUME Pool, NEW t \in Threads, frame[t] \in Callers, NEW tier, WithTier(t, tier)
    PROVE  \/ Moved(t, "idle", NoFrame)
           \/ Moved(t, "set", frame[t]) /\ frame[t] \in Upgrades
           \/ \E f \in Counters : Moved(t, "used", f)
<1>1. frame[t].op \in {"me", "upgrade", "analysis", "feature"}
  BY DEF Callers, Upgrades
<1>2. CASE frame[t].op \in {"me", "feature"}
  BY <1>2, Ends DEF WithTier
<1>3. CASE frame[t].op = "upgrade"
  <2>1. Go(t, "set", frame[t]) /\ frame[t] \in Upgrades
    BY <1>3 DEF WithTier, Callers, Upgrades
  <2> QED
    BY <2>1, Moves
<1>4. CASE frame[t].op = "analysis"
  <2> DEFINE f == [op |-> "analysis", user |-> frame[t].user, limit |-> AnalysisLimit(tier)]
  <2>1. Go(t, "used", f)
    BY <1>4 DEF WithTier
  <2>2. f \in Counters
    BY DEF Callers, Upgrades, Counters, AnalysisLimit
  <2> QED
    BY <2>1, <2>2, Moves
<1> QED
  BY <1>1, <1>2, <1>3, <1>4

\* The calls of the subscription's handlers, from where to where.
LEMMA SubscriptionGoes ==
    ASSUME AccountsInv, NEW t \in Threads,
           EnsureRead(t) \/ EnsureWrite(t) \/ SetTier(t) \/ ReadUsage(t) \/ CountUse(t)
    PROVE  \/ Moved(t, "idle", NoFrame)
           \/ Moved(t, "free", frame[t]) /\ frame[t] \in Callers
           \/ Moved(t, "set", frame[t]) /\ frame[t] \in Upgrades
           \/ \E f \in Callers : Moved(t, "tier", f) /\ f.op = "me"
           \/ \E f \in Counters : Moved(t, "used", f)
           \/ Moved(t, "count", frame[t]) /\ frame[t] \in Counters /\ At(t, "used")
<1> USE DEF AccountsInv, Requests, Fits
<1>1. CASE EnsureRead(t) \/ EnsureWrite(t)
  <2>1. frame[t] \in Callers
    BY <1>1 DEF EnsureRead, EnsureWrite, At
  <2>2. Go(t, "free", frame[t]) \/ \E tier : WithTier(t, tier)
    BY <1>1 DEF EnsureRead, EnsureWrite
  <2> QED
    BY <2>1, <2>2, WithTierGoes, Moves
<1>2. CASE SetTier(t)
  <2>1. frame[t] \in Upgrades
    BY <1>2 DEF SetTier, At
  <2> DEFINE f == [op |-> "me", user |-> frame[t].user]
  <2>2. f \in Callers /\ f.op = "me"
    BY <2>1 DEF Callers, Upgrades
  <2>3. Moved(t, "tier", f)
    BY <1>2, Moves DEF SetTier
  <2> QED
    BY <2>2, <2>3
<1>3. CASE ReadUsage(t)
  <2>1. frame[t] \in Counters
    BY <1>3 DEF ReadUsage, At
  <2> QED
    BY <1>3, <2>1, Ends, Moves DEF ReadUsage
<1>4. CASE CountUse(t)
  BY <1>4, Ends DEF CountUse
<1> QED
  BY <1>1, <1>2, <1>3, <1>4

LEMMA AccountsStep == AccountsInv /\ MembershipNext => AccountsInv'
<1> SUFFICES ASSUME AccountsInv, MembershipNext PROVE AccountsInv'
  OBVIOUS
<1>1. CASE NextDay
  BY <1>1 DEF NextDay, AccountsInv, Requests, Pool, pool, Tables, Accounts, Sessions, Matches, identities
<1>2. ASSUME NEW t \in Threads, StartMe(t) \/ StartUpgrade(t) \/ StartAnalysis(t) \/ StartFeature(t)
      PROVE  AccountsInv'
  <2>1. UNCHANGED <<identities, today>>
    BY <1>2 DEF StartMe, StartUpgrade, StartAnalysis, StartFeature, StartTier, membershipVars
  <2>2. PICK f \in Callers : Moved(t, "tier", f)
    BY <1>2, StartAsks
  <2> QED
    BY <2>1, <2>2, TablesStay, RequestsStay DEF AccountsInv, Fits
<1>3. ASSUME NEW t \in Threads,
             EnsureRead(t) \/ EnsureWrite(t) \/ SetTier(t) \/ ReadUsage(t) \/ CountUse(t)
      PROVE  AccountsInv'
  <2>1. UNCHANGED <<identities, today>>
    BY <1>3 DEF EnsureRead, EnsureWrite, SetTier, ReadUsage, CountUse, membershipVars
  <2>2. \E l, f : Moved(t, l, f) /\ Fits(l, f)
    BY <1>3, SubscriptionGoes DEF Fits
  <2> QED
    BY <2>1, <2>2, TablesStay, RequestsStay DEF AccountsInv
<1> QED
  BY <1>1, <1>2, <1>3, StartAuth, LookupSubjectKeeps, LookupEmailKeeps, CreateKeeps DEF MembershipNext

\* Where the handlers of auth go.
LEMMA AuthGoes ==
    ASSUME AccountsInv, NEW t \in Threads,
           \/ StartRegister(t) \/ StartLogin(t) \/ StartSocial(t)
           \/ LookupSubject(t) \/ LookupEmail(t) \/ Create(t)
    PROVE  \E l, f : l \in {"idle", "email", "subject", "create"} /\ Moved(t, l, f)
<1>1. PICK l, f : l \in {"idle", "email", "subject", "create"} /\ (Begin(t, l, f) \/ Go(t, l, f))
  <2>1. CASE StartRegister(t)
    <3>1. PICK e \in Emails, p \in Passwords :
            Begin(t, "email", [op |-> "register", row |-> [provider |-> "EMAIL", email |-> e, password |-> p, subject |-> ""]])
      BY <2>1 DEF StartRegister
    <3>2. \E f : Begin(t, "email", f)
      BY <3>1, Zenon
    <3> QED
      BY <3>2
  <2>2. CASE StartLogin(t)
    <3>1. PICK e \in Emails, p \in Passwords :
            Begin(t, "email", [op |-> "login", row |-> [provider |-> "EMAIL", email |-> e, password |-> p, subject |-> ""]])
      BY <2>2 DEF StartLogin
    <3>2. \E f : Begin(t, "email", f)
      BY <3>1, Zenon
    <3> QED
      BY <3>2
  <2>3. CASE StartSocial(t)
    <3>1. PICK e \in Emails, s \in Subjects, v \in {"GOOGLE", "APPLE"}, verified \in BOOLEAN :
            Begin(t, "subject", [op |-> "social", verified |-> verified,
                                 row |-> [provider |-> v, email |-> e, password |-> "", subject |-> s]])
      BY <2>3 DEF StartSocial
    <3>2. \E f : Begin(t, "subject", f)
      BY <3>1, Zenon
    <3> QED
      BY <3>2
  <2>4. CASE LookupSubject(t)
    BY <2>4 DEF LookupSubject, Issue, Done
  <2>5. CASE LookupEmail(t)
    BY <2>5 DEF LookupEmail, Issue, Done
  <2>6. CASE Create(t)
    BY <2>6 DEF Create, Issue, Done
  <2> QED
    BY <2>1, <2>2, <2>3, <2>4, <2>5, <2>6
<1> QED
  BY <1>1, Moves DEF AccountsInv, Requests

-----------------------------------------------------------------------------
(* Terms.  A row of subscriptions is not what opens a feature: _ensure reads *)
(* it, and upgrade and expiry write it, in calls of several requests.        *)

\* Upgrade b of user u is what the row says.
Pays(b, u, row) ==
    /\ b.user = u /\ b.tier = row.tier /\ b.from \in Nat
    /\ row.expires = b.from + TermDays

Terms ==
    /\ subs = [u \in Ids |-> subs[u]]
    /\ \A u \in Ids :
         \/ subs[u] \in {NoSub, FreeSub}
         \/ /\ subs[u].tier \in Tiers \ {"FREE"}
            /\ \E b \in bought : Pays(b, u, subs[u]) /\ b.from <= today

Asked(t) == (At(t, "tier") \/ At(t, "free") \/ At(t, "set")) /\ frame[t].op = "upgrade"

TermsInv ==
    /\ Terms /\ OpenedWithinTerm
    /\ \A t \in Threads : Asked(t) => frame[t].since <= today

LEMMA TermsInit == PoolInit /\ MembershipInit => TermsInv
BY DEF PoolInit, MembershipInit, TermsInv, Terms, OpenedWithinTerm, Asked, At

\* A request that asks for an upgrade has done so since it began.
LEMMA AskedStay ==
    ASSUME AccountsInv, TermsInv, NEW t \in Threads, NEW l, NEW f, Moved(t, l, f), today' = today,
           l \in {"tier", "free", "set"} /\ f.op = "upgrade" => f.since <= today
    PROVE  \A u \in Threads : Asked(u)' => frame'[u].since <= today'
<1> SUFFICES ASSUME NEW u \in Threads, Asked(u)' PROVE frame'[u].since <= today'
  OBVIOUS
<1>1. CASE u = t
  BY <1>1 DEF Moved, Asked, At
<1>2. CASE u # t
  <2>1. Asked(u) /\ frame'[u] = frame[u]
    BY <1>2 DEF Moved, Asked, At
  <2> QED
    BY <2>1 DEF TermsInv
<1> QED
  BY <1>1, <1>2

LEMMA TermsStay ==
    ASSUME TermsInv, UNCHANGED <<subs, bought, opened, today>>
    PROVE  Terms' /\ OpenedWithinTerm'
BY DEF TermsInv, Terms, OpenedWithinTerm, Pays

\* A feature that is opened with the tier of a row whose term has not ended.
LEMMA OpenedInTerm ==
    ASSUME AccountsInv, TermsInv, NEW t \in Threads, frame[t] \in Callers,
           NEW tier \in Tiers, WithTier(t, tier),
           tier # "FREE" => tier = subs[frame[t].user].tier /\ ~Expired(subs[frame[t].user]),
           UNCHANGED <<bought, today>>
    PROVE  OpenedWithinTerm'
<1>1. CASE opened' = opened
  BY <1>1 DEF TermsInv, OpenedWithinTerm
<1>2. CASE opened' # opened
  <2>1. frame[t].op \in {"me", "upgrade", "analysis", "feature"}
    BY DEF Callers, Upgrades
  <2>2. frame[t].op = "feature" /\ frame[t] \in [op : {"feature"}, user : Ids, feature : Features]
    <3>1. frame[t].op = "feature"
      BY <1>2, <2>1 DEF WithTier
    <3> QED
      BY <3>1 DEF Callers, Upgrades
  <2> DEFINE u == frame[t].user
             m == MinTier(frame[t].feature)
             o == [user |-> u, tier |-> m, day |-> today]
  <2>3. /\ TierIncludes(tier, frame[t].feature) /\ m # "FREE"
        /\ opened' = opened \cup {o}
    BY <1>2, <2>2 DEF WithTier
  <2>4. m \in Tiers /\ Level(m) <= Level(tier) /\ tier # "FREE" /\ u \in Ids
    BY <2>2, <2>3 DEF TierIncludes, MinTier, Level, Tiers, Features
  <2>5. PICK b \in bought : Pays(b, u, subs[u]) /\ b.from <= today
    BY <2>4 DEF TermsInv, Terms, NoSub, FreeSub, Tiers
  <2>6. today < subs[u].expires
    <3>1. subs[u].expires \in Nat /\ today \in Nat
      BY <2>5, MembershipAssumption DEF Pays, AccountsInv, Tables
    <3> QED
      BY <2>4, <3>1 DEF Expired
  <2>7. b.user = u /\ Level(m) <= Level(b.tier) /\ b.from <= today /\ today < b.from + TermDays
    BY <2>4, <2>5, <2>6 DEF Pays
  <2> HIDE DEF m, u
  <2>8. \A x \in opened' : x \in opened \/ (x.user = u /\ x.tier = m /\ x.day = today)
    BY <2>3
  <2> QED
    BY <2>7, <2>8 DEF TermsInv, OpenedWithinTerm
<1> QED
  BY <1>1, <1>2

LEMMA TermsStep == AccountsInv /\ TermsInv /\ MembershipNext => TermsInv'
<1> SUFFICES ASSUME AccountsInv, TermsInv, MembershipNext PROVE TermsInv'
  OBVIOUS
<1> DEFINE Calm == UNCHANGED <<subs, bought, opened, today>>
<1>1. CASE NextDay
  <2>1. today \in Nat /\ today' = today + 1 /\ UNCHANGED <<pc, frame, subs, bought, opened>>
    BY <1>1 DEF NextDay, pool, entitled, AccountsInv, Tables
  <2>2. Terms'
    <3> SUFFICES ASSUME NEW u \in Ids, NEW b \in bought, b.from \in Nat, b.from <= today
                 PROVE  b.from <= today'
      BY <2>1 DEF TermsInv, Terms, Pays
    <3> QED
      BY <2>1
  <2>3. OpenedWithinTerm'
    BY <2>1 DEF TermsInv, OpenedWithinTerm
  <2>4. ASSUME NEW t \in Threads, Asked(t)' PROVE frame'[t].since <= today'
    <3>1. Asked(t) /\ frame'[t] = frame[t] /\ frame[t].since <= today
      BY <2>1, <2>4 DEF Asked, At, TermsInv
    <3>2. frame[t].since \in Nat
      BY <3>1 DEF Asked, At, AccountsInv, Requests, Fits, Callers, Upgrades
    <3> QED
      BY <2>1, <3>1, <3>2
  <2> QED
    BY <2>2, <2>3, <2>4 DEF TermsInv
<1>2. ASSUME NEW t \in Threads,
             \/ StartRegister(t) \/ StartLogin(t) \/ StartSocial(t)
             \/ LookupSubject(t) \/ LookupEmail(t) \/ Create(t)
      PROVE  TermsInv'
  <2>1. Calm
    BY <1>2 DEF StartRegister, StartLogin, StartSocial, LookupSubject, LookupEmail, Create,
                membershipVars, entitled
  <2>2. PICK l, f : Moved(t, l, f) /\ l \notin {"tier", "free", "set"}
    BY <1>2, AuthGoes
  <2> QED
    BY <2>1, <2>2, AskedStay, TermsStay DEF TermsInv
<1>3. ASSUME NEW t \in Threads, StartMe(t) \/ StartUpgrade(t) \/ StartAnalysis(t) \/ StartFeature(t)
      PROVE  TermsInv'
  <2>1. Calm
    BY <1>3 DEF StartMe, StartUpgrade, StartAnalysis, StartFeature, StartTier, membershipVars, entitled
  <2>2. PICK f : Begin(t, "tier", f) /\ (f.op = "upgrade" => f.since = today)
    <3>1. CASE StartMe(t)
      BY <3>1 DEF StartMe, StartTier
    <3>2. CASE StartUpgrade(t)
      BY <3>2 DEF StartUpgrade, StartTier
    <3>3. CASE StartAnalysis(t)
      BY <3>3 DEF StartAnalysis, StartTier
    <3>4. CASE StartFeature(t)
      BY <3>4 DEF StartFeature, StartTier
    <3> QED
      BY <1>3, <3>1, <3>2, <3>3, <3>4
  <2>3. Moved(t, "tier", f)
    BY <2>2, Moves DEF AccountsInv, Requests
  <2>4. today <= today
    BY DEF AccountsInv, Tables
  <2> QED
    BY <2>1, <2>2, <2>3, <2>4, AskedStay, TermsStay DEF TermsInv
<1>4. ASSUME NEW t \in Threads,
             EnsureRead(t) \/ EnsureWrite(t) \/ SetTier(t) \/ ReadUsage(t) \/ CountUse(t)
      PROVE  TermsInv'
  <2>1. today' = today
    BY <1>4 DEF EnsureRead, EnsureWrite, SetTier, ReadUsage, CountUse, membershipVars
  <2>2. \A u \in Threads : Asked(u)' => frame'[u].since <= today'
    <3>1. \/ \E l, f : Moved(t, l, f) /\ l \notin {"tier", "free", "set"}
          \/ \E f : Moved(t, "tier", f) /\ f.op = "me"
          \/ \E l \in {"free", "set"} : Moved(t, l, frame[t]) /\ (At(t, "tier") \/ At(t, "free"))
      <4>1. CASE EnsureRead(t) \/ EnsureWrite(t)
        <5>1. At(t, "tier") \/ At(t, "free")
          BY <4>1 DEF EnsureRead, EnsureWrite
        <5> QED
          BY <1>4, <5>1, SubscriptionGoes
      <4>2. CASE SetTier(t)
        BY <4>2, Moves DEF SetTier, AccountsInv, Requests
      <4>3. CASE ReadUsage(t) \/ CountUse(t)
        BY <4>3, Moves, Ends DEF ReadUsage, CountUse, AccountsInv, Requests
      <4> QED
        BY <1>4, <4>1, <4>2, <4>3
    <3>2. (At(t, "tier") \/ At(t, "free")) /\ frame[t].op = "upgrade" => frame[t].since <= today
      BY DEF TermsInv, Asked
    <3> QED
      BY <2>1, <3>1, <3>2, AskedStay
  <2>3. CASE EnsureRead(t)
    <3>1. UNCHANGED <<subs, bought, today>> /\ frame[t] \in Callers /\ frame[t].user \in Ids
      BY <2>3 DEF EnsureRead, AccountsInv, Requests, Fits, At, Callers, Upgrades
    <3>2. CASE opened' = opened
      BY <2>2, <3>1, <3>2, TermsStay DEF TermsInv
    <3>3. CASE opened' # opened
      <4> DEFINE row == subs[frame[t].user]
      <4>1. row # NoSub /\ ~Expired(row) /\ WithTier(t, row.tier)
        BY <2>3, <3>3 DEF EnsureRead
      <4>2. row.tier \in Tiers
        BY <3>1, <4>1 DEF TermsInv, Terms, FreeSub, Tiers
      <4>3. OpenedWithinTerm'
        BY <3>1, <4>1, <4>2, OpenedInTerm
      <4> QED
        BY <2>2, <3>1, <4>3 DEF TermsInv, Terms, Pays
    <3> QED
      BY <3>2, <3>3
  <2>4. CASE EnsureWrite(t)
    <3>1. UNCHANGED <<bought, today>> /\ frame[t] \in Callers
      BY <2>4 DEF EnsureWrite, AccountsInv, Requests, Fits, At
    <3>2. OpenedWithinTerm'
      BY <2>4, <3>1, OpenedInTerm DEF EnsureWrite, Tiers
    <3>3. Terms'
      BY <2>4, <3>1 DEF EnsureWrite, TermsInv, Terms, Pays
    <3> QED
      BY <2>2, <3>2, <3>3 DEF TermsInv
  <2>5. CASE SetTier(t)
    <3> DEFINE f == frame[t]
               row == [tier |-> f.tier, expires |-> IF f.tier = "FREE" THEN 0 ELSE f.since + TermDays]
               b == [user |-> f.user, tier |-> f.tier, from |-> f.since]
    <3>1. f \in Upgrades /\ f.since <= today
      BY <2>5 DEF SetTier, AccountsInv, Requests, Fits, At, Upgrades, TermsInv, Asked
    <3>2. /\ subs' = [subs EXCEPT ![f.user] = row]
          /\ bought' = IF f.tier = "FREE" THEN bought ELSE bought \cup {b}
          /\ opened' = opened
      BY <2>5 DEF SetTier
    <3>3. OpenedWithinTerm'
      BY <3>2 DEF TermsInv, OpenedWithinTerm
    <3>4. f.tier = "FREE" => row = FreeSub
      BY DEF FreeSub
    <3>5. f.tier # "FREE" => row.tier \in Tiers \ {"FREE"} /\ Pays(b, f.user, row) /\ b.from <= today
      BY <3>1 DEF Pays, Upgrades
    <3>6. f.user \in Ids /\ f.tier \in Tiers
      BY <3>1 DEF Upgrades
    <3> HIDE DEF row, b
    <3>7. bought \subseteq bought' /\ (f.tier # "FREE" => b \in bought')
      BY <3>2
    <3>8. /\ subs' = [u \in Ids |-> subs'[u]] /\ subs'[f.user] = row
          /\ \A u \in Ids : u # f.user => subs'[u] = subs[u]
      BY <3>2, <3>6 DEF TermsInv, Terms
    <3>9. Terms'
      BY <2>1, <3>4, <3>5, <3>7, <3>8 DEF TermsInv, Terms, Pays
    <3> QED
      BY <2>2, <3>3, <3>9 DEF TermsInv
  <2>6. CASE ReadUsage(t) \/ CountUse(t)
    BY <2>2, <2>6, TermsStay DEF TermsInv, ReadUsage, CountUse, membershipVars, entitled
  <2> QED
    BY <1>4, <2>3, <2>4, <2>5, <2>6
<1> QED
  BY <1>1, <1>2, <1>3, <1>4 DEF MembershipNext

-----------------------------------------------------------------------------
(* The daily limit.  A request that is about to count has passed the check;  *)
(* together with the uses counted, those requests are what may get through.  *)

Counting(u) == {t \in Threads : At(t, "count") /\ frame[t].user = u /\ frame[t].limit # Unlimited}
Most == AnalysisPerDay + Cardinality(Threads)

Uses ==
    /\ today \in Days
    /\ daily \in [Ids -> [Days -> Nat]] /\ freeUses \in [Ids -> [Days -> Nat]]
    /\ \A u \in Ids, d \in Days :
         /\ freeUses[u][d] <= daily[u][d] /\ freeUses[u][d] < Most
         /\ d > today => daily[u][d] = 0
         /\ preview => freeUses[u][d] = 0

UsesInv ==
    /\ Uses
    /\ \A u \in Ids : freeUses[u][today] + Cardinality(Counting(u)) < Most

\* The threads can be counted, and no set of them is larger.
LEMMA Threaded ==
    /\ AnalysisPerDay \in Nat \ {0} /\ Cardinality(Threads) \in Nat /\ Most \in Nat
    /\ \A S \in SUBSET Threads : Cardinality(S) \in Nat /\ Cardinality(S) <= Cardinality(Threads)
BY PoolAssumption, MembershipAssumption, FS_CardinalityType, FS_Subset DEF Most

LEMMA UsesInit == PoolInit /\ MembershipInit => UsesInv
<1> SUFFICES ASSUME PoolInit, MembershipInit PROVE UsesInv
  OBVIOUS
<1>1. Uses
  BY Threaded, MembershipAssumption DEF MembershipInit, Uses, Days, Most
<1>2. ASSUME NEW u \in Ids PROVE freeUses[u][today] + Cardinality(Counting(u)) < Most
  <2>1. freeUses[u][today] = 0
    BY <1>1 DEF MembershipInit, Uses
  <2>2. Counting(u) = {}
    BY DEF PoolInit, Counting, At
  <2> QED
    BY <2>1, <2>2, FS_EmptySet, Threaded DEF Most
<1> QED
  BY <1>1, <1>2 DEF UsesInv

\* No thread comes to count, and nothing is counted.
LEMMA UsesStay ==
    ASSUME UsesInv, NEW t \in Threads, NEW l, NEW f, Moved(t, l, f), l # "count",
           UNCHANGED <<daily, freeUses, today, preview>>
    PROVE  UsesInv'
<1>1. Uses'
  BY DEF UsesInv, Uses
<1>2. ASSUME NEW u \in Ids PROVE freeUses'[u][today'] + Cardinality(Counting(u)') < Most
  <2>1. Counting(u)' \subseteq Counting(u) /\ Counting(u) \subseteq Threads
    BY DEF Moved, Counting, At
  <2>2. IsFiniteSet(Counting(u))
    BY <2>1, PoolAssumption, FS_Subset
  <2>3. Cardinality(Counting(u)') <= Cardinality(Counting(u))
    BY <2>1, <2>2, FS_Subset
  <2>4. freeUses[u][today] \in Nat
    BY DEF UsesInv, Uses
  <2>5. Cardinality(Counting(u)') \in Nat /\ Cardinality(Counting(u)) \in Nat /\ Most \in Nat
    BY <2>1, Threaded
  <2> QED
    BY <2>3, <2>4, <2>5 DEF UsesInv
<1> QED
  BY <1>1, <1>2 DEF UsesInv, Most

\* A request that has passed the check saw fewer uses than the limit.
LEMMA PassedCheck ==
    ASSUME AccountsInv, UsesInv, NEW t \in Threads, ReadUsage(t)
    PROVE  UsesInv'
<1>1. UNCHANGED <<daily, freeUses, today, preview>>
  BY DEF ReadUsage, membershipVars, entitled
<1>2. CASE Done(t)
  <2>1. Moved(t, "idle", NoFrame)
    BY <1>2, Ends DEF AccountsInv, Requests
  <2> QED
    BY <1>1, <2>1, UsesStay
<1>3. CASE ~Done(t)
  <2> DEFINE v == frame[t].user
  <2>1. ~OverLimit(frame[t].limit, daily[v][today]) /\ Go(t, "count", frame[t])
    BY <1>3 DEF ReadUsage
  <2>2. Moved(t, "count", frame[t]) /\ frame[t] \in Counters
    BY <2>1, Moves DEF ReadUsage, AccountsInv, Requests, Fits, At
  <2>3. Uses'
    BY <1>1 DEF UsesInv, Uses
  <2>4. ASSUME NEW u \in Ids PROVE freeUses'[u][today'] + Cardinality(Counting(u)') < Most
    <3>1. freeUses[u][today] \in Nat /\ daily[u][today] \in Nat
      BY DEF UsesInv, Uses
    <3>2. Counting(u)' \subseteq Threads /\ Counting(u) \subseteq Threads
      BY DEF Counting
    <3>3. CASE u = v /\ frame[t].limit # Unlimited
      <4>1. preview \/ daily[u][today] < AnalysisPerDay
        BY <2>1, <2>2, <3>1, <3>3, Threaded DEF OverLimit, Counters
      <4>2. freeUses[u][today] < AnalysisPerDay
        BY <3>1, <4>1, Threaded DEF UsesInv, Uses
      <4> QED
        BY <1>1, <3>1, <3>2, <4>2, Threaded DEF Most
    <3>4. CASE ~(u = v /\ frame[t].limit # Unlimited)
      <4>1. Counting(u)' \subseteq Counting(u)
        BY <2>2, <3>4 DEF Moved, Counting, At
      <4>2. IsFiniteSet(Counting(u))
        BY <3>2, PoolAssumption, FS_Subset
      <4>3. Cardinality(Counting(u)') <= Cardinality(Counting(u))
        BY <4>1, <4>2, FS_Subset
      <4>4. Cardinality(Counting(u)') \in Nat /\ Cardinality(Counting(u)) \in Nat /\ Most \in Nat
        BY <3>2, Threaded
      <4> QED
        BY <1>1, <3>1, <4>3, <4>4 DEF UsesInv
    <3> QED
      BY <3>3, <3>4
  <2> QED
    BY <2>3, <2>4 DEF UsesInv, Most
<1> QED
  BY <1>2, <1>3

\* A use that is counted is one request less that is about to count.
LEMMA Counted ==
    ASSUME AccountsInv, UsesInv, NEW t \in Threads, CountUse(t)
    PROVE  UsesInv'
<1> DEFINE v == frame[t].user
           free == ~preview /\ frame[t].limit # Unlimited
<1>1. frame[t] \in Counters /\ v \in Ids /\ today \in Days
  BY DEF CountUse, AccountsInv, Requests, Fits, At, Counters, UsesInv, Uses
<1>2. UNCHANGED <<today, preview>> /\ Moved(t, "idle", NoFrame)
  BY Ends DEF CountUse, AccountsInv, Requests
<1>3. /\ daily' \in [Ids -> [Days -> Nat]] /\ freeUses' \in [Ids -> [Days -> Nat]]
      /\ \A u \in Ids, d \in Days :
           IF u = v /\ d = today
           THEN daily'[u][d] = daily[u][d] + 1 /\ freeUses'[u][d] = freeUses[u][d] + (IF free THEN 1 ELSE 0)
           ELSE daily'[u][d] = daily[u][d] /\ freeUses'[u][d] = freeUses[u][d]
  BY <1>1 DEF CountUse, UsesInv, Uses
<1> HIDE DEF free
<1>4. ASSUME NEW u \in Ids PROVE freeUses'[u][today] + Cardinality(Counting(u)') < Most
  <2>1. Counting(u)' \subseteq Counting(u) /\ Counting(u) \subseteq Threads /\ t \notin Counting(u)'
    BY <1>2 DEF Moved, Counting, At
  <2>2. IsFiniteSet(Counting(u)) /\ IsFiniteSet(Counting(u) \ {t})
    BY <2>1, PoolAssumption, FS_Subset
  <2>3. Cardinality(Counting(u)') <= Cardinality(Counting(u))
    BY <2>1, <2>2, FS_Subset
  <2>4. t \in Counting(u) => Cardinality(Counting(u)') <= Cardinality(Counting(u)) - 1
    <3>1. Cardinality(Counting(u)') <= Cardinality(Counting(u) \ {t})
      BY <2>1, <2>2, FS_Subset
    <3> QED
      BY <2>2, <3>1, FS_RemoveElement
  <2>5. u = v /\ free => t \in Counting(u)
    BY DEF CountUse, Counting, free
  <2>6. /\ Cardinality(Counting(u)') \in Nat /\ Cardinality(Counting(u)) \in Nat /\ Most \in Nat
        /\ freeUses[u][today] \in Nat
    BY <1>1, <2>1, Threaded DEF UsesInv, Uses
  <2> QED
    BY <1>1, <1>3, <2>3, <2>4, <2>5, <2>6 DEF UsesInv
<1>5. ASSUME NEW u \in Ids, NEW d \in Days
      PROVE  /\ freeUses'[u][d] <= daily'[u][d] /\ freeUses'[u][d] < Most
             /\ d > today => daily'[u][d] = 0
             /\ preview => freeUses'[u][d] = 0
  <2>1. /\ freeUses[u][d] \in Nat /\ daily[u][d] \in Nat /\ freeUses'[u][d] \in Nat
        /\ freeUses[u][d] <= daily[u][d] /\ freeUses[u][d] < Most
        /\ d > today => daily[u][d] = 0
        /\ preview => freeUses[u][d] = 0 /\ ~free
    BY <1>1, <1>3 DEF UsesInv, Uses, free
  <2>2. today \in Int /\ d \in Int
    BY <1>1, MembershipAssumption DEF Days
  <2>3. d = today => freeUses'[u][d] < Most
    <3>1. Cardinality(Counting(u)') \in Nat /\ Most \in Nat
      BY Threaded DEF Counting
    <3> QED
      BY <1>4, <2>1, <3>1
  <2> QED
    BY <1>3, <2>1, <2>2, <2>3
<1> QED
  BY <1>1, <1>2, <1>3, <1>4, <1>5 DEF UsesInv, Uses, Most

LEMMA UsesStep == AccountsInv /\ UsesInv /\ MembershipNext => UsesInv'
<1> SUFFICES ASSUME AccountsInv, UsesInv, MembershipNext PROVE UsesInv'
  OBVIOUS
<1>1. CASE NextDay
  <2>1. /\ today \in Nat /\ MaxDay \in Nat /\ today' = today + 1 /\ today' \in Days
        /\ UNCHANGED <<pc, frame, daily, freeUses, preview>>
    BY <1>1, MembershipAssumption DEF NextDay, pool, entitled, UsesInv, Uses, Days
  <2>2. Uses'
    BY <2>1 DEF UsesInv, Uses, Days, Most
  <2>3. ASSUME NEW u \in Ids PROVE freeUses'[u][today'] + Cardinality(Counting(u)') < Most
    <3>1. freeUses[u][today'] = 0
      <4>1. daily[u][today'] = 0 /\ freeUses[u][today'] <= daily[u][today'] /\ freeUses[u][today'] \in Nat
        BY <2>1 DEF UsesInv, Uses
      <4> QED
        BY <4>1
    <3>2. Counting(u)' \subseteq Threads
      BY DEF Counting
    <3> QED
      BY <2>1, <3>1, <3>2, Threaded DEF Most
  <2> QED
    BY <2>2, <2>3 DEF UsesInv, Most
<1>2. ASSUME NEW t \in Threads,
             \/ StartRegister(t) \/ StartLogin(t) \/ StartSocial(t)
             \/ LookupSubject(t) \/ LookupEmail(t) \/ Create(t)
      PROVE  UsesInv'
  <2>1. UNCHANGED <<daily, freeUses, today, preview>>
    BY <1>2 DEF StartRegister, StartLogin, StartSocial, LookupSubject, LookupEmail, Create,
                membershipVars, entitled
  <2> QED
    BY <1>2, <2>1, AuthGoes, UsesStay
<1>3. ASSUME NEW t \in Threads, StartMe(t) \/ StartUpgrade(t) \/ StartAnalysis(t) \/ StartFeature(t)
      PROVE  UsesInv'
  <2>1. UNCHANGED <<daily, freeUses, today, preview>>
    BY <1>3 DEF StartMe, StartUpgrade, StartAnalysis, StartFeature, StartTier, membershipVars, entitled
  <2> QED
    BY <1>3, <2>1, StartAsks, UsesStay
<1>4. ASSUME NEW t \in Threads, EnsureRead(t) \/ EnsureWrite(t) \/ SetTier(t)
      PROVE  UsesInv'
  <2>1. UNCHANGED <<daily, freeUses, today, preview>>
    BY <1>4 DEF EnsureRead, EnsureWrite, SetTier
  <2>2. \E l, f : Moved(t, l, f) /\ l # "count"
    <3>1. ~At(t, "used")
      BY <1>4 DEF EnsureRead, EnsureWrite, SetTier, At
    <3> QED
      BY <1>4, <3>1, SubscriptionGoes
  <2> QED
    BY <2>1, <2>2, UsesStay
<1> QED
  BY <1>1, <1>2, <1>3, <1>4, PassedCheck, Counted DEF MembershipNext

-----------------------------------------------------------------------------
(* Tables in the order of their ids. *)

Ordered(s) == Len(s) \in Nat /\ s = [i \in 1..Len(s) |-> s[i]]

\* An appended row is the last one, and the others stay where they are.
LEMMA OneMore ==
    ASSUME NEW s, Ordered(s), NEW e
    PROVE  /\ Ordered(Append(s, e)) /\ Len(Append(s, e)) = Len(s) + 1
           /\ \A i \in 1..Len(s) : Append(s, e)[i] = s[i]
           /\ Append(s, e)[Len(s) + 1] = e
<1> DEFINE S == {s[i] : i \in 1..Len(s)} \cup {e}
<1>1. s \in Seq(S)
  <2>1. s \in [1..Len(s) -> S]
    BY DEF Ordered
  <2> HIDE DEF S
  <2> QED
    BY <2>1, SeqDef DEF Ordered
<1>2. e \in S
  OBVIOUS
<1> HIDE DEF S
<1>3. Append(s, e) \in Seq(S)
  BY <1>1, <1>2, AppendProperties
<1>4. Append(s, e) \in [1..Len(Append(s, e)) -> S] /\ Len(Append(s, e)) \in Nat
  BY <1>3, LenProperties
<1>5. Len(Append(s, e)) = Len(s) + 1 /\ Append(s, e)[Len(s) + 1] = e
      /\ \A i \in 1..Len(s) : Append(s, e)[i] = s[i]
  BY <1>1, <1>2, AppendProperties
<1> QED
  BY <1>4, <1>5 DEF Ordered

-----------------------------------------------------------------------------
(* The auto watchlist.  The requests that have applied a symbol, and those   *)
(* that hold it in hand, are no more than the threads: only a request that   *)
(* found no row of the symbol takes it in hand.                              *)

Applying(f) ==
    /\ f = [op |-> "apply", todo |-> f.todo, request |-> f.request]
    /\ f.todo \in Seq(Keys) /\ f.todo # <<>>
Suggestions == Pool /\ \A t \in Threads : At(t, "apply") => Applying(frame[t])

Applied(k) == {applied[i].request : i \in {j \in DOMAIN applied : applied[j].key = k}}
Waiting(k) == {t \in Threads : At(t, "apply") /\ \E i \in 1..Len(frame[t].todo) : frame[t].todo[i] = k}
Asking(k) == {frame[t].request : t \in Waiting(k)}
Few(S) == IsFiniteSet(S) /\ Cardinality(S) <= Cardinality(Threads)

WatchlistInv ==
    /\ Suggestions
    /\ Ordered(applied)
    /\ \A k \in Keys : Few(Applied(k) \cup Asking(k))

\* What is held by threads is no more than the threads are.
LEMMA FewAre ==
    ASSUME NEW T \in SUBSET Threads, NEW f
    PROVE  Few({f[t] : t \in T})
<1> DEFINE S == {f[t] : t \in T}
           g == [t \in T |-> f[t]]
<1>1. g \in Surjection(T, S)
  BY DEF Surjection
<1>2. IsFiniteSet(T) /\ Cardinality(T) <= Cardinality(Threads)
  BY PoolAssumption, FS_Subset
<1> HIDE DEF g, S
<1>3. IsFiniteSet(S) /\ Cardinality(S) <= Cardinality(T)
  BY <1>1, <1>2, FS_Surjection
<1>4. Cardinality(S) \in Nat /\ Cardinality(T) \in Nat /\ Cardinality(Threads) \in Nat
  BY <1>2, <1>3, PoolAssumption, FS_CardinalityType
<1> QED
  BY <1>2, <1>3, <1>4 DEF Few, S

\* So for a key no more requests ask than there are threads.
LEMMA AskingAreFew == \A k \in Keys : Few(Asking(k))
<1> SUFFICES ASSUME NEW k \in Keys PROVE Few(Asking(k))
  OBVIOUS
<1> DEFINE f == [t \in Threads |-> frame[t].request]
<1>1. Waiting(k) \in SUBSET Threads
  BY DEF Waiting
<1>2. Asking(k) = {f[t] : t \in Waiting(k)}
  BY <1>1 DEF Asking
<1> HIDE DEF f
<1> QED
  BY <1>1, <1>2, FewAre

\* And a part of few is few.
LEMMA FewerAre ==
    ASSUME NEW S, NEW T, Few(S), T \subseteq S
    PROVE  Few(T)
<1>1. IsFiniteSet(T) /\ Cardinality(T) <= Cardinality(S) /\ IsFiniteSet(S)
  BY FS_Subset DEF Few
<1>2. Cardinality(S) \in Nat /\ Cardinality(T) \in Nat /\ Cardinality(Threads) \in Nat
  BY <1>1, PoolAssumption, FS_CardinalityType
<1> QED
  BY <1>1, <1>2 DEF Few

LEMMA WatchlistBegins == PoolInit /\ WatchlistInit => WatchlistInv
<1> SUFFICES ASSUME PoolInit, WatchlistInit PROVE WatchlistInv
  OBVIOUS
<1>1. Suggestions /\ Ordered(applied)
  BY EmptySeq DEF PoolInit, WatchlistInit, Suggestions, Pool, At, Ordered
<1>2. ASSUME NEW k \in Keys PROVE Few(Applied(k) \cup Asking(k))
  <2>1. Applied(k) = {}
    BY DEF WatchlistInit, Applied
  <2> QED
    BY <2>1, AskingAreFew
<1> QED
  BY <1>1, <1>2 DEF WatchlistInv

\* No thread takes a symbol in hand, and nothing is applied.
LEMMA WatchlistStays ==
    ASSUME WatchlistInv, NEW t \in Threads, NEW l, NEW f, Moved(t, l, f), l # "apply",
           UNCHANGED applied
    PROVE  WatchlistInv'
<1>1. Suggestions'
  BY DEF WatchlistInv, Suggestions, Moved, At
<1>2. ASSUME NEW k \in Keys PROVE Few(Applied(k)' \cup Asking(k)')
  <2>1. Waiting(k)' \subseteq Waiting(k) /\ \A u \in Waiting(k)' : frame'[u] = frame[u]
    BY DEF Moved, Waiting, At
  <2>2. Applied(k)' = Applied(k) /\ Asking(k)' \subseteq Asking(k)
    BY <2>1 DEF Applied, Asking
  <2> QED
    BY <2>2, FewerAre DEF WatchlistInv
<1> QED
  BY <1>1, <1>2 DEF WatchlistInv, Ordered, Few, Keys, Key

LEMMA ReadAppliedKeeps ==
    ASSUME WatchlistInv, NEW t \in Threads, ReadApplied(t)
    PROVE  WatchlistInv'
<1> DEFINE done == {applied[i].key : i \in DOMAIN applied}
<1>1. applied' = applied
  BY DEF ReadApplied, watchlistVars
<1>2. PICK picks, wanted :
        /\ picks \subseteq Keys /\ picks \cap done = {}
        /\ wanted \in BoundedSeq(picks, MaxItems)
        /\ IF wanted = <<>> THEN Done(t)
           ELSE Go(t, "apply", [op |-> "apply", todo |-> wanted, request |-> frame[t].request])
  BY DEF ReadApplied, Suggestible, Best, Keys
<1>3. CASE wanted = <<>>
  <2>1. Moved(t, "idle", NoFrame)
    BY <1>2, <1>3, Ends DEF WatchlistInv, Suggestions
  <2> QED
    BY <1>1, <2>1, WatchlistStays
<1>4. CASE wanted # <<>>
  <2> DEFINE f == [op |-> "apply", todo |-> wanted, request |-> frame[t].request]
  <2>1. wanted \in Seq(picks) /\ wanted \in Seq(Keys)
    <3>1. \E m \in 0..MaxItems : wanted \in [1..m -> picks]
      BY <1>2 DEF BoundedSeq, SeqOf
    <3>2. MaxItems \in Nat
      BY WatchlistAssumption
    <3>3. wanted \in Seq(picks)
      BY <3>1, <3>2, SeqDef
    <3> QED
      BY <1>2, <3>3, SeqMonotonic
  <2>2. Applying(f)
    BY <1>4, <2>1 DEF Applying
  <2>3. f.todo = wanted
    OBVIOUS
  <2>4. Moved(t, "apply", f)
    BY <1>2, <1>4, Moves DEF WatchlistInv, Suggestions
  <2> HIDE DEF f
  <2>5. Suggestions'
    BY <2>2, <2>4 DEF WatchlistInv, Suggestions, Moved, At, Applying, Keys, Key
  <2>6. ASSUME NEW k \in Keys PROVE Few(Applied(k)' \cup Asking(k)')
    <3>1. Applied(k)' = Applied(k)
      BY <1>1 DEF Applied
    <3>2. CASE k \in picks
      <4>1. Applied(k) = {}
        BY <1>2, <3>2 DEF Applied
      <4>2. Few(Asking(k)')
        <5> DEFINE g == [u \in Threads |-> frame'[u].request]
        <5>1. Waiting(k)' \in SUBSET Threads
          BY DEF Waiting
        <5>2. Asking(k)' = {g[u] : u \in Waiting(k)'}
          BY <5>1 DEF Asking
        <5> HIDE DEF g
        <5> QED
          BY <5>1, <5>2, FewAre
      <4> QED
        BY <3>1, <4>1, <4>2
    <3>3. CASE k \notin picks
      <4>1. \A i \in 1..Len(wanted) : wanted[i] \in picks
        BY <2>1, ElementOfSeq
      <4>2. Waiting(k)' \subseteq Waiting(k) /\ \A u \in Waiting(k)' : frame'[u] = frame[u]
        BY <2>3, <2>4, <3>3, <4>1 DEF Moved, Waiting, At
      <4>3. Asking(k)' \subseteq Asking(k)
        BY <4>2 DEF Asking
      <4> QED
        BY <3>1, <4>3, FewerAre DEF WatchlistInv
    <3> QED
      BY <3>2, <3>3
  <2> QED
    BY <1>1, <2>5, <2>6 DEF WatchlistInv, Ordered, Few, Keys, Key
<1> QED
  BY <1>3, <1>4

LEMMA ApplyOneKeeps ==
    ASSUME WatchlistInv, NEW t \in Threads, ApplyOne(t)
    PROVE  WatchlistInv'
<1> DEFINE f == frame[t]
           g == [f EXCEPT !.todo = Tail(f.todo)]
           row == [key |-> Head(f.todo), request |-> f.request]
           n == Len(applied)
<1>1. At(t, "apply") /\ Applying(f)
  BY DEF ApplyOne, WatchlistInv, Suggestions
<1>2. /\ Head(f.todo) = f.todo[1] /\ Len(f.todo) \in Nat \ {0} /\ Tail(f.todo) \in Seq(Keys)
      /\ Len(Tail(f.todo)) = Len(f.todo) - 1
      /\ \A i \in 1..Len(Tail(f.todo)) : Tail(f.todo)[i] = f.todo[i + 1]
  BY <1>1, EmptySeq, HeadTailProperties DEF Applying
<1>3. applied' = Append(applied, row) /\ row.key = f.todo[1] /\ row.request = f.request
  BY <1>2 DEF ApplyOne
<1>4. g = [op |-> "apply", todo |-> Tail(f.todo), request |-> f.request]
  BY <1>1 DEF Applying
<1>5. \/ Moved(t, "idle", NoFrame)
      \/ Moved(t, "apply", g) /\ Tail(f.todo) # <<>>
  <2>1. CASE Len(f.todo) = 1
    BY <2>1, Ends DEF ApplyOne, WatchlistInv, Suggestions
  <2>2. CASE Len(f.todo) # 1
    <3>1. Go(t, "apply", g)
      BY <2>2 DEF ApplyOne
    <3>2. Len(Tail(f.todo)) # 0 /\ Len(<<>>) = 0
      BY <1>2, <2>2
    <3> QED
      BY <3>1, <3>2, Moves DEF WatchlistInv, Suggestions
  <2> QED
    BY <2>1, <2>2
<1>6. g.todo = Tail(f.todo) /\ g.request = f.request /\ (Tail(f.todo) # <<>> => Applying(g))
  BY <1>2, <1>4 DEF Applying
<1> HIDE DEF g, row
<1>7. Suggestions'
  BY <1>5, <1>6 DEF WatchlistInv, Suggestions, Moved, At, Applying, Keys, Key
<1>8. /\ Ordered(applied') /\ Len(applied') = n + 1 /\ n \in Nat
      /\ \A i \in 1..n : applied'[i] = applied[i]
      /\ applied'[n + 1] = row
  BY <1>3, OneMore DEF WatchlistInv, Ordered
<1>9. DOMAIN applied = 1..n /\ DOMAIN applied' = 1..(n + 1)
  BY <1>8 DEF WatchlistInv, Ordered
<1>10. ASSUME NEW k \in Keys PROVE Few(Applied(k)' \cup Asking(k)')
  <2>1. Asking(k)' \subseteq Asking(k)
    <3>1. ASSUME NEW u \in Waiting(k)' PROVE u \in Waiting(k) /\ frame'[u].request = frame[u].request
      <4>1. CASE u # t
        BY <1>5, <3>1, <4>1 DEF Moved, Waiting, At
      <4>2. CASE u = t
        <5>1. frame'[t] = g /\ At(t, "apply")
          BY <1>1, <1>5, <3>1, <4>2 DEF Moved, Waiting, At
        <5>2. PICK i \in 1..Len(Tail(f.todo)) : f.todo[i + 1] = k
          BY <1>2, <1>6, <3>1, <4>2, <5>1 DEF Waiting
        <5>3. i + 1 \in 1..Len(f.todo)
          BY <1>2
        <5> QED
          BY <1>6, <4>2, <5>1, <5>2, <5>3 DEF Waiting
      <4> QED
        BY <4>1, <4>2
    <3> QED
      BY <3>1 DEF Asking
  <2>2. k = row.key => row.request \in Asking(k)
    <3>1. 1 \in 1..Len(f.todo)
      BY <1>2
    <3> QED
      BY <1>1, <1>3, <3>1 DEF Asking, Waiting
  <2>3. Applied(k)' \subseteq Applied(k) \cup (IF k = row.key THEN {row.request} ELSE {})
    BY <1>8, <1>9 DEF Applied
  <2> QED
    BY <2>1, <2>2, <2>3, FewerAre DEF WatchlistInv
<1> QED
  BY <1>7, <1>8, <1>10 DEF WatchlistInv, Ordered, Few, Keys, Key

\* Only the threads and the applied rows matter.
LEMMA WatchlistSame == WatchlistInv /\ UNCHANGED <<pc, frame, applied>> => WatchlistInv'
<1> SUFFICES ASSUME WatchlistInv, UNCHANGED <<pc, frame, applied>> PROVE WatchlistInv'
  OBVIOUS
<1>1. Suggestions' /\ Ordered(applied)'
  BY DEF WatchlistInv, Suggestions, Pool, At, Ordered, Applying, Keys, Key
<1>2. ASSUME NEW k \in Keys PROVE Few(Applied(k) \cup Asking(k))'
  <2>1. Applied(k)' = Applied(k)
    BY DEF Applied
  <2>2. Waiting(k)' = Waiting(k)
    BY DEF Waiting, At
  <2>3. Asking(k)' = Asking(k)
    BY <2>2 DEF Asking
  <2> QED
    BY <2>1, <2>3 DEF WatchlistInv, Few
<1> QED
  BY <1>1, <1>2 DEF WatchlistInv, Keys, Key

LEMMA WatchlistSteps == WatchlistInv /\ WatchlistNext => WatchlistInv'
<1> SUFFICES ASSUME WatchlistInv, WatchlistNext PROVE WatchlistInv'
  OBVIOUS
<1>1. CASE PositionChanges
  BY <1>1, WatchlistSame DEF PositionChanges, pool
<1>2. ASSUME NEW t \in Threads, SaveSettings(t) \/ StartSuggest(t) \/ ReadSettings(t) \/ ReadOwned(t)
      PROVE  WatchlistInv'
  <2>1. applied' = applied
    BY <1>2 DEF SaveSettings, StartSuggest, ReadSettings, ReadOwned, watchlistVars
  <2>2. \E l, f : l # "apply" /\ (Begin(t, l, f) \/ Go(t, l, f))
    BY <1>2, Zenon DEF SaveSettings, StartSuggest, ReadSettings, ReadOwned, Done
  <2>3. \E l, f : l # "apply" /\ Moved(t, l, f)
    BY <2>2, Moves DEF WatchlistInv, Suggestions
  <2> QED
    BY <2>1, <2>3, WatchlistStays
<1> QED
  BY <1>1, <1>2, ReadAppliedKeeps, ApplyOneKeeps DEF WatchlistNext

LEMMA WatchlistImplies == WatchlistInv => DuplicatesAreInFlight
<1> SUFFICES ASSUME WatchlistInv, NEW k \in Keys
    PROVE Cardinality(Applied(k)) <= Cardinality(Threads)
  BY DEF DuplicatesAreInFlight, Applied
<1> QED
  BY FewerAre DEF WatchlistInv, Few

-----------------------------------------------------------------------------
(* The notification feed.  What the process remembers is what the last       *)
(* answers said, so the request that hears of a change takes it in hand.     *)

Listing(f) ==
    /\ f = [op |-> "list", user |-> f.user, day |-> f.day, phase |-> f.phase, todo |-> f.todo]
    /\ f.user \in Readers /\ f.phase \in 1..Len(Phases)

\* The locals f that a request of the feed may have at l.
Lists(l, f) ==
    /\ l \in {"signal", "add"} => Listing(f)
    /\ l = "mark" => f.user \in Readers
FeedRequests == Pool /\ \A t \in Threads : Lists(pc[t], frame[t])

\* The locals that Listing describes, with other columns.
LEMMA ListingWith ==
    ASSUME NEW f, Listing(f), NEW p, NEW keys
    PROVE  /\ [f EXCEPT !.phase = p, !.todo = keys]
                = [op |-> "list", user |-> f.user, day |-> f.day, phase |-> p, todo |-> keys]
           /\ [f EXCEPT !.todo = keys]
                = [op |-> "list", user |-> f.user, day |-> f.day, phase |-> f.phase, todo |-> keys]
<1>1. PICK u, d, n, k : f = [op |-> "list", user |-> u, day |-> d, phase |-> n, todo |-> k]
  BY Zenon DEF Listing
<1>2. f.user = u /\ f.day = d /\ f.phase = n
  BY <1>1
<1>3. [f EXCEPT !.todo = keys] = [op |-> "list", user |-> u, day |-> d, phase |-> n, todo |-> keys]
  BY <1>1
<1>4. [f EXCEPT !.phase = p, !.todo = keys] = [op |-> "list", user |-> u, day |-> d, phase |-> p, todo |-> keys]
  <2>1. [f EXCEPT !.phase = p] = [op |-> "list", user |-> u, day |-> d, phase |-> p, todo |-> k]
    BY <1>1
  <2>2. [f EXCEPT !.phase = p, !.todo = keys] = [[f EXCEPT !.phase = p] EXCEPT !.todo = keys]
    BY Zenon
  <2>3. ASSUME NEW g, g = [op |-> "list", user |-> u, day |-> d, phase |-> p, todo |-> k]
        PROVE  [g EXCEPT !.todo = keys] = [op |-> "list", user |-> u, day |-> d, phase |-> p, todo |-> keys]
    BY <2>3
  <2> QED
    BY <2>1, <2>2, <2>3, Zenon
<1> QED
  BY <1>2, <1>3, <1>4

Inboxes ==
    /\ inbox = [u \in Readers |-> inbox[u]]
    /\ \A u \in Readers :
         /\ Ordered(inbox[u])
         /\ \A i \in 1..Len(inbox[u]) : inbox[u][i] = [key |-> inbox[u][i].key, read |-> inbox[u][i].read]

Remembers ==
    /\ heard = [health |-> lastHealth, best |-> lastBest]
    /\ lastHealth = [u \in Readers |-> lastHealth[u]]

Arrived(key) == \E u \in Readers : Holds(u, key)
FeedInv == FeedRequests /\ Inboxes /\ Remembers /\ ChangesReachAnInbox

LEMMA FeedBegins == PoolInit /\ FeedInit => FeedInv
<1> SUFFICES ASSUME PoolInit, FeedInit PROVE FeedInv
  OBVIOUS
<1>1. FeedRequests
  BY DEF PoolInit, FeedRequests, Pool, Lists
<1>2. Ordered(<<>>) /\ 1..Len(<<>>) = {}
  BY DEF Ordered
<1>3. Inboxes
  BY <1>2 DEF FeedInit, Inboxes
<1>4. Remembers /\ ChangesReachAnInbox
  BY DEF FeedInit, Remembers, ChangesReachAnInbox
<1> QED
  BY <1>1, <1>3, <1>4 DEF FeedInv

LEMMA FeedRequestsStay ==
    ASSUME FeedRequests, NEW t \in Threads, NEW l, NEW f, Moved(t, l, f), Lists(l, f)
    PROVE  FeedRequests'
BY DEF FeedRequests, Moved, Lists, Listing, Phases

\* A notification in an inbox stays there, and only the thread that moves may let
\* go of the keys it has in hand.
LEMMA FlightStays ==
    ASSUME NEW t \in Threads, NEW l, NEW f, Moved(t, l, f), NEW key, InFlight(key),
           At(t, "add") => ~(frame[t].op = "list" /\ key \in frame[t].todo)
    PROVE  InFlight(key)'
BY DEF InFlight, Moved, At

\* A request that goes through the signals adds nothing between two of them.
LEMMA NextSignalGoes ==
    ASSUME FeedRequests, NEW t \in Threads, Listing(frame[t]), NextSignal(t, frame[t])
    PROVE  \E l, f : Moved(t, l, f) /\ Lists(l, f) /\ l # "add"
<1> DEFINE f == [frame[t] EXCEPT !.phase = @ + 1, !.todo = {}]
<1>1. CASE frame[t].phase < Len(Phases)
  <2>1. Moved(t, "signal", f)
    BY <1>1, Moves DEF NextSignal, FeedRequests
  <2>2. f = [op |-> "list", user |-> frame[t].user, day |-> frame[t].day, phase |-> frame[t].phase + 1, todo |-> {}]
    BY ListingWith
  <2>3. Listing(f)
    BY <1>1, <2>2 DEF Listing, Phases
  <2> HIDE DEF f
  <2> QED
    BY <2>1, <2>3 DEF Lists
<1>2. CASE ~(frame[t].phase < Len(Phases))
  BY <1>2, Ends DEF NextSignal, FeedRequests, Lists
<1> QED
  BY <1>1, <1>2

\* A signal's answer is taken in hand as a whole.
LEMMA AnsweredGoes ==
    ASSUME FeedRequests, NEW t \in Threads, Listing(frame[t]), NEW keys, Answered(t, keys)
    PROVE  \/ keys = {} /\ \E l, f : Moved(t, l, f) /\ Lists(l, f) /\ l # "add"
           \/ \E f : Moved(t, "add", f) /\ Lists("add", f) /\ f.todo = keys
<1> DEFINE f == [frame[t] EXCEPT !.todo = keys]
<1>1. CASE keys = {}
  BY <1>1, NextSignalGoes DEF Answered
<1>2. CASE keys # {}
  <2>1. Moved(t, "add", f)
    BY <1>2, Moves DEF Answered, FeedRequests
  <2>2. f = [op |-> "list", user |-> frame[t].user, day |-> frame[t].day, phase |-> frame[t].phase, todo |-> keys]
    BY DEF Listing
  <2>3. Listing(f) /\ f.todo = keys
    BY <2>2 DEF Listing
  <2> HIDE DEF f
  <2> QED
    BY <2>1, <2>3 DEF Lists
<1> QED
  BY <1>1, <1>2

\* A request that asks a signal, whatever it was told: the keys newly owed are
\* those it takes in hand.
LEMMA AskKeeps ==
    ASSUME FeedInv, NEW t \in Threads, At(t, "signal"), NEW keys, Answered(t, keys),
           Remembers', UNCHANGED inbox, owed' \subseteq owed \cup keys
    PROVE  FeedInv'
<1>1. FeedRequests /\ Listing(frame[t]) /\ pc[t] = "signal"
  BY DEF FeedInv, FeedRequests, Lists, At
<1>2. PICK l, f : /\ Moved(t, l, f) /\ Lists(l, f)
                  /\ keys = {} \/ (l = "add" /\ f.todo = keys)
  BY <1>1, AnsweredGoes
<1>3. FeedRequests' /\ Inboxes'
  BY <1>1, <1>2, FeedRequestsStay DEF FeedInv, Inboxes, Ordered
<1>4. ASSUME NEW key \in owed' PROVE InFlight(key)' \/ Arrived(key)'
  <2>1. CASE key \in keys
    BY <1>2, <2>1 DEF InFlight, Moved, At, Lists, Listing
  <2>2. CASE key \in owed
    <3>1. CASE InFlight(key)
      BY <1>1, <1>2, <3>1, FlightStays DEF At
    <3>2. CASE Arrived(key)
      BY <3>2 DEF Arrived, Holds
    <3> QED
      BY <2>2, <3>1, <3>2 DEF FeedInv, ChangesReachAnInbox, Arrived
  <2> QED
    BY <2>1, <2>2
<1> QED
  BY <1>3, <1>4 DEF FeedInv, ChangesReachAnInbox, Arrived

LEMMA AskHealthKeepsInv ==
    ASSUME FeedInv, NEW t \in Threads, AskHealth(t)
    PROVE  FeedInv'
<1> DEFINE u == frame[t].user
<1>1. At(t, "signal") /\ inbox' = inbox /\ lastBest' = lastBest /\ u \in Readers
  BY DEF AskHealth, FeedInv, FeedRequests, Lists, Listing, At
<1>2. CASE Answered(t, {}) /\ UNCHANGED <<lastHealth, heard, owed>>
  <2>1. Remembers'
    BY <1>1, <1>2 DEF FeedInv, Remembers
  <2> QED
    BY <1>1, <1>2, <2>1, AskKeeps
<1>3. ASSUME NEW score \in Scores,
             lastHealth' = [lastHealth EXCEPT ![u] = score],
             Answered(t, IF Dropped(lastHealth[u], score)
                         THEN {DropKey(frame[t].day, lastHealth[u], score)} ELSE {}),
             heard' = [heard EXCEPT !.health[u] = score],
             owed' = IF Dropped(heard.health[u], score)
                     THEN owed \cup {DropKey(frame[t].day, heard.health[u], score)} ELSE owed
      PROVE  FeedInv'
  <2>1. heard.health = lastHealth
    BY DEF FeedInv, Remembers
  <2>2. heard' = [health |-> lastHealth', best |-> lastBest]
    BY <1>3 DEF FeedInv, Remembers
  <2>3. Remembers'
    BY <1>1, <1>3, <2>2 DEF FeedInv, Remembers
  <2> QED
    BY <1>1, <1>3, <2>1, <2>3, AskKeeps
<1> QED
  BY <1>2, <1>3 DEF AskHealth

LEMMA AskRotationKeeps ==
    ASSUME FeedInv, NEW t \in Threads, AskRotation(t)
    PROVE  FeedInv'
<1>1. At(t, "signal") /\ inbox' = inbox /\ lastHealth' = lastHealth
  BY DEF AskRotation
<1>2. CASE Answered(t, {}) /\ UNCHANGED <<lastBest, heard, owed>>
  <2>1. Remembers'
    BY <1>1, <1>2 DEF FeedInv, Remembers
  <2> QED
    BY <1>1, <1>2, <2>1, AskKeeps
<1>3. CASE ~(Answered(t, {}) /\ UNCHANGED <<lastBest, heard, owed>>)
  <2>1. PICK best \in Regions :
          LET changed == lastBest # "" /\ lastBest # best
              told == heard.best # "" /\ heard.best # best
          IN /\ lastBest' = best
             /\ Answered(t, {<<"best", frame[t].day, best>>}
                            \cup (IF changed THEN {ChangeKey(frame[t].day, lastBest, best)} ELSE {}))
             /\ heard' = [heard EXCEPT !.best = best]
             /\ owed' = IF told THEN owed \cup {ChangeKey(frame[t].day, heard.best, best)} ELSE owed
    BY <1>3 DEF AskRotation
  <2>2. heard.best = lastBest
    BY DEF FeedInv, Remembers
  <2>3. heard' = [health |-> lastHealth, best |-> lastBest']
    BY <2>1 DEF FeedInv, Remembers
  <2>4. Remembers'
    BY <1>1, <2>3 DEF FeedInv, Remembers
  <2> QED
    BY <1>1, <2>1, <2>2, <2>4, AskKeeps
<1> QED
  BY <1>2, <1>3

LEMMA AddKeeps ==
    ASSUME FeedInv, NEW t \in Threads, Add(t)
    PROVE  FeedInv'
<1>1. FeedRequests /\ Inboxes /\ Listing(frame[t]) /\ At(t, "add")
  BY DEF Add, FeedInv, FeedRequests, Lists, At
<1> PICK u \in Readers : u = frame[t].user
  BY <1>1 DEF Listing
<1>2. UNCHANGED <<lastHealth, lastBest, heard, owed>>
  BY DEF Add, seen
<1>3. PICK key \in frame[t].todo :
        /\ inbox' = IF Holds(u, key) THEN inbox
                    ELSE [inbox EXCEPT ![u] = Append(@, [key |-> key, read |-> FALSE])]
        /\ IF frame[t].todo = {key} THEN NextSignal(t, frame[t])
           ELSE Go(t, "add", [frame[t] EXCEPT !.todo = @ \ {key}])
  BY DEF Add
<1> DEFINE row == [key |-> key, read |-> FALSE]
<1>4. /\ Inboxes'
      /\ \A k : \A v \in Readers : Holds(v, k) => Holds(v, k)'
      /\ Holds(u, key)'
  <2>1. CASE Holds(u, key)
    <3>1. inbox' = inbox
      BY <1>3, <2>1
    <3>2. Inboxes' /\ \A k : \A v \in Readers : Holds(v, k)' <=> Holds(v, k)
      BY <1>1, <3>1 DEF Inboxes, Ordered, Holds
    <3> QED
      BY <1>1, <2>1, <3>2
  <2>2. CASE ~Holds(u, key)
    <3> DEFINE n == Len(inbox[u])
    <3>1. /\ Ordered(Append(inbox[u], row)) /\ Len(Append(inbox[u], row)) = n + 1 /\ n \in Nat
          /\ \A i \in 1..n : Append(inbox[u], row)[i] = inbox[u][i]
          /\ Append(inbox[u], row)[n + 1] = row
      BY <1>1, OneMore DEF Inboxes, Ordered
    <3>2. /\ inbox' = [v \in Readers |-> inbox'[v]] /\ inbox'[u] = Append(inbox[u], row)
          /\ \A v \in Readers : v # u => inbox'[v] = inbox[v]
      BY <1>1, <1>3, <2>2 DEF Inboxes
    <3>3. row = [key |-> row.key, read |-> row.read] /\ row.key = key
      OBVIOUS
    <3> HIDE DEF row
    <3>4. ASSUME NEW v \in Readers
          PROVE  /\ Ordered(inbox'[v])
                 /\ \A i \in 1..Len(inbox'[v]) : inbox'[v][i] = [key |-> inbox'[v][i].key, read |-> inbox'[v][i].read]
      <4>1. CASE v = u
        <5>1. ASSUME NEW i \in 1..(n + 1)
              PROVE  inbox'[u][i] = [key |-> inbox'[u][i].key, read |-> inbox'[u][i].read]
          <6>1. CASE i = n + 1
            BY <3>1, <3>2, <3>3, <6>1
          <6>2. CASE i # n + 1
            <7>1. i \in 1..n /\ inbox'[u][i] = inbox[u][i]
              BY <3>1, <3>2, <6>2
            <7> QED
              BY <1>1, <7>1 DEF Inboxes
          <6> QED
            BY <6>1, <6>2
        <5> QED
          BY <3>1, <3>2, <4>1, <5>1
      <4>2. CASE v # u
        BY <1>1, <3>2, <4>2 DEF Inboxes
      <4> QED
        BY <4>1, <4>2
    <3>5. Inboxes'
      BY <3>2, <3>4 DEF Inboxes, Ordered
    <3>6. DOMAIN inbox[u] = 1..n /\ DOMAIN inbox'[u] = 1..(n + 1)
      BY <1>1, <3>1, <3>2 DEF Inboxes, Ordered
    <3>7. ASSUME NEW v \in Readers, NEW k, Holds(v, k) PROVE Holds(v, k)'
      <4>1. PICK i \in DOMAIN inbox[v] : inbox[v][i].key = k
        BY <3>7 DEF Holds
      <4>2. i \in DOMAIN inbox'[v] /\ inbox'[v][i] = inbox[v][i]
        <5>1. CASE v = u
          BY <3>1, <3>2, <3>6, <4>1, <5>1
        <5>2. CASE v # u
          BY <3>2, <4>1, <5>2
        <5> QED
          BY <5>1, <5>2
      <4> QED
        BY <4>1, <4>2 DEF Holds
    <3>8. Holds(u, key)'
      <4>1. n + 1 \in DOMAIN inbox'[u] /\ inbox'[u][n + 1].key = key
        BY <3>1, <3>2, <3>3, <3>6
      <4> QED
        BY <4>1 DEF Holds
    <3> QED
      BY <3>5, <3>7, <3>8
  <2> QED
    BY <2>1, <2>2
<1>5. /\ FeedRequests'
      /\ \A k : InFlight(k) => k = key \/ InFlight(k)'
  <2>1. CASE frame[t].todo = {key}
    <3>1. PICK l, f : Moved(t, l, f) /\ Lists(l, f)
      BY <1>1, <1>3, <2>1, NextSignalGoes
    <3> QED
      BY <1>1, <2>1, <3>1, FeedRequestsStay, FlightStays
  <2>2. CASE frame[t].todo # {key}
    <3> DEFINE f == [frame[t] EXCEPT !.todo = @ \ {key}]
    <3>1. f = [op |-> "list", user |-> u, day |-> frame[t].day, phase |-> frame[t].phase, todo |-> frame[t].todo \ {key}]
      BY <1>1, ListingWith
    <3>2. Listing(f) /\ f.todo = frame[t].todo \ {key} /\ f.op = "list"
      BY <1>1, <3>1 DEF Listing
    <3>3. Moved(t, "add", f)
      BY <1>1, <1>3, <2>2, Moves DEF FeedRequests
    <3> HIDE DEF f
    <3>4. ASSUME NEW k, InFlight(k), k # key PROVE InFlight(k)'
      BY <3>2, <3>3, <3>4 DEF InFlight, Moved, At
    <3> QED
      BY <1>1, <3>2, <3>3, <3>4, FeedRequestsStay DEF Lists
  <2> QED
    BY <2>1, <2>2
<1>6. Remembers'
  BY <1>2 DEF FeedInv, Remembers
<1>7. ChangesReachAnInbox'
  <2>1. ASSUME NEW k \in owed PROVE InFlight(k)' \/ \E v \in Readers : Holds(v, k)'
    <3>1. InFlight(k) \/ \E v \in Readers : Holds(v, k)
      BY DEF FeedInv, ChangesReachAnInbox
    <3>2. CASE InFlight(k)
      BY <1>1, <1>4, <1>5, <3>2
    <3>3. CASE \E v \in Readers : Holds(v, k)
      BY <1>4, <3>3
    <3> QED
      BY <3>1, <3>2, <3>3
  <2> QED
    BY <1>2, <2>1 DEF ChangesReachAnInbox
<1> QED
  BY <1>4, <1>5, <1>6, <1>7 DEF FeedInv

LEMMA MarkKeeps ==
    ASSUME FeedInv, NEW t \in Threads, MarkRead(t)
    PROVE  FeedInv'
<1>1. FeedRequests /\ Inboxes /\ At(t, "mark") /\ frame[t].user \in Readers
  BY DEF MarkRead, FeedInv, FeedRequests, Lists, At
<1> PICK u \in Readers : u = frame[t].user
  BY <1>1
<1> PICK ids : inbox' = [inbox EXCEPT ![u] =
                 [i \in DOMAIN @ |-> IF i \in ids THEN [@[i] EXCEPT !.read = TRUE] ELSE @[i]]]
  BY DEF MarkRead
<1> DEFINE n == Len(inbox[u])
           marked == [i \in 1..n |-> IF i \in ids THEN [inbox[u][i] EXCEPT !.read = TRUE] ELSE inbox[u][i]]
<1>2. Done(t) /\ UNCHANGED <<lastHealth, lastBest, heard, owed>>
  BY DEF MarkRead, seen
<1>3. Moved(t, "idle", NoFrame) /\ Lists("idle", NoFrame)
  BY <1>1, <1>2, Ends DEF FeedRequests, Lists
<1>4. n \in Nat /\ DOMAIN inbox[u] = 1..n
  BY <1>1 DEF Inboxes, Ordered
<1>5. /\ inbox' = [v \in Readers |-> inbox'[v]] /\ inbox'[u] = marked
      /\ \A v \in Readers : v # u => inbox'[v] = inbox[v]
  BY <1>1, <1>4 DEF Inboxes
<1>6. Len(marked) = n /\ Ordered(marked)
  BY <1>4 DEF Ordered
<1>7. \A i \in 1..n : marked[i].key = inbox[u][i].key /\ marked[i] = [key |-> marked[i].key, read |-> marked[i].read]
  <2> SUFFICES ASSUME NEW i \in 1..n
               PROVE  marked[i].key = inbox[u][i].key /\ marked[i] = [key |-> marked[i].key, read |-> marked[i].read]
    OBVIOUS
  <2>1. inbox[u][i] = [key |-> inbox[u][i].key, read |-> inbox[u][i].read]
    BY <1>1 DEF Inboxes
  <2>2. ASSUME NEW r, NEW k, NEW b, r = [key |-> k, read |-> b], NEW c
        PROVE  [r EXCEPT !.read = c] = [key |-> k, read |-> c]
    BY <2>2
  <2>3. [inbox[u][i] EXCEPT !.read = TRUE] = [key |-> inbox[u][i].key, read |-> TRUE]
    <3> DEFINE r == inbox[u][i]
    <3>1. r = [key |-> r.key, read |-> r.read]
      BY <2>1
    <3> HIDE DEF r
    <3>2. [r EXCEPT !.read = TRUE] = [key |-> r.key, read |-> TRUE]
      BY <2>2, <3>1
    <3> QED
      BY <3>2 DEF r
  <2>4. marked[i] = IF i \in ids THEN [inbox[u][i] EXCEPT !.read = TRUE] ELSE inbox[u][i]
    OBVIOUS
  <2> QED
    BY <2>1, <2>3, <2>4
<1>8. n' = n
  BY <1>5, <1>6
<1> HIDE DEF marked
<1>9. Inboxes'
  <2>1. ASSUME NEW v \in Readers
        PROVE  /\ Ordered(inbox'[v])
               /\ \A i \in 1..Len(inbox'[v]) : inbox'[v][i] = [key |-> inbox'[v][i].key, read |-> inbox'[v][i].read]
    <3>1. CASE v = u
      <4>1. inbox'[v] = marked /\ Len(inbox'[v]) = n
        BY <1>5, <1>6, <3>1
      <4> QED
        BY <1>6, <1>7, <4>1
    <3>2. CASE v # u
      BY <1>1, <1>5, <3>2 DEF Inboxes
    <3> QED
      BY <3>1, <3>2
  <2> QED
    BY <1>5, <2>1 DEF Inboxes, Ordered
<1>10. DOMAIN inbox'[u] = 1..n
  BY <1>5, <1>6 DEF Ordered
<1>11. ASSUME NEW k \in owed' PROVE InFlight(k)' \/ \E v \in Readers : Holds(v, k)'
  <2>1. InFlight(k) => InFlight(k)'
    BY <1>1, <1>3, FlightStays DEF At
  <2>2. ASSUME NEW v \in Readers, Holds(v, k) PROVE Holds(v, k)'
    <3>1. CASE v = u
      <4>1. PICK i \in 1..n : inbox[u][i].key = k
        BY <1>4, <2>2, <3>1 DEF Holds
      <4>2. i \in DOMAIN inbox'[u] /\ inbox'[u][i].key = k
        BY <1>5, <1>7, <1>10, <4>1
      <4> QED
        BY <3>1, <4>2 DEF Holds
    <3>2. CASE v # u
      BY <1>5, <2>2, <3>2 DEF Holds
    <3> QED
      BY <3>1, <3>2
  <2>3. InFlight(k) \/ \E v \in Readers : Holds(v, k)
    BY <1>2 DEF FeedInv, ChangesReachAnInbox
  <2> QED
    BY <2>1, <2>2, <2>3
<1> QED
  BY <1>1, <1>2, <1>3, <1>9, <1>11, FeedRequestsStay DEF FeedInv, Remembers, ChangesReachAnInbox

\* A thread that takes a request, which hears and adds nothing yet.
LEMMA BeginKeeps ==
    ASSUME FeedInv, NEW t \in Threads, NEW l, NEW f, Begin(t, l, f), Lists(l, f), l # "add",
           UNCHANGED feedVars
    PROVE  FeedInv'
<1>1. Moved(t, l, f) /\ ~At(t, "add")
  BY Moves DEF FeedInv, FeedRequests, Begin, At
<1>2. FeedRequests'
  BY <1>1, FeedRequestsStay DEF FeedInv
<1>3. \A key : InFlight(key) => InFlight(key)'
  BY <1>1, FlightStays
<1>4. ChangesReachAnInbox'
  <2>1. \A key : \A u \in Readers : Holds(u, key) => Holds(u, key)'
    BY DEF feedVars, Holds
  <2> QED
    BY <1>3, <2>1 DEF FeedInv, ChangesReachAnInbox, feedVars
<1> QED
  BY <1>2, <1>4 DEF FeedInv, Inboxes, Ordered, Remembers, feedVars, seen

LEMMA FeedSteps == FeedInv /\ FeedNext => FeedInv'
<1> SUFFICES ASSUME FeedInv, FeedNext PROVE FeedInv'
  OBVIOUS
<1>1. CASE FeedNextDay
  <2>1. UNCHANGED <<pc, frame, inbox, lastHealth, lastBest, heard, owed>>
    BY <1>1 DEF FeedNextDay, pool, seen
  <2>2. ChangesReachAnInbox'
    BY <2>1 DEF FeedInv, ChangesReachAnInbox, InFlight, Holds, At
  <2> QED
    BY <2>1, <2>2 DEF FeedInv, FeedRequests, Pool, Inboxes, Ordered, Remembers
<1>2. CASE FeedRestart
  <2>1. FeedRequests'
    BY <1>2 DEF FeedRestart, FeedRequests, Pool, Lists
  <2>2. Inboxes' /\ Remembers' /\ ChangesReachAnInbox'
    BY <1>2 DEF FeedRestart, FeedInv, Inboxes, Ordered, Remembers, ChangesReachAnInbox
  <2> QED
    BY <2>1, <2>2 DEF FeedInv
<1>3. ASSUME NEW t \in Threads, StartList(t) PROVE FeedInv'
  <2>1. PICK u \in Readers :
          Begin(t, "signal", [op |-> "list", user |-> u, day |-> date, phase |-> 1, todo |-> {}])
    BY <1>3 DEF StartList
  <2> DEFINE f == [op |-> "list", user |-> u, day |-> date, phase |-> 1, todo |-> {}]
  <2>2. Lists("signal", f) /\ Begin(t, "signal", f)
    BY <2>1 DEF Lists, Listing, Phases
  <2> HIDE DEF f
  <2> QED
    BY <1>3, <2>2, BeginKeeps DEF StartList
<1>4. ASSUME NEW t \in Threads, StartMark(t) PROVE FeedInv'
  <2>1. PICK u \in Readers : \E ids : Begin(t, "mark", [op |-> "mark", user |-> u, ids |-> ids])
    BY <1>4, Zenon DEF StartMark
  <2> PICK ids : Begin(t, "mark", [op |-> "mark", user |-> u, ids |-> ids])
    BY <2>1
  <2> DEFINE f == [op |-> "mark", user |-> u, ids |-> ids]
  <2>2. Lists("mark", f) /\ Begin(t, "mark", f)
    BY DEF Lists
  <2> HIDE DEF f
  <2> QED
    BY <1>4, <2>2, BeginKeeps DEF StartMark
<1>5. ASSUME NEW t \in Threads, AskSignal(t) PROVE FeedInv'
  <2>1. PICK keys : Answered(t, keys)
    BY <1>5 DEF AskSignal
  <2>2. At(t, "signal") /\ UNCHANGED <<inbox, lastHealth, lastBest, heard, owed>>
    BY <1>5 DEF AskSignal, feedVars, seen
  <2>3. Remembers'
    BY <2>2 DEF FeedInv, Remembers
  <2> QED
    BY <2>1, <2>2, <2>3, AskKeeps
<1> QED
  BY <1>1, <1>2, <1>3, <1>4, <1>5, AskHealthKeepsInv, AskRotationKeeps, AddKeeps, MarkKeeps DEF FeedNext

-----------------------------------------------------------------------------
(* Sums over a finite set, which do not depend on the order of summation.   *)

\* g adds up h over every subset of S, whichever element comes last.
Adds(g, h, S) ==
    /\ g \in [SUBSET S -> Nat] /\ g[{}] = 0
    /\ \A T \in SUBSET S : \A x \in T : g[T] = h[x] + g[T \ {x}]

\* The element that the recursion of MapThenFoldSet takes off.
Taken(T) == CHOOSE x \in T : TRUE

\* What that recursion defines.
Sums(i, h, S) == [T \in SUBSET S |-> IF T = {} THEN 0 ELSE h[Taken(T)] + i[T \ {Taken(T)}]]

\* A set of subsets of a finite set has a least one.
LEMMA LeastSubset ==
    ASSUME NEW S, IsFiniteSet(S), NEW Bad \in SUBSET SUBSET S, Bad # {}
    PROVE  \E T \in Bad : \A x \in T : T \ {x} \notin Bad
<1>1. IsWellFoundedOn(StrictSubsetOrdering(S), FiniteSubsetsOf(S))
  BY FS_StrictSubsetOrderingWellFounded
<1>2. Bad \subseteq FiniteSubsetsOf(S)
  BY FS_Subset DEF FiniteSubsetsOf
<1>3. PICK T \in Bad : \A X \in Bad : ~(<<X, T>> \in StrictSubsetOrdering(S))
  BY <1>1, <1>2, WFMin, Zenon
<1>4. ASSUME NEW x \in T, T \ {x} \in Bad PROVE FALSE
  <2>1. <<T \ {x}, T>> \in StrictSubsetOrdering(S)
    BY <1>4 DEF StrictSubsetOrdering
  <2> QED
    BY <1>3, <1>4, <2>1
<1> QED
  BY <1>4

\* Whatever is added, there is a table of the sums of the subsets of a finite set.
LEMMA AddsExists ==
    ASSUME NEW S, IsFiniteSet(S), NEW h \in [S -> Nat]
    PROVE  \E g : Adds(g, h, S)
<1> DEFINE Bad == {T \in SUBSET S : ~\E g : Adds(g, h, T)}
<1>1. SUFFICES ASSUME Bad # {} PROVE FALSE
  OBVIOUS
<1>2. PICK T \in Bad : \A x \in T : T \ {x} \notin Bad
  <2>1. Bad \in SUBSET SUBSET S
    OBVIOUS
  <2> HIDE DEF Bad
  <2> QED
    BY <1>1, <2>1, LeastSubset
<1>3. CASE T = {}
  <2> DEFINE g == [X \in SUBSET T |-> 0]
  <2>1. Adds(g, h, T)
    BY <1>3 DEF Adds
  <2> QED
    BY <1>2, <2>1
<1>4. CASE T # {}
  <2>1. PICK a \in T : TRUE
    BY <1>4
  <2>2. PICK old : Adds(old, h, T \ {a})
    BY <1>2, <2>1
  <2> DEFINE g == [X \in SUBSET T |-> IF a \in X THEN h[a] + old[X \ {a}] ELSE old[X]]
  <2>3. /\ old \in [SUBSET (T \ {a}) -> Nat] /\ old[{}] = 0 /\ h[a] \in Nat
        /\ \A X \in SUBSET (T \ {a}) : \A x \in X : old[X] = h[x] + old[X \ {x}]
    BY <1>2, <2>1, <2>2 DEF Adds
  <2>4. g \in [SUBSET T -> Nat] /\ g[{}] = 0
    BY <2>3
  <2>5. ASSUME NEW X \in SUBSET T, NEW x \in X PROVE g[X] = h[x] + g[X \ {x}]
    <3>1. CASE a \notin X
      <4>1. X \in SUBSET (T \ {a}) /\ X \ {x} \in SUBSET T /\ a \notin X \ {x}
        BY <3>1
      <4>2. g[X] = old[X] /\ g[X \ {x}] = old[X \ {x}]
        BY <3>1, <4>1
      <4> QED
        BY <2>3, <4>1, <4>2
    <3>2. CASE x = a
      <4>1. X \ {x} \in SUBSET T /\ a \notin X \ {x}
        BY <3>2
      <4>2. g[X] = h[a] + old[X \ {a}] /\ g[X \ {x}] = old[X \ {x}]
        BY <3>2, <4>1
      <4> QED
        BY <3>2, <4>2
    <3>3. CASE a \in X /\ x # a
      <4>1. X \ {a} \in SUBSET (T \ {a}) /\ x \in X \ {a} /\ X \ {x} \in SUBSET T /\ a \in X \ {x}
            /\ (X \ {x}) \ {a} = (X \ {a}) \ {x} /\ (X \ {a}) \ {x} \in SUBSET (T \ {a})
        BY <3>3
      <4>2. g[X] = h[a] + old[X \ {a}] /\ g[X \ {x}] = h[a] + old[(X \ {a}) \ {x}]
        BY <3>3, <4>1
      <4>3. old[X \ {a}] = h[x] + old[(X \ {a}) \ {x}]
        BY <2>3, <4>1
      <4>4. h[x] \in Nat /\ old[(X \ {a}) \ {x}] \in Nat /\ h[a] \in Nat
        BY <1>2, <2>3, <4>1
      <4> HIDE DEF g
      <4> QED
        BY <4>2, <4>3, <4>4
    <3> QED
      BY <3>1, <3>2, <3>3
  <2>6. Adds(g, h, T)
    <3> HIDE DEF g
    <3> QED
      BY <2>4, <2>5 DEF Adds
  <2> QED
    BY <1>2, <2>6
<1> QED
  BY <1>3, <1>4

\* A table that follows the recursion over T agrees with one that adds up over S.
Follows(table, h, T) ==
    \A X \in SUBSET T : table[X] = IF X = {} THEN 0 ELSE h[Taken(X)] + table[X \ {Taken(X)}]

\* A fold over a part of the set finds the sum that the table has.
LEMMA SameSums ==
    ASSUME NEW S, IsFiniteSet(S), NEW h \in [S -> Nat], NEW g, Adds(g, h, S), NEW T \in SUBSET S,
           NEW table, Follows(table, h, T)
    PROVE  table[T] = g[T]
<1> DEFINE Bad == {X \in SUBSET T : table[X] # g[X]}
<1>1. SUFFICES ASSUME Bad # {} PROVE FALSE
  OBVIOUS
<1>2. PICK X \in Bad : \A x \in X : X \ {x} \notin Bad
  <2>1. Bad \in SUBSET SUBSET T /\ IsFiniteSet(T)
    BY FS_Subset
  <2> HIDE DEF Bad
  <2> QED
    BY <1>1, <2>1, LeastSubset
<1>3. CASE X = {}
  BY <1>2, <1>3 DEF Adds, Follows
<1>4. CASE X # {}
  <2>1. PICK x \in X : x = Taken(X)
    BY <1>4 DEF Taken
  <2>2. table[X] = h[x] + table[X \ {x}] /\ table[X \ {x}] = g[X \ {x}]
    BY <1>2, <1>4, <2>1 DEF Follows
  <2>3. g[X] = h[x] + g[X \ {x}]
    BY <1>2, <2>1 DEF Adds
  <2> QED
    BY <1>2, <2>2, <2>3
<1> QED
  BY <1>3, <1>4

\* The recursive definition of a sum is that of a table that adds up.
LEMMA SumIs ==
    ASSUME NEW S, IsFiniteSet(S), NEW h \in [S -> Nat], NEW g, Adds(g, h, S), NEW T \in SUBSET S
    PROVE  (CHOOSE i : i = Sums(i, h, T))[T] = g[T]
<1> DEFINE own == [X \in SUBSET T |-> g[X]]
           table == CHOOSE i : i = Sums(i, h, T)
<1>1. own = Sums(own, h, T)
  <2>1. ASSUME NEW X \in SUBSET T PROVE own[X] = IF X = {} THEN 0 ELSE h[Taken(X)] + own[X \ {Taken(X)}]
    <3>1. CASE X = {}
      BY <3>1 DEF Adds
    <3>2. CASE X # {}
      <4>1. PICK x \in X : x = Taken(X)
        BY <3>2 DEF Taken
      <4>2. g[X] = h[x] + g[X \ {x}] /\ own[X] = g[X] /\ own[X \ {x}] = g[X \ {x}]
        BY <4>1 DEF Adds
      <4> HIDE DEF own
      <4> QED
        BY <3>2, <4>1, <4>2
    <3> QED
      BY <3>1, <3>2
  <2>2. own = [X \in SUBSET T |-> own[X]]
    OBVIOUS
  <2> HIDE DEF own
  <2> QED
    BY <2>1, <2>2 DEF Sums
<1>2. table = Sums(table, h, T)
  <2> HIDE DEF own
  <2> QED
    BY <1>1
<1> HIDE DEF table
<1>3. ASSUME NEW X \in SUBSET T PROVE table[X] = IF X = {} THEN 0 ELSE h[Taken(X)] + table[X \ {Taken(X)}]
  <2>1. Sums(table, h, T)[X] = IF X = {} THEN 0 ELSE h[Taken(X)] + table[X \ {Taken(X)}]
    BY DEF Sums
  <2> QED
    BY <1>2, <2>1
<1>4. table[T] = g[T]
  <2>1. Follows(table, h, T)
    BY <1>3 DEF Follows
  <2> QED
    BY <2>1, SameSums
<1> QED
  BY <1>4 DEF table

\* A sum is the sum over a part and over the rest.
Splits(g, T, U) == g[T] = g[U] + g[T \ U]

\* The sum of a set is that of a part and that of the rest.
LEMMA SumSplits ==
    ASSUME NEW S, IsFiniteSet(S), NEW h \in [S -> Nat], NEW g, Adds(g, h, S),
           NEW T \in SUBSET S, NEW U \in SUBSET T
    PROVE  Splits(g, T, U)
<1> DEFINE Bad == {X \in SUBSET U : g[X \cup (T \ U)] # g[X] + g[T \ U]}
<1>0. g[T \ U] \in Nat /\ g[{}] = 0
  BY DEF Adds
<1>1. U \cup (T \ U) = T
  OBVIOUS
<1>2. SUFFICES ASSUME Bad # {} PROVE FALSE
  BY <1>1 DEF Splits
<1>3. PICK X \in Bad : \A x \in X : X \ {x} \notin Bad
  <2>1. Bad \in SUBSET SUBSET U /\ IsFiniteSet(U)
    BY FS_Subset
  <2> HIDE DEF Bad
  <2> QED
    BY <1>2, <2>1, LeastSubset
<1>4. CASE X = {}
  <2>1. X \cup (T \ U) = T \ U
    BY <1>4
  <2> QED
    BY <1>0, <1>3, <1>4, <2>1
<1>5. CASE X # {}
  <2>1. PICK x \in X : TRUE
    BY <1>5
  <2>2. g[(X \ {x}) \cup (T \ U)] = g[X \ {x}] + g[T \ U]
    BY <1>3, <2>1
  <2>3. (X \cup (T \ U)) \ {x} = (X \ {x}) \cup (T \ U) /\ X \cup (T \ U) \in SUBSET S /\ X \in SUBSET S
    BY <1>3, <2>1
  <2>4. g[X \cup (T \ U)] = h[x] + g[(X \ {x}) \cup (T \ U)] /\ g[X] = h[x] + g[X \ {x}]
    <3>1. x \in X \cup (T \ U) /\ \A Y \in SUBSET S : \A y \in Y : g[Y] = h[y] + g[Y \ {y}]
      BY <2>1 DEF Adds
    <3>2. g[X \cup (T \ U)] = h[x] + g[(X \cup (T \ U)) \ {x}]
      BY <2>3, <3>1
    <3>3. g[X] = h[x] + g[X \ {x}]
      BY <2>1, <2>3, <3>1
    <3> QED
      BY <2>3, <3>2, <3>3
  <2>5. h[x] \in Nat /\ g[X \ {x}] \in Nat
    BY <2>1, <2>3 DEF Adds
  <2>6. g[X \cup (T \ U)] # g[X] + g[T \ U]
    BY <1>3
  <2> HIDE DEF Bad
  <2> QED
    BY <1>0, <2>2, <2>4, <2>5, <2>6
<1> QED
  BY <1>4, <1>5

-----------------------------------------------------------------------------
(* The journal.                                                             *)

Entries == [quantity: Nat, price: Nat, status: {"OPEN", "CLOSED"}, soldFor: Nat, by: Nat]
Orders == [side: {"BUY", "SELL"}, quantity: Nat, price: Nat]

\* The oldest entries are the closed ones.
OldestFirst == \A i, j \in DOMAIN entries : i < j /\ ~IsOpen(entries[j]) => ~IsOpen(entries[i])

\* The shares that may be open once the first orders are journalled: a bought share
\* makes room for one more, a sold share takes no more than its own room, and what was
\* neither bought nor sold by these orders can only have come or gone unjournalled.
Rooms(b) ==
    /\ b[Len(trades)] <= held + gone
    /\ \A i \in 1..Len(trades) :
         IF trades[i].side = "BUY" THEN b[i - 1] + trades[i].quantity <= b[i]
         ELSE b[i - 1] - trades[i].quantity <= b[i]

\* The hooks that have run are those of the first k orders, and what is open has room.
InOrder == \E b \in [0..Len(trades) -> Nat], k \in 0..Len(trades) :
    /\ Rooms(b)
    /\ hooks = (k + 1)..Len(trades)
    /\ Amount(entries, OpenIds(entries)) <= b[k]

JournalInv ==
    /\ held \in Nat /\ gone \in Nat
    /\ trades \in Seq(Orders) /\ entries \in Seq(Entries)
    /\ hooks \subseteq 1..Len(trades)
    /\ OldestFirst
    /\ disorder \/ InOrder

Sizes(rows) == [i \in DOMAIN rows |-> rows[i].quantity]

\* The ids of a table of entries, and their quantities.
LEMMA RowsOf ==
    ASSUME NEW rows \in Seq(Entries)
    PROVE  /\ DOMAIN rows = 1..Len(rows) /\ Len(rows) \in Nat
           /\ IsFiniteSet(DOMAIN rows) /\ DOMAIN rows \in SUBSET Nat
           /\ Sizes(rows) \in [DOMAIN rows -> Nat]
           /\ \A i \in DOMAIN rows : rows[i] \in Entries
<1>1. DOMAIN rows = 1..Len(rows) /\ Len(rows) \in Nat /\ \A i \in 1..Len(rows) : rows[i] \in Entries
  OBVIOUS
<1>2. IsFiniteSet(1..Len(rows)) /\ 1..Len(rows) \in SUBSET Nat
  BY <1>1, FS_Interval
<1>3. \A i \in 1..Len(rows) : rows[i].quantity \in Nat
  BY <1>1 DEF Entries
<1> QED
  BY <1>1, <1>2, <1>3 DEF Sizes

\* The amount of some entries is the sum of their quantities.
LEMMA AmountIs ==
    ASSUME NEW rows \in Seq(Entries), NEW S, S = DOMAIN rows, NEW g, Adds(g, Sizes(rows), S), NEW T \in SUBSET S
    PROVE  Amount(rows, T) = g[T]
<1> DEFINE h == Sizes(rows)
           Step(i) == [X \in SUBSET T |-> IF X = {} THEN 0 ELSE rows[Taken(X)].quantity + i[X \ {Taken(X)}]]
<1>1. Amount(rows, T) = (CHOOSE i : i = Step(i))[T]
  BY Zenon DEF Amount, MapThenSumSet, MapThenFoldSet, Taken
<1>2. \A i : Step(i) = Sums(i, h, T)
  BY DEF Sums, Taken, Sizes
<1>3. (CHOOSE i : i = Step(i)) = (CHOOSE i : i = Sums(i, h, T))
  BY <1>2, Zenon
<1>4. IsFiniteSet(S) /\ h \in [S -> Nat]
  BY RowsOf
<1> HIDE DEF h, Step
<1>5. (CHOOSE i : i = Sums(i, h, T))[T] = g[T]
  BY <1>4, SumIs DEF h
<1> QED
  BY <1>1, <1>3, <1>5

\* A set of numbers has a least one.
LEMMA LeastNumber ==
    ASSUME NEW S \in SUBSET Nat, S # {}
    PROVE  \E x \in S : \A y \in S : x <= y
<1>1. PICK x \in S : \A y \in S : ~(<<y, x>> \in OpToRel(<, Nat))
  BY NatLessThanWellFounded, WFMin, Zenon
<1>2. ASSUME NEW y \in S PROVE x <= y
  <2>1. x \in Nat /\ y \in Nat
    OBVIOUS
  <2>2. ~(y < x)
    BY <1>1, <2>1 DEF OpToRel
  <2> QED
    BY <2>1, <2>2
<1> QED
  BY <1>2

\* A sale of q takes a first part C of the open entries O, and no fewer shares than
\* q, unless it takes them all.
TakesOldest(g, O, C, q) ==
    /\ \A i, j \in O : i < j /\ j \in C => i \in C
    /\ C # O => g[C] >= q
    /\ g[O] = g[C] + g[O \ C]

\* A sale closes entries from the oldest until what it sold is covered, or all of them.
LEMMA SaleTakes ==
    ASSUME NEW S \in SUBSET Nat, IsFiniteSet(S), NEW h \in [S -> Nat], NEW g, Adds(g, h, S), NEW q \in Nat,
           NEW O \in SUBSET S, NEW C, C = {i \in O : g[{j \in O : j < i}] < q}
    PROVE  TakesOldest(g, O, C, q)
<1> DEFINE Older(i) == {j \in O : j < i}
<1>0. \A T \in SUBSET S, U \in SUBSET S : U \subseteq T => g[T] = g[U] + g[T \ U]
  <2> TAKE T \in SUBSET S, U \in SUBSET S
  <2> HAVE U \subseteq T
  <2>1. U \in SUBSET T
    OBVIOUS
  <2>2. Splits(g, T, U)
    BY <2>1, SumSplits
  <2> QED
    BY <2>2 DEF Splits
<1>1. \A T \in SUBSET S : g[T] \in Nat
  BY DEF Adds
<1>2. \A i \in O : Older(i) \in SUBSET S
  OBVIOUS
<1>3. ASSUME NEW i \in O, NEW j \in O, i < j PROVE g[Older(i)] <= g[Older(j)]
  <2>1. Older(i) \in SUBSET Older(j) /\ Older(j) \in SUBSET S /\ Older(j) \ Older(i) \in SUBSET S
    <3>1. i \in Nat /\ j \in Nat /\ \A k \in O : k \in Nat
      OBVIOUS
    <3>2. \A k \in O : k < i => k < j
      BY <1>3, <3>1
    <3> QED
      BY <3>2
  <2> HIDE DEF Older
  <2>2. g[Older(j)] = g[Older(i)] + g[Older(j) \ Older(i)]
    BY <1>0, <2>1
  <2>3. g[Older(i)] \in Nat /\ g[Older(j) \ Older(i)] \in Nat
    BY <1>1, <2>1
  <2> QED
    BY <2>2, <2>3
<1>4. \A i \in O : i \in C <=> g[Older(i)] < q
  OBVIOUS
<1>5. ASSUME NEW i \in O, NEW j \in O, i < j, j \in C PROVE i \in C
  <2>1. g[Older(i)] <= g[Older(j)] /\ g[Older(j)] < q
    BY <1>3, <1>4, <1>5
  <2>2. g[Older(i)] \in Nat /\ g[Older(j)] \in Nat
    BY <1>1, <1>2
  <2> HIDE DEF Older
  <2>3. g[Older(i)] < q
    BY <2>1, <2>2
  <2> QED
    BY <1>4, <2>3, Zenon
<1>6. ASSUME C # O PROVE g[C] >= q
  <2>1. C \subseteq O /\ O \ C # {} /\ O \ C \in SUBSET Nat
    BY <1>6
  <2>2. PICK i \in O \ C : \A j \in O \ C : i <= j
    <3> HIDE DEF Older
    <3> QED
      BY <2>1, LeastNumber
  <2>3. \A j \in O : j \in Nat
    OBVIOUS
  <2>4. Older(i) = C
    <3>1. ASSUME NEW j \in O, j < i PROVE j \in C
      BY <2>2, <2>3, <3>1
    <3>2. ASSUME NEW j \in C PROVE j \in O /\ j < i
      <4>1. j \in O /\ j # i
        BY <2>1, <2>2, <3>2
      <4>2. ~(i < j)
        BY <1>5, <2>2, <3>2, <4>1
      <4> QED
        BY <2>2, <2>3, <4>1, <4>2
    <3> QED
      BY <3>1, <3>2
  <2>5. ~(g[Older(i)] < q) /\ g[Older(i)] \in Nat
    BY <1>1, <1>2, <1>4, <2>2
  <2> HIDE DEF Older
  <2> QED
    BY <2>4, <2>5
<1>7. g[O] = g[C] + g[O \ C]
  <2>1. C \in SUBSET O
    OBVIOUS
  <2> HIDE DEF Older
  <2> QED
    BY <1>0, <2>1
<1> QED
  BY <1>5, <1>6, <1>7 DEF TakesOldest

\* The amounts of a table of entries are those of one table of sums.
LEMMA AmountTable ==
    ASSUME NEW rows \in Seq(Entries)
    PROVE  \E g : /\ Adds(g, Sizes(rows), DOMAIN rows)
                  /\ \A T \in SUBSET DOMAIN rows : Amount(rows, T) = g[T] /\ g[T] \in Nat
<1>1. PICK S : S = DOMAIN rows
  OBVIOUS
<1>3. IsFiniteSet(S) /\ Sizes(rows) \in [S -> Nat]
  BY <1>1, RowsOf
<1>4. PICK g : Adds(g, Sizes(rows), S)
  BY <1>3, AddsExists
<1>5. ASSUME NEW T \in SUBSET S PROVE Amount(rows, T) = g[T] /\ g[T] \in Nat
  <2>1. Amount(rows, T) = g[T]
    BY <1>1, <1>4, AmountIs
  <2> QED
    BY <1>4, <2>1 DEF Adds
<1> QED
  BY <1>1, <1>4, <1>5

\* What a buy adds to the shares open.
LEMMA BuyOpens ==
    ASSUME NEW rows \in Seq(Entries), NEW e \in Entries, IsOpen(e)
    PROVE  /\ Amount(rows, OpenIds(rows)) \in Nat
           /\ Amount(Append(rows, e), OpenIds(Append(rows, e))) = Amount(rows, OpenIds(rows)) + e.quantity
<1>1. PICK more : more = Append(rows, e)
  OBVIOUS
<1>2. PICK n \in Nat : n = Len(rows) + 1
  OBVIOUS
<1>3. /\ more \in Seq(Entries) /\ DOMAIN rows = 1..(n - 1) /\ DOMAIN more = 1..n
      /\ more[n] = e /\ \A i \in DOMAIN rows : more[i] = rows[i]
  BY <1>1, <1>2
<1>4. PICK g : /\ Adds(g, Sizes(rows), DOMAIN rows)
               /\ \A T \in SUBSET DOMAIN rows : Amount(rows, T) = g[T] /\ g[T] \in Nat
  BY AmountTable
<1>5. PICK k : /\ Adds(k, Sizes(more), DOMAIN more)
               /\ \A T \in SUBSET DOMAIN more : Amount(more, T) = k[T] /\ k[T] \in Nat
  BY <1>3, AmountTable
<1>6. PICK O : O = OpenIds(rows)
  OBVIOUS
<1>7. O \in SUBSET DOMAIN rows /\ OpenIds(more) = O \cup {n} /\ n \notin O /\ O \cup {n} \in SUBSET DOMAIN more
      /\ n \in DOMAIN more
  <2>1. O \in SUBSET DOMAIN rows /\ n \in DOMAIN more /\ n \notin DOMAIN rows
        /\ DOMAIN more = DOMAIN rows \cup {n}
    <3>1. n \in Nat \ {0}
      BY <1>2
    <3>2. 1..n = 1..(n - 1) \cup {n} /\ n \in 1..n /\ n \notin 1..(n - 1)
      BY <3>1
    <3> QED
      BY <1>3, <1>6, <3>2 DEF OpenIds
  <2>2. OpenIds(more) = O \cup {n}
    <3>1. \A i \in DOMAIN rows : more[i] = rows[i]
      BY <1>3
    <3>2. more[n] = e
      BY <1>3
    <3> QED
      BY <1>6, <2>1, <3>1, <3>2 DEF OpenIds
  <2> QED
    BY <2>1, <2>2
<1>8. k[O] = g[O]
  <2>1. \A x \in DOMAIN rows : Sizes(more)[x] = Sizes(rows)[x]
    BY <1>3 DEF Sizes
  <2>2. ASSUME NEW X \in SUBSET O
        PROVE  k[X] = IF X = {} THEN 0 ELSE Sizes(rows)[Taken(X)] + k[X \ {Taken(X)}]
    <3>1. CASE X = {}
      BY <1>5, <3>1 DEF Adds
    <3>2. CASE X # {}
      <4>1. PICK x \in X : x = Taken(X)
        BY <3>2 DEF Taken
      <4>2. X \in SUBSET DOMAIN more /\ x \in DOMAIN rows
        BY <1>3, <1>7, <4>1
      <4>3. k[X] = Sizes(more)[x] + k[X \ {x}]
        BY <1>5, <4>1, <4>2 DEF Adds
      <4> QED
        BY <2>1, <3>2, <4>1, <4>2, <4>3
    <3> QED
      BY <3>1, <3>2
  <2>3. PICK S : S = DOMAIN rows
    OBVIOUS
  <2>4. PICK h : h = Sizes(rows)
    OBVIOUS
  <2>5. IsFiniteSet(S) /\ h \in [S -> Nat]
    BY <2>3, <2>4, RowsOf
  <2>6. Adds(g, h, S) /\ O \in SUBSET S
    BY <1>4, <1>7, <2>3, <2>4
  <2>7. Follows(k, h, O)
    BY <2>2, <2>4 DEF Follows
  <2> QED
    BY <2>5, <2>6, <2>7, SameSums
<1>9. k[O \cup {n}] = e.quantity + k[O]
  <2>1. k[O \cup {n}] = Sizes(more)[n] + k[(O \cup {n}) \ {n}]
    BY <1>5, <1>7 DEF Adds
  <2>2. (O \cup {n}) \ {n} = O /\ Sizes(more)[n] = e.quantity
    BY <1>3, <1>7 DEF Sizes
  <2> QED
    BY <2>1, <2>2
<1>10. Amount(rows, O) = g[O] /\ g[O] \in Nat /\ Amount(more, O \cup {n}) = k[O \cup {n}]
  BY <1>4, <1>5, <1>7
<1>11. e.quantity \in Nat
  BY DEF Entries
<1> QED
  BY <1>1, <1>6, <1>7, <1>8, <1>9, <1>10, <1>11

\* The entries after a sale of q: no open one is older than a closed one, and
\* the shares open are q fewer, or none.
Sold(rows, q, price, n) ==
    [i \in DOMAIN rows |->
        IF IsOpen(rows[i]) /\ Amount(rows, {j \in OpenIds(rows) : j < i}) < q
        THEN [rows[i] EXCEPT !.status = "CLOSED", !.soldFor = price, !.by = n]
        ELSE rows[i]]

\* A closed entry keeps its quantity.
LEMMA SoldRow ==
    ASSUME NEW e \in Entries, NEW price \in Nat, NEW n \in Nat
    PROVE  LET c == [e EXCEPT !.status = "CLOSED", !.soldFor = price, !.by = n] IN
           c \in Entries /\ c.quantity = e.quantity /\ c.status = "CLOSED"
<1> DEFINE c == [e EXCEPT !.status = "CLOSED", !.soldFor = price, !.by = n]
           d == [e EXCEPT !.status = "CLOSED"]
           f == [d EXCEPT !.soldFor = price]
<1>1. c = [f EXCEPT !.by = n]
  BY Zenon
<1>2. d \in Entries /\ d.quantity = e.quantity /\ d.status = "CLOSED"
  BY DEF Entries
<1> HIDE DEF d
<1>3. f \in Entries /\ f.quantity = e.quantity /\ f.status = "CLOSED"
  BY <1>2 DEF Entries
<1> HIDE DEF f, c
<1>4. c \in Entries /\ c.quantity = e.quantity /\ c.status = "CLOSED"
  BY <1>1, <1>3 DEF Entries
<1> QED
  BY <1>4 DEF c

\* After a sale the closed entries still come first, and no more shares are open than are left.
LEMMA SaleCloses ==
    ASSUME NEW rows \in Seq(Entries), NEW q \in Nat, NEW price \in Nat, NEW n \in Nat,
           NEW rest, rest = Sold(rows, q, price, n),
           \A i, j \in DOMAIN rows : i < j /\ ~IsOpen(rows[j]) => ~IsOpen(rows[i])
    PROVE  /\ rest \in Seq(Entries)
           /\ \A i, j \in DOMAIN rest : i < j /\ ~IsOpen(rest[j]) => ~IsOpen(rest[i])
           /\ Amount(rows, OpenIds(rows)) \in Nat /\ Amount(rest, OpenIds(rest)) \in Nat
           /\ \/ Amount(rest, OpenIds(rest)) = 0
              \/ Amount(rest, OpenIds(rest)) <= Amount(rows, OpenIds(rows)) - q
<1>1. PICK S : S = DOMAIN rows /\ S = DOMAIN rest
  BY DEF Sold
<1>2. PICK g : /\ Adds(g, Sizes(rows), S)
               /\ \A T \in SUBSET S : Amount(rows, T) = g[T] /\ g[T] \in Nat
  BY <1>1, AmountTable
<1>3. PICK O \in SUBSET S : O = OpenIds(rows)
  BY <1>1 DEF OpenIds
<1>4. PICK C \in SUBSET O : C = {i \in O : g[{j \in O : j < i}] < q}
  OBVIOUS
<1>5. \A i \in S : i \in O <=> IsOpen(rows[i])
  BY <1>1, <1>3 DEF OpenIds
<1>6. ASSUME NEW i \in S
      PROVE  /\ rest[i] \in Entries /\ rest[i].quantity = rows[i].quantity
             /\ i \in C => ~IsOpen(rest[i])
             /\ i \notin C => rest[i] = rows[i]
  <2>1. {j \in O : j < i} \in SUBSET S
    OBVIOUS
  <2>2. i \in C <=> IsOpen(rows[i]) /\ Amount(rows, {j \in OpenIds(rows) : j < i}) < q
    BY <1>2, <1>3, <1>4, <1>5, <2>1
  <2>3. rest[i] = IF i \in C THEN [rows[i] EXCEPT !.status = "CLOSED", !.soldFor = price, !.by = n] ELSE rows[i]
    BY <1>1, <2>2 DEF Sold
  <2>4. rows[i] \in Entries
    BY <1>1, RowsOf
  <2> DEFINE c == [rows[i] EXCEPT !.status = "CLOSED", !.soldFor = price, !.by = n]
  <2>5. c \in Entries /\ c.quantity = rows[i].quantity /\ c.status = "CLOSED"
    BY <2>4, SoldRow
  <2>6. rest[i] = IF i \in C THEN c ELSE rows[i]
    BY <2>3
  <2> HIDE DEF c
  <2> QED
    BY <2>4, <2>5, <2>6 DEF IsOpen
<1>7. rest \in Seq(Entries)
  <2>1. S = 1..Len(rows) /\ Len(rows) \in Nat
    BY <1>1, RowsOf
  <2>2. rest = [i \in S |-> rest[i]]
    BY <1>1 DEF Sold
  <2>3. rest \in [1..Len(rows) -> Entries]
    BY <1>6, <2>1, <2>2
  <2> QED
    BY <2>1, <2>3, SeqDef
<1>8. OpenIds(rest) = O \ C
  BY <1>1, <1>5, <1>6 DEF OpenIds
<1>9. PICK h : h = Sizes(rows) /\ h = Sizes(rest)
  BY <1>1, <1>6 DEF Sizes
<1>10. S \in SUBSET Nat /\ IsFiniteSet(S) /\ h \in [S -> Nat]
  BY <1>1, <1>9, RowsOf
<1>11. /\ \A i, j \in O : i < j /\ j \in C => i \in C
       /\ C # O => g[C] >= q
       /\ g[O] = g[C] + g[O \ C]
  <2>1. Adds(g, h, S)
    BY <1>2, <1>9
  <2>2. TakesOldest(g, O, C, q)
    BY <1>4, <1>10, <2>1, SaleTakes
  <2> QED
    BY <2>2 DEF TakesOldest
<1>12. Amount(rest, O \ C) = g[O \ C]
  <2>1. Adds(g, Sizes(rest), S) /\ O \ C \in SUBSET S
    BY <1>2, <1>9
  <2> QED
    BY <1>1, <1>7, <2>1, AmountIs
<1>13. g[O] \in Nat /\ g[C] \in Nat /\ g[O \ C] \in Nat /\ Amount(rows, O) = g[O] /\ g[{}] = 0
  <2>1. C \in SUBSET S /\ O \ C \in SUBSET S
    OBVIOUS
  <2> QED
    BY <1>2, <2>1 DEF Adds
<1>14. g[O \ C] = 0 \/ g[O \ C] <= g[O] - q
  <2>1. CASE C = O
    BY <1>13, <2>1
  <2>2. CASE C # O
    BY <1>11, <1>13, <2>2
  <2> QED
    BY <2>1, <2>2
<1>15. ASSUME NEW i \in S, NEW j \in S, i < j, ~IsOpen(rest[j]) PROVE ~IsOpen(rest[i])
  <2>1. CASE j \in C
    <3>1. i \in O => i \in C
      BY <1>11, <1>15, <2>1
    <3> QED
      BY <1>5, <1>6, <3>1
  <2>2. CASE j \notin C
    <3>1. ~IsOpen(rows[j])
      BY <1>6, <1>15, <2>2
    <3>2. ~IsOpen(rows[i])
      BY <1>1, <1>15, <3>1
    <3> QED
      BY <1>4, <1>5, <1>6, <3>2
  <2> QED
    BY <2>1, <2>2
<1> QED
  BY <1>1, <1>3, <1>7, <1>8, <1>12, <1>13, <1>14, <1>15

-----------------------------------------------------------------------------
(* The steps of the journal.                                                *)

LEMMA JournalBegins == JournalInit => JournalInv
<1> SUFFICES ASSUME JournalInit PROVE JournalInv
  OBVIOUS
<1>1. held = 0 /\ gone = 0 /\ trades = <<>> /\ hooks = {} /\ entries = <<>> /\ disorder = FALSE
  BY DEF JournalInit
<1>2. trades \in Seq(Orders) /\ entries \in Seq(Entries) /\ Len(trades) = 0 /\ DOMAIN entries = {}
  BY <1>1
<1>3. Amount(entries, OpenIds(entries)) = 0
  <2>1. PICK g : Adds(g, Sizes(entries), DOMAIN entries) /\ \A T \in SUBSET DOMAIN entries : Amount(entries, T) = g[T]
    BY <1>2, AmountTable
  <2>2. OpenIds(entries) = {}
    BY <1>2 DEF OpenIds
  <2> QED
    BY <2>1, <2>2 DEF Adds
<1>4. InOrder
  <2>1. PICK b : b = [i \in 0..Len(trades) |-> 0]
    OBVIOUS
  <2>2. b \in [0..Len(trades) -> Nat] /\ b[0] = 0 /\ b[Len(trades)] = 0
    BY <1>2, <2>1
  <2>3. Rooms(b)
    BY <1>1, <1>2, <2>2 DEF Rooms
  <2>4. 0 \in 0..Len(trades) /\ hooks = (0 + 1)..Len(trades) /\ Amount(entries, OpenIds(entries)) <= b[0]
    BY <1>1, <1>2, <1>3, <2>2
  <2> QED
    BY <2>2, <2>3, <2>4 DEF InOrder
<1> QED
  BY <1>1, <1>2, <1>4 DEF JournalInv, OldestFirst

\* Sales round up, and what is left of a difference is no negative number of shares.
LEMMA StillRoom ==
    ASSUME NEW open \in Nat, NEW after \in Nat, NEW room \in Nat, NEW left \in Nat, NEW q \in Nat,
           open <= room, room - q <= left, after = 0 \/ after <= open - q
    PROVE  after <= left
  OBVIOUS

\* A fill changes the position by the quantity, and never below zero.
LEMMA FilledCounts ==
    ASSUME JournalInv, NEW side \in {"BUY", "SELL"}, NEW q \in Quantities, Filled(side, q)
    PROVE  /\ q \in Nat /\ held \in Nat
           /\ \E h \in Nat : /\ held' = h
                             /\ IF side = "BUY" THEN h = held + q ELSE h = held - q
<1>1. q \in Nat /\ held \in Nat
  BY JournalAssumption DEF JournalInv
<1>2. (side = "SELL" => q <= held) /\ held' = IF side = "BUY" THEN held + q ELSE held - q
  BY DEF Filled
<1> QED
  BY <1>1, <1>2

LEMMA TradeKeeps == JournalInv /\ Trade => JournalInv'
<1> SUFFICES ASSUME JournalInv, Trade PROVE JournalInv'
  OBVIOUS
<1>1. PICK side \in {"BUY", "SELL"}, q \in Quantities, p \in Prices :
        /\ Filled(side, q)
        /\ trades' = Append(trades, [side |-> side, quantity |-> q, price |-> p])
  BY DEF Trade
<1>2. hooks' = hooks \cup {Len(trades) + 1} /\ entries' = entries /\ disorder' = disorder /\ gone' = gone
  BY DEF Trade
<1>3. PICK n \in Nat : n = Len(trades)
  BY DEF JournalInv
<1>4. q \in Nat /\ held \in Nat /\ gone \in Nat
  BY <1>1, FilledCounts DEF JournalInv
<1>9. PICK h \in Nat : held' = h /\ IF side = "BUY" THEN h = held + q ELSE h = held - q
  BY <1>1, FilledCounts
<1>5. PICK o \in Orders : trades' = Append(trades, o) /\ o.side = side /\ o.quantity = q
  <2>1. PICK o : o = [side |-> side, quantity |-> q, price |-> p]
    OBVIOUS
  <2>2. o \in Orders /\ o.side = side /\ o.quantity = q
    BY <1>4, <2>1, JournalAssumption DEF Orders
  <2> QED
    BY <1>1, <2>1, <2>2
<1>6. /\ trades' \in Seq(Orders) /\ Len(trades') = n + 1
      /\ trades'[n + 1] = o /\ \A i \in 1..n : trades'[i] = trades[i]
  BY <1>3, <1>5 DEF JournalInv
<1>7. ASSUME InOrder PROVE InOrder'
  <2>1. PICK b \in [0..n -> Nat], k \in 0..n :
          Rooms(b) /\ hooks = (k + 1)..n /\ Amount(entries, OpenIds(entries)) <= b[k]
    BY <1>3, <1>7 DEF InOrder
  <2>2. PICK room \in Nat : room = h + gone
    BY <1>4, <1>9
  <2>3. PICK c : c = [i \in 0..(n + 1) |-> IF i = n + 1 THEN room ELSE b[i]]
    OBVIOUS
  <2>4. c \in [0..(n + 1) -> Nat] /\ c[n + 1] = room /\ \A i \in 0..n : c[i] = b[i]
    BY <1>3, <2>1, <2>2, <2>3
  <2>5. b[n] \in Nat /\ b[n] <= held + gone /\ c[n] = b[n]
    BY <1>3, <2>1, <2>4 DEF Rooms
  <2>6. ASSUME NEW i \in 1..(n + 1)
        PROVE  IF trades'[i].side = "BUY" THEN c[i - 1] + trades'[i].quantity <= c[i]
               ELSE c[i - 1] - trades'[i].quantity <= c[i]
    <3>1. CASE i = n + 1
      <4>1. i - 1 = n /\ trades'[i] = o
        BY <1>3, <1>6, <3>1
      <4>2. IF side = "BUY" THEN b[n] + q <= room ELSE b[n] - q <= room
        BY <1>4, <1>9, <2>2, <2>5
      <4> QED
        BY <1>5, <2>4, <2>5, <3>1, <4>1, <4>2
    <3>2. CASE i # n + 1
      <4>1. i \in 1..n /\ i - 1 \in 0..n /\ i \in 0..n
        BY <1>3, <3>2
      <4>2. trades'[i] = trades[i] /\ c[i] = b[i] /\ c[i - 1] = b[i - 1]
        BY <1>6, <2>4, <4>1
      <4> QED
        BY <1>3, <2>1, <4>1, <4>2 DEF Rooms
    <3> QED
      BY <3>1, <3>2
  <2>7. Rooms(c)'
    <3>1. c[n + 1] <= held' + gone'
      <4>1. c[n + 1] = room /\ held' + gone' = room /\ room <= room
        BY <1>2, <1>9, <2>2, <2>4
      <4> QED
        BY <4>1, Zenon
    <3> QED
      BY <1>6, <2>6, <3>1 DEF Rooms
  <2>8. hooks' = (k + 1)..(n + 1) /\ k \in 0..(n + 1)
    BY <1>2, <1>3, <2>1
  <2>9. Amount(entries', OpenIds(entries')) <= c[k]
    BY <1>2, <2>1, <2>4
  <2> QED
    BY <1>6, <2>4, <2>7, <2>8, <2>9 DEF InOrder
<1>8. hooks' \subseteq 1..Len(trades')
  <2>1. hooks \subseteq 1..n /\ 1..n \subseteq 1..(n + 1) /\ n + 1 \in 1..(n + 1)
    BY <1>3 DEF JournalInv
  <2> QED
    BY <1>2, <1>3, <1>6, <2>1
<1> QED
  BY <1>2, <1>4, <1>6, <1>7, <1>8, <1>9 DEF JournalInv, OldestFirst

\* A change of the position that no hook tells the journal of only makes room.
LEMMA UnjournalledKeeps ==
    ASSUME JournalInv, UNCHANGED <<trades, hooks, entries, disorder>>,
           NEW h \in Nat, NEW g \in Nat, held' = h, gone' = g, held + gone <= h + g
    PROVE  JournalInv'
<1>1. ASSUME InOrder PROVE InOrder'
  <2>1. PICK b \in [0..Len(trades) -> Nat], k \in 0..Len(trades) :
          Rooms(b) /\ hooks = (k + 1)..Len(trades) /\ Amount(entries, OpenIds(entries)) <= b[k]
    BY <1>1 DEF InOrder
  <2>2. Rooms(b)'
    <3>1. Len(trades) \in Nat /\ held \in Nat /\ gone \in Nat
      BY DEF JournalInv
    <3>2. b[Len(trades)] \in Nat
      BY <2>1, <3>1
    <3>3. b[Len(trades)] <= h + g
      BY <2>1, <3>1, <3>2 DEF Rooms
    <3>4. b[Len(trades)] <= held' + gone'
      BY <3>3, Zenon
    <3> QED
      BY <2>1, <3>4 DEF Rooms
  <2> QED
    BY <2>1, <2>2 DEF InOrder
<1> QED
  BY <1>1 DEF JournalInv, OldestFirst

LEMMA SettleQueuedKeeps == JournalInv /\ SettleQueued => JournalInv'
<1> SUFFICES ASSUME JournalInv, SettleQueued PROVE JournalInv'
  OBVIOUS
<1>1. PICK side \in {"BUY", "SELL"}, q \in Quantities :
        Filled(side, q) /\ gone' = IF side = "SELL" THEN gone + q ELSE gone
  BY DEF SettleQueued
<1>2. q \in Nat /\ held \in Nat /\ gone \in Nat
  BY <1>1, FilledCounts DEF JournalInv
<1>3. PICK h \in Nat : held' = h /\ IF side = "BUY" THEN h = held + q ELSE h = held - q
  BY <1>1, FilledCounts
<1>4. PICK g \in Nat : gone' = g /\ g = IF side = "SELL" THEN gone + q ELSE gone
  BY <1>1, <1>2
<1>5. held + gone <= h + g
  BY <1>2, <1>3, <1>4
<1> QED
  BY <1>3, <1>4, <1>5, UnjournalledKeeps DEF SettleQueued

LEMMA ResetAccountKeeps == JournalInv /\ ResetAccount => JournalInv'
<1> SUFFICES ASSUME JournalInv, ResetAccount PROVE JournalInv'
  OBVIOUS
<1>1. held \in Nat /\ gone \in Nat /\ held' = 0 /\ gone' = gone + held
  BY DEF JournalInv, ResetAccount
<1> QED
  <2>1. PICK g \in Nat : gone' = g /\ g = gone + held
    BY <1>1
  <2>2. held + gone <= 0 + g
    BY <1>1, <2>1
  <2> QED
    BY <1>1, <2>1, <2>2, UnjournalledKeeps DEF ResetAccount

\* A hook that runs in the order of its trade is the first of those that wait.
LEMMA FirstWaits ==
    ASSUME JournalInv, NEW n \in hooks, ~disorder, ~Overtakes(n)
    PROVE  /\ n \in 1..Len(trades)
           /\ \E b \in [0..Len(trades) -> Nat] :
                /\ Rooms(b)
                /\ hooks \ {n} = (n + 1)..Len(trades)
                /\ b[n - 1] \in Nat /\ b[n] \in Nat
                /\ Amount(entries, OpenIds(entries)) <= b[n - 1]
<1>1. PICK last \in Nat : last = Len(trades)
  BY DEF JournalInv
<1>2. PICK b \in [0..last -> Nat], k \in 0..last :
        Rooms(b) /\ hooks = (k + 1)..last /\ Amount(entries, OpenIds(entries)) <= b[k]
  BY <1>1 DEF JournalInv, InOrder
<1>3. n \in (k + 1)..last /\ k + 1 \in (k + 1)..last
  BY <1>2
<1>4. ~(k + 1 < n)
  BY <1>2, <1>3 DEF Overtakes
<1>5. n = k + 1
  BY <1>3, <1>4
<1>6. n - 1 = k /\ hooks \ {n} = (n + 1)..last /\ n \in 0..last
  BY <1>2, <1>5, <1>3
<1> QED
  BY <1>1, <1>2, <1>3, <1>6

LEMMA JournalBuyKeeps ==
    ASSUME JournalInv, NEW n, JournalBuy(n)
    PROVE  JournalInv'
<1>1. /\ n \in hooks /\ trades[n].side = "BUY" /\ hooks' = hooks \ {n}
      /\ trades' = trades /\ held' = held /\ gone' = gone
      /\ disorder' = (disorder \/ Overtakes(n))
      /\ entries' = Append(entries, [quantity |-> trades[n].quantity, price |-> trades[n].price,
                                     status |-> "OPEN", soldFor |-> 0, by |-> 0])
  BY DEF JournalBuy
<1>2. n \in 1..Len(trades) /\ trades[n] \in Orders
  BY <1>1 DEF JournalInv
<1>3. PICK e \in Entries : entries' = Append(entries, e) /\ IsOpen(e) /\ e.quantity = trades[n].quantity
  <2>1. PICK e : e = [quantity |-> trades[n].quantity, price |-> trades[n].price, status |-> "OPEN", soldFor |-> 0, by |-> 0]
    OBVIOUS
  <2>2. e \in Entries /\ IsOpen(e) /\ e.quantity = trades[n].quantity
    BY <1>2, <2>1 DEF Entries, Orders, IsOpen
  <2> QED
    BY <1>1, <2>1, <2>2
<1>4. entries \in Seq(Entries)
  BY DEF JournalInv
<1>5. entries' \in Seq(Entries)
  BY <1>3, <1>4
<1>6. OldestFirst'
  <2>1. PICK last \in Nat : last = Len(entries) /\ DOMAIN entries = 1..last /\ DOMAIN entries' = 1..(last + 1)
                            /\ entries'[last + 1] = e /\ \A i \in 1..last : entries'[i] = entries[i]
    BY <1>3, <1>4
  <2>2. ASSUME NEW i \in 1..(last + 1), NEW j \in 1..(last + 1), i < j, ~IsOpen(entries'[j]) PROVE ~IsOpen(entries'[i])
    <3>1. j # last + 1
      BY <1>3, <2>1, <2>2
    <3>2. i \in 1..last /\ j \in 1..last
      BY <2>2, <3>1
    <3> QED
      BY <2>1, <2>2, <3>2 DEF JournalInv, OldestFirst
  <2> QED
    BY <2>1, <2>2 DEF OldestFirst
<1>7. ASSUME ~disorder' PROVE InOrder'
  <2>1. ~disorder /\ ~Overtakes(n)
    BY <1>1, <1>7
  <2>2. PICK b \in [0..Len(trades) -> Nat] :
          /\ Rooms(b) /\ hooks \ {n} = (n + 1)..Len(trades) /\ b[n - 1] \in Nat /\ b[n] \in Nat
          /\ Amount(entries, OpenIds(entries)) <= b[n - 1]
    BY <1>1, <2>1, FirstWaits
  <2>3. b[n - 1] + trades[n].quantity <= b[n]
    BY <1>1, <1>2, <2>2 DEF Rooms
  <2>4. /\ Amount(entries, OpenIds(entries)) \in Nat
        /\ Amount(entries', OpenIds(entries')) = Amount(entries, OpenIds(entries)) + trades[n].quantity
    BY <1>3, <1>4, BuyOpens
  <2>5. trades[n].quantity \in Nat /\ n \in 0..Len(trades)
    BY <1>2 DEF Orders
  <2>6. Amount(entries', OpenIds(entries')) <= b[n]
    BY <2>2, <2>3, <2>4, <2>5
  <2>7. Rooms(b)'
    BY <1>1, <2>2 DEF Rooms
  <2> QED
    BY <1>1, <2>2, <2>5, <2>6, <2>7 DEF InOrder
<1> QED
  BY <1>1, <1>5, <1>6, <1>7 DEF JournalInv

LEMMA JournalSellKeeps ==
    ASSUME JournalInv, NEW n, JournalSell(n)
    PROVE  JournalInv'
<1>1. /\ n \in hooks /\ trades[n].side = "SELL" /\ hooks' = hooks \ {n}
      /\ trades' = trades /\ held' = held /\ gone' = gone
      /\ disorder' = (disorder \/ Overtakes(n))
  BY DEF JournalSell
<1>2. n \in 1..Len(trades) /\ trades[n] \in Orders
  BY <1>1 DEF JournalInv
<1>3. PICK q \in Nat, p \in Nat : q = trades[n].quantity /\ p = trades[n].price
  BY <1>2 DEF Orders
<1>4. entries' = Sold(entries, q, p, n)
  BY <1>3 DEF JournalSell, Closes, Before, Sold
<1>5. /\ entries' \in Seq(Entries) /\ OldestFirst'
      /\ Amount(entries, OpenIds(entries)) \in Nat /\ Amount(entries', OpenIds(entries')) \in Nat
      /\ \/ Amount(entries', OpenIds(entries')) = 0
         \/ Amount(entries', OpenIds(entries')) <= Amount(entries, OpenIds(entries)) - q
  <2>1. entries \in Seq(Entries) /\ n \in Nat
        /\ \A i, j \in DOMAIN entries : i < j /\ ~IsOpen(entries[j]) => ~IsOpen(entries[i])
    BY <1>2 DEF JournalInv, OldestFirst
  <2> QED
    BY <1>4, <2>1, SaleCloses DEF OldestFirst
<1>6. ASSUME ~disorder' PROVE InOrder'
  <2>1. ~disorder /\ ~Overtakes(n)
    BY <1>1, <1>6
  <2>2. PICK b \in [0..Len(trades) -> Nat] :
          /\ Rooms(b) /\ hooks \ {n} = (n + 1)..Len(trades) /\ b[n - 1] \in Nat /\ b[n] \in Nat
          /\ Amount(entries, OpenIds(entries)) <= b[n - 1]
    BY <1>1, <2>1, FirstWaits
  <2>3. ~(trades[n].side = "BUY")
    BY <1>1
  <2>4. b[n - 1] - q <= b[n]
    BY <1>2, <1>3, <2>2, <2>3 DEF Rooms
  <2>5. Amount(entries', OpenIds(entries')) <= b[n]
    BY <1>3, <1>5, <2>2, <2>4, StillRoom, Zenon
  <2>6. Rooms(b)' /\ n \in 0..Len(trades)
    BY <1>1, <1>2, <2>2 DEF Rooms
  <2> QED
    BY <1>1, <2>2, <2>5, <2>6 DEF InOrder
<1> QED
  BY <1>1, <1>5, <1>6 DEF JournalInv

LEMMA JournalSteps == JournalInv /\ [JournalNext]_journalVars => JournalInv'
<1> SUFFICES ASSUME JournalInv, [JournalNext]_journalVars PROVE JournalInv'
  OBVIOUS
<1>1. CASE LoseHooks
  BY <1>1 DEF LoseHooks, JournalInv, OldestFirst
<1>2. CASE UNCHANGED journalVars
  BY <1>2 DEF journalVars, JournalInv, OldestFirst, InOrder, Rooms
<1> QED
  BY <1>1, <1>2, TradeKeeps, SettleQueuedKeeps, ResetAccountKeeps, JournalBuyKeeps, JournalSellKeeps DEF JournalNext

LEMMA JournalImplies == JournalInv => ClosedInOrder
<1> SUFFICES ASSUME JournalInv PROVE ClosedInOrder
  OBVIOUS
<1>1. ASSUME ~disorder, hooks = {} PROVE Amount(entries, OpenIds(entries)) <= held + gone
  <2>1. PICK last \in Nat : last = Len(trades)
    BY DEF JournalInv
  <2>2. PICK b \in [0..last -> Nat], k \in 0..last :
          Rooms(b) /\ hooks = (k + 1)..last /\ Amount(entries, OpenIds(entries)) <= b[k]
    BY <1>1, <2>1 DEF JournalInv, InOrder
  <2>3. k = last
    <3>1. ~(k < last)
      <4>1. k < last => k + 1 \in (k + 1)..last
        OBVIOUS
      <4> QED
        BY <1>1, <2>2, <4>1
    <3> QED
      BY <3>1
  <2>4. held \in Nat /\ gone \in Nat /\ b[last] \in Nat /\ b[last] <= held + gone
    BY <2>1, <2>2 DEF JournalInv, Rooms
  <2>5. Amount(entries, OpenIds(entries)) \in Nat
    <3>1. \A T \in SUBSET DOMAIN entries : Amount(entries, T) \in Nat
      BY AmountTable DEF JournalInv
    <3> QED
      BY <3>1 DEF OpenIds
  <2> QED
    BY <2>2, <2>3, <2>4, <2>5
<1> QED
  BY <1>1 DEF ClosedInOrder, JournalInv, OldestFirst

-----------------------------------------------------------------------------
(* The services together.  A service that no request is for is as it began. *)

AtRest == Tables /\ opened = {} /\ freeUses = [u \in Ids |-> [d \in Days |-> 0]]

MembershipHolds == IF focus = "membership" THEN AccountsInv /\ TermsInv /\ UsesInv ELSE AtRest
FeedHolds == IF focus = "feed" THEN FeedInv ELSE owed = {}
WatchlistHolds == IF focus = "watchlist" THEN WatchlistInv ELSE applied = <<>>
UserInv == MembershipHolds /\ FeedHolds /\ WatchlistHolds /\ JournalInv

LEMMA UserBegins == UserInit => UserInv
<1> SUFFICES ASSUME UserInit PROVE UserInv
  OBVIOUS
<1>1. PoolInit /\ MembershipInit /\ FeedInit /\ WatchlistInit /\ JournalInit
  BY DEF UserInit
<1>2. AccountsInv
  BY <1>1, TablesInit DEF AccountsInv, Requests, Pool, Fits, PoolInit
<1>3. AtRest
  BY <1>1, TablesInit DEF AtRest, MembershipInit
<1>4. owed = {} /\ applied = <<>>
  BY <1>1 DEF FeedInit, WatchlistInit
<1> QED
  BY <1>1, <1>2, <1>3, <1>4, TermsInit, UsesInit, FeedBegins, WatchlistBegins, JournalBegins
     DEF UserInv, MembershipHolds, FeedHolds, WatchlistHolds

LEMMA MembershipHoldsOn == UserInv /\ [UserNext]_serviceVars => MembershipHolds'
<1> SUFFICES ASSUME UserInv, [UserNext]_serviceVars PROVE MembershipHolds'
  OBVIOUS
<1>1. focus' = focus
  BY DEF UserNext, serviceVars
<1>2. CASE MembershipStep
  BY <1>1, <1>2, AccountsStep, TermsStep, UsesStep DEF MembershipStep, UserInv, MembershipHolds
<1>3. CASE focus # "membership" /\ UNCHANGED membershipVars
  <2>1. Tables'
    BY <1>3, TablesStay DEF UserInv, MembershipHolds, AtRest, membershipVars
  <2> QED
    BY <1>1, <1>3, <2>1 DEF UserInv, MembershipHolds, AtRest, membershipVars, entitled
<1>4. CASE focus = "membership" /\ UNCHANGED serviceVars
  <2>1. UNCHANGED <<pc, frame, users, sessions, subs, daily, bought, opened, freeUses, preview, today>>
    BY <1>4 DEF serviceVars, pool, membershipVars, identities, entitled
  <2>2. AccountsInv /\ TermsInv /\ UsesInv
    BY <1>4 DEF UserInv, MembershipHolds
  <2>3. AccountsInv'
    BY <2>1, <2>2, TablesStay DEF AccountsInv, Requests, Pool, identities
  <2>4. TermsInv'
    BY <2>1, <2>2 DEF TermsInv, Terms, OpenedWithinTerm, Asked, At
  <2>5. UsesInv'
    <3>1. \A u \in Ids : Counting(u)' = Counting(u)
      BY <2>1 DEF Counting, At
    <3> QED
      BY <2>1, <2>2, <3>1 DEF UsesInv, Uses, Most
  <2> QED
    BY <1>1, <1>4, <2>3, <2>4, <2>5 DEF MembershipHolds
<1> QED
  BY <1>2, <1>3, <1>4 DEF UserNext, FeedStep, WatchlistStep, JournalStep, MembershipStep, serviceVars

LEMMA FeedHoldsOn == UserInv /\ [UserNext]_serviceVars => FeedHolds'
<1> SUFFICES ASSUME UserInv, [UserNext]_serviceVars PROVE FeedHolds'
  OBVIOUS
<1>1. focus' = focus
  BY DEF UserNext, serviceVars
<1>2. CASE FeedStep
  BY <1>1, <1>2, FeedSteps DEF FeedStep, UserInv, FeedHolds
<1>3. CASE focus # "feed" /\ UNCHANGED feedVars
  BY <1>1, <1>3 DEF UserInv, FeedHolds, feedVars
<1>4. CASE focus = "feed" /\ UNCHANGED serviceVars
  <2>1. UNCHANGED <<pc, frame, inbox, lastHealth, lastBest, heard, owed>>
    BY <1>4 DEF serviceVars, pool, feedVars, seen
  <2>2. FeedInv
    BY <1>4 DEF UserInv, FeedHolds
  <2>3. ChangesReachAnInbox'
    BY <2>1, <2>2 DEF FeedInv, ChangesReachAnInbox, InFlight, Holds, At
  <2>4. FeedInv'
    BY <2>1, <2>2, <2>3 DEF FeedInv, FeedRequests, Pool, Inboxes, Ordered, Remembers
  <2> QED
    BY <1>1, <1>4, <2>4 DEF FeedHolds
<1> QED
  BY <1>2, <1>3, <1>4 DEF UserNext, FeedStep, WatchlistStep, JournalStep, MembershipStep, serviceVars

LEMMA WatchlistHoldsOn == UserInv /\ [UserNext]_serviceVars => WatchlistHolds'
<1> SUFFICES ASSUME UserInv, [UserNext]_serviceVars PROVE WatchlistHolds'
  OBVIOUS
<1>1. focus' = focus
  BY DEF UserNext, serviceVars
<1>2. CASE WatchlistStep
  BY <1>1, <1>2, WatchlistSteps DEF WatchlistStep, UserInv, WatchlistHolds
<1>3. CASE focus # "watchlist" /\ UNCHANGED watchlistVars
  BY <1>1, <1>3 DEF UserInv, WatchlistHolds, watchlistVars
<1>4. CASE focus = "watchlist" /\ UNCHANGED serviceVars
  <2>1. UNCHANGED <<pc, frame, applied>>
    BY <1>4 DEF serviceVars, pool, watchlistVars
  <2>2. WatchlistInv
    BY <1>4 DEF UserInv, WatchlistHolds
  <2>3. WatchlistInv'
    BY <2>1, <2>2, WatchlistSame
  <2> QED
    BY <1>1, <1>4, <2>3 DEF WatchlistHolds
<1> QED
  BY <1>2, <1>3, <1>4 DEF UserNext, FeedStep, WatchlistStep, JournalStep, MembershipStep, serviceVars

LEMMA JournalHoldsOn == UserInv /\ [UserNext]_serviceVars => JournalInv'
<1>1. [UserNext]_serviceVars => [JournalNext]_journalVars
  BY DEF UserNext, MembershipStep, FeedStep, WatchlistStep, JournalStep, serviceVars
<1> QED
  BY <1>1, JournalSteps DEF UserInv

\* Accounts, terms, uses, inboxes, applied symbols and the journal stay in order together.
THEOREM UserInvariance == UserSpec => []UserInv
<1>1. UserInv /\ [UserNext]_serviceVars => UserInv'
  BY MembershipHoldsOn, FeedHoldsOn, WatchlistHoldsOn, JournalHoldsOn DEF UserInv
<1> QED
  BY <1>1, UserBegins, PTL DEF UserSpec

\* Whatever registrations, logins and social sign-ins run at once, a session is
\* one of the account whose credentials were shown, and of no other account with
\* its address (auth/service.py).
THEOREM SessionsAreOwn == UserSpec => []SessionsMatchCredentials
<1>1. UserInv => SessionsMatchCredentials
  <2> SUFFICES ASSUME Tables PROVE SessionsMatchCredentials
    BY DEF UserInv, MembershipHolds, AccountsInv, AtRest
  <2>1. ASSUME NEW s \in sessions PROVE WithEmail(users[s.user].email) = {s.user}
    <3>1. s.user \in 1..Len(users)
      BY DEF Tables, Sessions
    <3>2. DOMAIN users = 1..Len(users)
      BY LenProperties DEF Tables, Accounts
    <3> QED
      BY <3>1, <3>2 DEF Tables, Accounts, WithEmail
  <2> QED
    BY <2>1 DEF Tables, Sessions, Matches, SessionsMatchCredentials
<1> QED
  BY <1>1, UserInvariance, PTL

\* A paid feature is opened only within the term of a purchase that covers it,
\* however upgrades, expiries and questions interleave (subscription/service.py).
THEOREM PaidForWhenOpened == UserSpec => []OpenedWithinTerm
<1>1. UserInv => OpenedWithinTerm
  BY DEF UserInv, MembershipHolds, TermsInv, AtRest, OpenedWithinTerm
<1> QED
  BY <1>1, UserInvariance, PTL

\* The free analyses of a day exceed the limit by no more than the requests that
\* were between the check and the count (subscription/store.py).
THEOREM FreeUsesAreBounded == UserSpec => []OverrunIsInFlight
<1>1. UserInv => OverrunIsInFlight
  <2>1. Most \in Nat /\ Most > 0
    BY Threaded DEF Most
  <2> QED
    BY <2>1 DEF UserInv, MembershipHolds, UsesInv, Uses, AtRest, OverrunIsInFlight, Most
<1> QED
  BY <1>1, UserInvariance, PTL

\* No change of a health score or of the best market that one evaluation was told
\* is lost between two requests (notifications/service.py).
THEOREM NoChangeIsLost == UserSpec => []ChangesReachAnInbox
<1>1. UserInv => ChangesReachAnInbox
  BY DEF UserInv, FeedHolds, FeedInv, ChangesReachAnInbox
<1> QED
  BY <1>1, UserInvariance, PTL

\* As many requests as threads, and no more, ever apply one symbol
\* (auto_watchlist/service.py).
THEOREM DuplicatesAreBounded == UserSpec => []DuplicatesAreInFlight
<1>1. UserInv => DuplicatesAreInFlight
  <2>1. CASE applied = <<>>
    <3>1. \A k \in Keys : {applied[i].request : i \in {j \in DOMAIN applied : applied[j].key = k}} = {}
      BY <2>1
    <3> QED
      BY <3>1, Threaded, FS_EmptySet DEF DuplicatesAreInFlight
  <2> QED
    BY <2>1, WatchlistImplies DEF UserInv, WatchlistHolds
<1> QED
  BY <1>1, UserInvariance, PTL

\* The oldest entries are closed first, whatever order the hooks run in, and as long as
\* every hook has run in the order of its trade, the journal never shows more shares open
\* than the simulation holds: for any number of trades of any quantities.
THEOREM SalesCloseInOrder == UserSpec => []ClosedInOrder
<1>1. UserInv => ClosedInOrder
  BY JournalImplies DEF UserInv
<1> QED
  BY <1>1, UserInvariance, PTL

=============================================================================
