-------------------------- MODULE LiveAccount_proofs --------------------------
(***************************************************************************)
(* Theorems about what is kept of the live accounts, for any threads,      *)
(* requests, users, brokers, names and files: the sums over a user's       *)
(* brokers, the files of the owner's ledgers, and the strategy's ledger.   *)
(***************************************************************************)
EXTENDS LiveOrders, FiniteSetTheorems, SequenceTheorems, WellFoundedInduction, TLAPS

-----------------------------------------------------------------------------
(* The sums over a user's brokers. *)

Answers == [next : {"account", "positions", "none"}, funded : BOOLEAN, held : BOOLEAN, failed : BOOLEAN]

\* A worker that has asked for the account either has it or has reported the failure.
Accounted(answer) == answer.next # "account" => answer.funded \/ answer.failed

Routes == {"portfolio", "performance", "snapshot"}

Collecting(f) ==
    /\ f.op \in Routes
    /\ f = [op |-> f.op, user |-> f.user, asked |-> f.asked]
    /\ f.asked \in [DOMAIN f.asked -> Answers]
    /\ \A r \in DOMAIN f.asked : Accounted(f.asked[r])

Merged(f) ==
    \A r \in f.listed \ f.equity :
        \/ r.broker \in f.errors
        \/ \E other \in f.listed \ {r} : other.broker = r.broker

Answered == {"shown", "performance", "snapshot"}

\* What the threads hold at each label.
Good(l, f) ==
    /\ l = "collect" => Collecting(f)
    /\ l \in Answered => Merged(f)

SumsInv ==
    /\ pc = [t \in Threads |-> pc[t]]
    /\ frame = [t \in Threads |-> frame[t]]
    /\ \A t \in Threads : Good(pc[t], frame[t])

\* A step that takes one thread to a label with the locals that this wants.
LEMMA MovedOn ==
    ASSUME SumsInv, NEW t \in Threads, NEW l, NEW f, Good(l, f),
           pc' = [pc EXCEPT ![t] = l], frame' = [frame EXCEPT ![t] = f]
    PROVE  SumsInv'
<1>1. \A u \in Threads : Good(pc'[u], frame'[u])
  BY DEF SumsInv
<1> QED
  BY <1>1 DEF SumsInv, Good

LEMMA IdleIsGood == ASSUME NEW l \in {"idle", "insert", "delete"}, NEW f PROVE Good(l, f)
BY DEF Good, Answered

LEMMA LinkStep == ASSUME SumsInv, LinkNext PROVE SumsInv'
<1>1. PICK t \in Threads : StartLink(t) \/ InsertLink(t) \/ StartUnlink(t) \/ DeleteLink(t)
  BY DEF LinkNext
<1>2. \E l \in {"idle", "insert", "delete"} : \E f :
        pc' = [pc EXCEPT ![t] = l] /\ frame' = [frame EXCEPT ![t] = f]
  BY <1>1 DEF StartLink, InsertLink, StartUnlink, DeleteLink, Begin, Done, Go
<1> QED
  BY <1>2, IdleIsGood, MovedOn

LEMMA StartStep == ASSUME SumsInv, NEW t \in Threads, StartPortfolio(t) PROVE SumsInv'
<1>1. PICK u \in Clients, route \in Routes :
        Begin(t, "collect", [op |-> route, user |-> u, asked |-> [r \in {l \in links : l.user = u} |-> Unasked]])
  BY DEF StartPortfolio, Routes
<1> DEFINE own == {l \in links : l.user = u}
           f == [op |-> route, user |-> u, asked |-> [r \in own |-> Unasked]]
<1>2. Unasked \in Answers /\ Accounted(Unasked)
  BY DEF Unasked, Answers, Accounted
<1> HIDE DEF own
<1>3. Collecting(f)
  BY <1>2 DEF Collecting
<1>4. pc' = [pc EXCEPT ![t] = "collect"] /\ frame' = [frame EXCEPT ![t] = f]
  BY <1>1 DEF Begin, own
<1> HIDE DEF f
<1>5. Good("collect", f)
  BY <1>3 DEF Good, Answered
<1> QED
  BY <1>4, <1>5, MovedOn

\* An answer keeps the promise of each worker.
LEMMA AnswerStep ==
    ASSUME SumsInv, NEW t \in Threads, At(t, "collect"),
           NEW r \in DOMAIN frame[t].asked, NEW a \in Answers, Accounted(a), Answer(t, r, a)
    PROVE  SumsInv'
<1>1. Collecting(frame[t])
  BY DEF SumsInv, Good, At
<1> DEFINE f == [frame[t] EXCEPT !.asked[r] = a]
           asked == [frame[t].asked EXCEPT ![r] = a]
<1>2. f = [op |-> frame[t].op, user |-> frame[t].user, asked |-> asked] /\ frame[t].op \in Routes
  BY <1>1 DEF Collecting
<1>3. /\ asked \in [DOMAIN asked -> Answers]
      /\ \A s \in DOMAIN asked : Accounted(asked[s])
  BY <1>1 DEF Collecting
<1>4. pc' = [pc EXCEPT ![t] = "collect"] /\ frame' = [frame EXCEPT ![t] = f]
  BY DEF Answer, Go
<1> HIDE DEF asked
<1>5. Collecting(f)
  BY <1>2, <1>3 DEF Collecting
<1> HIDE DEF f
<1>6. Good("collect", f)
  BY <1>5 DEF Good, Answered
<1> QED
  BY <1>4, <1>6, MovedOn

LEMMA AskStep == ASSUME SumsInv, NEW t \in Threads, AskAccount(t) \/ AskPositions(t) PROVE SumsInv'
<1>1. At(t, "collect") /\ Collecting(frame[t])
  BY DEF AskAccount, AskPositions, At, SumsInv, Good
<1>2. CASE AskAccount(t)
  <2>1. PICK r \in DOMAIN frame[t].asked, up \in BOOLEAN :
          Answer(t, r, [Unasked EXCEPT !.next = "positions", !.funded = up, !.failed = ~up])
    BY <1>2 DEF AskAccount
  <2> DEFINE a == [Unasked EXCEPT !.next = "positions", !.funded = up, !.failed = ~up]
  <2>2. a \in Answers /\ Accounted(a)
    BY DEF Unasked, Answers, Accounted
  <2>3. Answer(t, r, a)
    BY <2>1
  <2> HIDE DEF a
  <2> QED
    BY <1>1, <2>2, <2>3, AnswerStep
<1>3. CASE AskPositions(t)
  <2>1. PICK r \in DOMAIN frame[t].asked, answer \in {"in", "down", "raised"} :
          /\ frame[t].asked[r].next = "positions"
          /\ Answer(t, r, [frame[t].asked[r] EXCEPT !.next = "none", !.held = answer = "in",
                                                    !.failed = @ \/ answer = "raised"])
    BY <1>3 DEF AskPositions
  <2> DEFINE had == frame[t].asked[r]
             a == [had EXCEPT !.next = "none", !.held = answer = "in", !.failed = @ \/ answer = "raised"]
  <2>2. had \in Answers /\ Accounted(had) /\ had.next = "positions"
    BY <1>1, <2>1 DEF Collecting
  <2>3. Answer(t, r, a)
    BY <2>1
  <2> HIDE DEF had
  <2>4. a \in Answers
    BY <2>2 DEF Answers
  <2>5. had.funded \/ had.failed
    BY <2>2 DEF Accounted
  <2>6. a.funded \/ a.failed
    BY <2>2, <2>5 DEF Answers
  <2> HIDE DEF a
  <2> QED
    BY <1>1, <2>3, <2>4, <2>6, AnswerStep DEF Accounted
<1> QED
  BY <1>2, <1>3

\* A link that has reported has its account in the sum or its broker in the errors; one
\* that has not is timed out, unless its broker was heard of through another link.
LEMMA MergeStep == ASSUME SumsInv, NEW t \in Threads, Merge(t) PROVE SumsInv'
<1> DEFINE f == frame[t]
           reported == {r \in DOMAIN f.asked : f.asked[r].next = "none"}
           errors == BrokersOf({r \in reported : f.asked[r].failed}) \cup TimedOut(f.asked, reported)
           merged == [op |-> f.op, user |-> f.user, listed |-> DOMAIN f.asked,
                      equity |-> {r \in reported : f.asked[r].funded},
                      holdings |-> {r \in reported : f.asked[r].held},
                      errors |-> errors, baseline |-> {}]
           next == IF f.op = "portfolio" THEN "shown" ELSE f.op
<1>1. Collecting(f)
  BY DEF SumsInv, Good, Merge, At
<1>2. pc' = [pc EXCEPT ![t] = next] /\ frame' = [frame EXCEPT ![t] = merged]
  BY DEF Merge, Go
<1>3. ASSUME NEW r \in DOMAIN f.asked, r \notin {s \in reported : f.asked[s].funded}
      PROVE  \/ r.broker \in errors
             \/ \E other \in DOMAIN f.asked \ {r} : other.broker = r.broker
  <2>1. CASE r \in reported
    <3>1. f.asked[r].failed
      BY <1>1, <1>3, <2>1 DEF Collecting, Accounted
    <3> QED
      BY <2>1, <3>1 DEF BrokersOf
  <2>2. CASE r \notin reported
    <3>1. CASE r.broker \in BrokersOf(reported)
      BY <2>2, <3>1 DEF BrokersOf
    <3>2. CASE r.broker \notin BrokersOf(reported)
      BY <3>2 DEF TimedOut, BrokersOf
    <3> QED
      BY <3>1, <3>2
  <2> QED
    BY <2>1, <2>2
<1>4. Merged(merged)
  <2> HIDE DEF errors, reported
  <2> QED
    BY <1>3 DEF Merged
<1>5. next # "collect"
  <2>1. f.op # "collect"
    BY <1>1 DEF Collecting, Routes
  <2> QED
    BY <2>1
<1> HIDE DEF merged, next
<1>6. Good(next, merged)
  BY <1>4, <1>5 DEF Good
<1> QED
  BY <1>2, <1>6, MovedOn

\* The baseline is added to what was merged.
LEMMA RouteStep ==
    ASSUME SumsInv, NEW t \in Threads, StoreSnapshot(t) \/ Compare(t) \/ ShowPortfolio(t)
    PROVE  SumsInv'
<1>1. CASE StoreSnapshot(t) \/ ShowPortfolio(t)
  <2>1. pc' = [pc EXCEPT ![t] = "idle"] /\ frame' = [frame EXCEPT ![t] = NoFrame]
    BY <1>1 DEF StoreSnapshot, ShowPortfolio, Done, Go
  <2> QED
    BY <2>1, IdleIsGood, MovedOn
<1>2. CASE Compare(t)
  <2> DEFINE f == [frame[t] EXCEPT !.baseline = Baselines(frame[t].user)]
  <2>1. Merged(frame[t])
    BY <1>2 DEF Compare, At, SumsInv, Good, Answered
  <2>2. f.listed = frame[t].listed /\ f.equity = frame[t].equity /\ f.errors = frame[t].errors
    OBVIOUS
  <2>3. pc' = [pc EXCEPT ![t] = "shown"] /\ frame' = [frame EXCEPT ![t] = f]
    BY <1>2 DEF Compare, Go
  <2> HIDE DEF f
  <2>4. Good("shown", f)
    BY <2>1, <2>2 DEF Good, Merged
  <2> QED
    BY <2>3, <2>4, MovedOn
<1> QED
  BY <1>1, <1>2

\* Whatever brokers answer before the deadline, and whoever links or unlinks one
\* meanwhile, a broker that a sum leaves out is named in it, unless another link of it
\* came through.
THEOREM SumsNameWhatTheyLack == BrokersSpec => []AbsentBrokersAreNamed
<1>1. PoolInit => SumsInv
  BY IdleIsGood DEF PoolInit, SumsInv
<1>2. SumsInv /\ [BrokersNext]_<<pool, linkVars, portfolioVars>> => SumsInv'
  <2> SUFFICES ASSUME SumsInv, [BrokersNext]_<<pool, linkVars, portfolioVars>> PROVE SumsInv'
    OBVIOUS
  <2>1. CASE UNCHANGED <<pc, frame>>
    BY <2>1 DEF SumsInv, Good
  <2>2. CASE LinkNext
    BY <2>2, LinkStep
  <2>3. CASE PortfolioNext /\ ~UNCHANGED <<pc, frame>>
    <3>1. PICK t \in Threads :
            \/ StartPortfolio(t) \/ AskAccount(t) \/ AskPositions(t) \/ Merge(t)
            \/ StoreSnapshot(t) \/ Compare(t) \/ ShowPortfolio(t)
      BY <2>3 DEF PortfolioNext, Midnight, pool
    <3> QED
      BY <3>1, StartStep, AskStep, MergeStep, RouteStep
  <2> QED
    BY <2>1, <2>2, <2>3 DEF BrokersNext, pool
<1>3. SumsInv => AbsentBrokersAreNamed
  BY DEF SumsInv, Good, Merged, Answered, AbsentBrokersAreNamed
<1> QED
  BY <1>1, <1>2, <1>3, PTL DEF BrokersSpec

-----------------------------------------------------------------------------
(* The files.  As long as no two requests have been saving a file at once,   *)
(* one thread at a time has its temporary file, which holds that thread's    *)
(* data when it is renamed.                                                  *)

Pool == pc = [t \in Threads |-> pc[t]] /\ frame = [t \in Threads |-> frame[t]]

\* Thread t goes to l with the locals f, the others stay where they are.
Moved(t, l, f) ==
    /\ Pool'
    /\ pc'[t] = l /\ frame'[t] = f
    /\ \A u \in Threads : u # t => pc'[u] = pc[u] /\ frame'[u] = frame[u]

\* A thread that goes on leaves the others where they are.
LEMMA Moves ==
    ASSUME Pool, NEW t \in Threads, NEW l, NEW f, Begin(t, l, f) \/ Go(t, l, f)
    PROVE  Moved(t, l, f)
BY DEF Pool, Moved, Begin, Go

\* A file that two requests have not been saving at once.
Apart(f) ==
    /\ disk[f] # Torn
    /\ \A t, o \in Threads : Saving(t, f) /\ Saving(o, f) => t = o
    /\ \A t \in Threads : Saving(t, f) =>
         /\ At(t, "write") => handle[t] = "temp" /\ temp[f] = Torn
         /\ At(t, "replace") => temp[f] = Json(frame[t].data)

FileInv ==
    /\ Pool
    /\ disk = [f \in Files |-> disk[f]] /\ temp = [f \in Files |-> temp[f]]
    /\ handle = [t \in Threads |-> handle[t]]
    /\ \A t \in Threads : pc[t] \in {"open", "write", "replace"} => frame[t].file \in Files
    /\ \A f \in Files \ shared : Apart(f)

\* What a file may hold: nothing, a torn text or a whole one, which are told apart.
LEMMA Texts == Absent # Torn /\ \A data : Json(data) # Torn /\ Json(data) # Absent
<1>1. Absent.text = "absent" /\ Torn.text = "torn" /\ \A data : Json(data).text = "json"
  BY DEF Absent, Torn, Json
<1> QED
  BY <1>1

LEMMA FileBegins ==
    ASSUME PoolInit, FileInit
    PROVE  FileInv
BY Texts DEF PoolInit, FileInit, FileInv, Pool, Apart, Saving, At

LEMMA FilesStay ==
    ASSUME FileInv, UNCHANGED <<pc, frame, disk, temp, handle, shared>>
    PROVE  FileInv'
BY DEF FileInv, Pool, Apart, Saving, At

\* A thread that is not saving goes on to something else, or is about to save.
LEMMA FilesWait ==
    ASSUME FileInv, NEW t \in Threads, NEW l, NEW f, Begin(t, l, f) \/ Go(t, l, f), UNCHANGED fileVars,
           pc[t] \notin {"write", "replace"}, l \notin {"write", "replace"}, l = "open" => f.file \in Files
    PROVE  FileInv'
<1>1. Moved(t, l, f) /\ UNCHANGED <<disk, temp, handle, shared>>
  BY Moves DEF FileInv, fileVars
<1>2. \A u \in Threads, g \in Files : Saving(u, g)' <=> Saving(u, g)
  BY <1>1 DEF Moved, Saving, At
<1>3. \A u \in Threads, g \in Files : Saving(u, g) => UNCHANGED <<pc[u], frame[u]>>
  BY <1>1 DEF Moved, Saving, At
<1>4. \A g \in Files \ shared' : Apart(g)'
  BY <1>1, <1>2, <1>3 DEF FileInv, Apart, At
<1> QED
  BY <1>1, <1>4 DEF FileInv, Moved

\* No thread is in a save any more.
LEMMA FilesRest ==
    ASSUME FileInv, UNCHANGED <<disk, temp, shared>>,
           pc' = [t \in Threads |-> "idle"], frame' = [t \in Threads |-> NoFrame], handle' = [t \in Threads |-> Closed]
    PROVE  FileInv'
BY DEF FileInv, Pool, Apart, Saving, At

LEMMA OpenKeeps ==
    ASSUME FileInv, NEW t \in Threads, OpenTemp(t)
    PROVE  FileInv'
<1>1. PICK g : g = frame[t].file /\ g \in Files
  BY DEF FileInv, OpenTemp, At
<1>2. /\ temp' = [temp EXCEPT ![g] = Torn] /\ handle' = [handle EXCEPT ![t] = "temp"] /\ disk' = disk
      /\ shared' = IF \E o \in Threads : Saving(o, g) THEN shared \cup {g} ELSE shared
      /\ Go(t, "write", frame[t]) /\ pc[t] = "open"
  BY <1>1 DEF OpenTemp, At
<1>3. Moved(t, "write", frame[t])
  BY <1>2, Moves DEF FileInv
<1>4. /\ \A u \in Threads : u # t => UNCHANGED <<pc[u], frame[u], handle[u]>>
      /\ pc'[t] = "write" /\ frame'[t] = frame[t] /\ handle'[t] = "temp"
      /\ \A h \in Files : h # g => temp'[h] = temp[h]
      /\ temp'[g] = Torn
  BY <1>1, <1>2, <1>3 DEF Moved, FileInv
<1>5. /\ \A u \in Threads, h \in Files : u # t => (Saving(u, h)' <=> Saving(u, h))
      /\ \A h \in Files : Saving(t, h)' <=> h = g
  BY <1>1, <1>4 DEF Saving, At
<1>6. ASSUME NEW h \in Files \ shared', h # g PROVE Apart(h)'
  BY <1>2, <1>4, <1>5, <1>6 DEF FileInv, Apart, At
<1>7. ASSUME g \notin shared' PROVE Apart(g)'
  <2>1. g \notin shared /\ \A o \in Threads : ~Saving(o, g)
    BY <1>2, <1>7
  <2>2. \A u \in Threads : Saving(u, g)' <=> u = t
    BY <1>1, <1>5, <2>1
  <2> QED
    BY <1>1, <1>2, <1>4, <2>1, <2>2 DEF FileInv, Apart, At
<1>8. disk' = [f \in Files |-> disk'[f]] /\ temp' = [f \in Files |-> temp'[f]] /\ handle' = [u \in Threads |-> handle'[u]]
  BY <1>2 DEF FileInv
<1>9. \A u \in Threads : pc'[u] \in {"open", "write", "replace"} => frame'[u].file \in Files
  BY <1>1, <1>4 DEF FileInv
<1> QED
  BY <1>3, <1>6, <1>7, <1>8, <1>9 DEF FileInv, Moved

LEMMA WriteKeeps ==
    ASSUME FileInv, NEW t \in Threads, WriteTemp(t)
    PROVE  FileInv'
<1>1. PICK g, data : g = frame[t].file /\ g \in Files /\ data = frame[t].data
  BY DEF FileInv, WriteTemp, At
<1>2. pc[t] = "write" /\ handle' = [handle EXCEPT ![t] = Closed] /\ Go(t, "replace", frame[t]) /\ shared' = shared
  BY DEF WriteTemp, At
<1> DEFINE alone == \A o \in Threads \ {t} : ~(Saving(o, g) /\ handle[o] = handle[t])
<1>3. /\ handle[t] = "temp" => disk' = disk /\ \E text \in Written(temp[g], data, alone) : temp' = [temp EXCEPT ![g] = text]
      /\ handle[t] = "disk" => temp' = temp /\ \E text \in Written(disk[g], data, alone) : disk' = [disk EXCEPT ![g] = text]
      /\ handle[t] \notin {"temp", "disk"} => UNCHANGED <<disk, temp>>
  BY <1>1 DEF WriteTemp
<1>4. Moved(t, "replace", frame[t])
  BY <1>2, Moves DEF FileInv
<1>5. /\ disk' = [f \in Files |-> disk'[f]] /\ temp' = [f \in Files |-> temp'[f]]
      /\ \A h \in Files : h # g => disk'[h] = disk[h] /\ temp'[h] = temp[h]
  <2> HIDE DEF alone
  <2>1. CASE handle[t] = "temp"
    <3>1. PICK text : temp' = [temp EXCEPT ![g] = text] /\ disk' = disk
      BY <1>3, <2>1
    <3> QED
      BY <1>1, <3>1 DEF FileInv
  <2>2. CASE handle[t] = "disk"
    <3>1. PICK text : disk' = [disk EXCEPT ![g] = text] /\ temp' = temp
      BY <1>3, <2>2
    <3> QED
      BY <1>1, <3>1 DEF FileInv
  <2>3. CASE handle[t] \notin {"temp", "disk"}
    BY <1>3, <2>3 DEF FileInv
  <2> QED
    BY <2>1, <2>2, <2>3
<1>6. /\ \A u \in Threads : u # t => UNCHANGED <<pc[u], frame[u], handle[u]>>
      /\ pc'[t] = "replace" /\ frame'[t] = frame[t]
  BY <1>2, <1>4 DEF Moved, FileInv
<1>7. \A u \in Threads, h \in Files : Saving(u, h)' <=> Saving(u, h)
  BY <1>2, <1>6 DEF Saving, At
<1>8. \A h \in Files : Saving(t, h) <=> h = g
  BY <1>1, <1>2 DEF Saving, At
<1>9. ASSUME NEW h \in Files \ shared', h # g PROVE Apart(h)'
  BY <1>2, <1>5, <1>6, <1>7, <1>8, <1>9 DEF FileInv, Apart, At
<1>10. ASSUME g \notin shared' PROVE Apart(g)'
  <2>1. Apart(g) /\ handle[t] = "temp" /\ temp[g] = Torn
    BY <1>1, <1>2, <1>8, <1>10 DEF FileInv, Apart, At
  <2>2. \A u \in Threads : Saving(u, g) => u = t
    BY <1>1, <1>8, <2>1 DEF Apart
  <2>3. alone
    BY <2>2
  <2> HIDE DEF alone
  <2>4. temp' = [temp EXCEPT ![g] = Json(data)] /\ disk' = disk
    BY <1>3, <2>1, <2>3 DEF Written
  <2>5. temp'[g] = Json(data)
    BY <1>1, <2>4 DEF FileInv
  <2> QED
    BY <1>1, <1>6, <1>7, <2>1, <2>2, <2>4, <2>5 DEF Apart, At
<1>11. \A u \in Threads : pc'[u] \in {"open", "write", "replace"} => frame'[u].file \in Files
  BY <1>1, <1>6 DEF FileInv
<1>12. handle' = [u \in Threads |-> handle'[u]]
  BY <1>2 DEF FileInv
<1> QED
  BY <1>4, <1>5, <1>9, <1>10, <1>11, <1>12 DEF FileInv, Moved

LEMMA ReplaceKeeps ==
    ASSUME FileInv, NEW t \in Threads, ReplaceFile(t)
    PROVE  FileInv'
<1>1. PICK g : g = frame[t].file /\ g \in Files
  BY DEF FileInv, ReplaceFile, At
<1>2. /\ pc[t] = "replace" /\ Go(t, "idle", NoFrame) /\ shared' = shared
      /\ \/ temp[g] = Absent /\ UNCHANGED <<disk, temp, handle>>
         \/ /\ disk' = [disk EXCEPT ![g] = temp[g]] /\ temp' = [temp EXCEPT ![g] = Absent]
            /\ handle' = Renamed(g)
  BY <1>1 DEF ReplaceFile, At, Done
<1>3. Moved(t, "idle", NoFrame)
  BY <1>2, Moves DEF FileInv
<1>4. \A h \in Files : Saving(t, h) <=> h = g
  BY <1>1, <1>2 DEF Saving, At
<1>5. /\ \A u \in Threads : u # t => UNCHANGED <<pc[u], frame[u]>>
      /\ pc'[t] = "idle"
  BY <1>3 DEF Moved
<1>6. /\ \A u \in Threads, h \in Files : u # t => (Saving(u, h)' <=> Saving(u, h))
      /\ \A h \in Files : ~Saving(t, h)'
  BY <1>5 DEF Saving, At
<1>7. /\ disk' = [f \in Files |-> disk'[f]] /\ temp' = [f \in Files |-> temp'[f]] /\ handle' = [u \in Threads |-> handle'[u]]
      /\ \A h \in Files : h # g => disk'[h] = disk[h] /\ temp'[h] = temp[h]
  BY <1>1, <1>2 DEF FileInv, Renamed
<1>8. ASSUME NEW h \in Files \ shared', h # g PROVE Apart(h)'
  <2>1. \A u \in Threads : Saving(u, h) => handle'[u] = handle[u]
    <3>1. \A u \in Threads : Saving(u, h) => ~Saving(u, g)
      BY <1>8 DEF Saving
    <3> QED
      BY <1>2, <3>1 DEF Renamed
  <2> QED
    BY <1>2, <1>5, <1>6, <1>7, <1>8, <2>1 DEF FileInv, Apart, At
<1>9. ASSUME g \notin shared' PROVE Apart(g)'
  <2>1. Apart(g) /\ temp[g] = Json(frame[t].data) /\ \A u \in Threads : Saving(u, g) => u = t
    BY <1>1, <1>2, <1>4, <1>9 DEF FileInv, Apart, At
  <2>2. disk'[g] = Json(frame[t].data)
    BY <1>1, <1>2, <2>1, Texts DEF FileInv
  <2>3. \A u \in Threads : ~Saving(u, g)'
    BY <1>1, <1>6, <2>1
  <2> QED
    BY <2>2, <2>3, Texts DEF Apart
<1>10. \A u \in Threads : pc'[u] \in {"open", "write", "replace"} => frame'[u].file \in Files
  BY <1>5 DEF FileInv
<1> QED
  BY <1>3, <1>7, <1>8, <1>9, <1>10 DEF FileInv, Moved

LEMMA SaveKeeps ==
    ASSUME FileInv, NEW t \in Threads, Save(t)
    PROVE  FileInv'
BY OpenKeeps, WriteKeeps, ReplaceKeeps DEF Save

-----------------------------------------------------------------------------
(* The ledger.  What the strategy's orders have bought or may still buy is   *)
(* covered by the ledger, and from the moment the broker has an order to the *)
(* rename of the ledger by what the thread that placed it is about to save.  *)

Ledger == Load("ledger", Nothing)
Saves == {"open", "write", "replace"}
Enters == {"enter"} \cup Saves

\* The locals of a request that places orders.
Placing(f) ==
    /\ f = [op |-> f.op, side |-> f.side, legs |-> f.legs, momentum |-> f.momentum, request |-> f.request]
    /\ f.op = "place"
    /\ f.momentum = TRUE \/ f.momentum = FALSE
    /\ f.side \in {"BUY", "SELL"}
    /\ f.momentum = TRUE => \E n \in Names : f.legs = <<n>>

PlacingInv ==
    \A t \in Threads :
      /\ pc[t] \in {"preview", "send", "enter"} => Placing(frame[t])
      /\ pc[t] = "enter" => frame[t].momentum = TRUE
      /\ pc[t] \in Saves => frame[t].op = "place" /\ frame[t].file = "ledger"

\* The strategy's shares of a name, and those that its working orders may buy.
Buying(n) == {w \in buys : w.name = n}
Owed(n) == bought[n] + Cardinality(Buying(n))
Tallies == bought \in [Names -> Int] /\ IsFiniteSet(buys)

Covers(ledger) == \A n \in Names \ lost : Owed(n) <= ledger[n]
Coming(n) == \E t \in Threads : pc[t] \in Enters /\ Head(frame[t].legs) = n

Kept ==
    /\ "ledger" \notin shared
    /\ \A t, o \in Threads : pc[t] \in Enters /\ pc[o] \in Enters => t = o
    /\ Ledger \in [Names -> Int]
    /\ \A n \in Names \ lost : Coming(n) \/ Owed(n) <= Ledger[n]
    /\ \A t \in Threads : pc[t] = "enter" => Covers(Recorded(Ledger, frame[t].side, Head(frame[t].legs)))
    /\ \A t \in Threads : pc[t] \in Saves => frame[t].data \in [Names -> Int] /\ Covers(frame[t].data)

OrdersInv ==
    /\ FileInv
    /\ Tallies
    /\ PlacingInv
    /\ ~crossed => Kept

\* A step that adds nothing to what is owed, but for names that it loses.
Lighter == Tallies' /\ \A n \in Names \ lost' : n \notin lost /\ Owed(n)' <= Owed(n)

LEMMA OwedIs ==
    ASSUME Tallies, NEW n \in Names
    PROVE  Owed(n) \in Int /\ bought[n] \in Int /\ bought[n] <= Owed(n)
<1>1. Cardinality(Buying(n)) \in Nat
  BY FS_Subset, FS_CardinalityType DEF Tallies, Buying
<1> QED
  BY <1>1 DEF Tallies, Owed

LEMMA NextOwedIs ==
    ASSUME Tallies', NEW n \in Names
    PROVE  Owed(n)' \in Int
<1>1. Cardinality(Buying(n))' \in Nat
  BY FS_Subset, FS_CardinalityType DEF Tallies, Buying
<1> QED
  BY <1>1 DEF Tallies, Owed

LEMMA NoHeavier ==
    ASSUME NEW a \in Int, NEW b \in Int, NEW c \in Int, a <= b, b <= c
    PROVE  a <= c
  OBVIOUS

LEMMA RecordedIs ==
    ASSUME NEW ledger \in [Names -> Int], NEW side, NEW n
    PROVE  Recorded(ledger, side, n) \in [Names -> Int]
<1>1. \A m \in Names : Recorded(ledger, side, n)[m] \in Int
  BY DEF Recorded
<1>2. Recorded(ledger, side, n) = [m \in Names |-> Recorded(ledger, side, n)[m]]
  BY DEF Recorded
<1> QED
  BY <1>1, <1>2

LEMMA SameOwed ==
    ASSUME Tallies, UNCHANGED <<bought, buys, lost>>
    PROVE  Lighter
<1>1. Tallies' /\ \A n \in Names : Owed(n)' = Owed(n)
  BY DEF Tallies, Owed, Buying
<1> QED
  BY <1>1, OwedIs DEF Lighter

\* What a ledger covers it covers after a step that adds nothing.
LEMMA CoversOn ==
    ASSUME Tallies, Lighter, NEW ledger \in [Names -> Int], Covers(ledger)
    PROVE  \A n \in Names \ lost' : Owed(n)' <= ledger[n]
<1> SUFFICES ASSUME NEW n \in Names \ lost' PROVE Owed(n)' <= ledger[n]
  OBVIOUS
<1>1. n \notin lost /\ Owed(n)' <= Owed(n) /\ Owed(n) <= ledger[n]
  BY DEF Lighter, Covers
<1>2. Owed(n)' \in Int /\ Owed(n) \in Int /\ ledger[n] \in Int
  BY OwedIs, NextOwedIs DEF Lighter
<1> QED
  BY <1>1, <1>2, NoHeavier

\* A filled order is owed as before, a cancelled one no more.
LEMMA FilledOwed ==
    ASSUME Tallies, NEW w, UNCHANGED lost, buys' = buys \ {w},
           bought' = IF w \in buys THEN [bought EXCEPT ![w.name] = @ + 1] ELSE bought
    PROVE  Lighter
<1>1. Tallies'
  <2>1. IsFiniteSet(buys')
    BY FS_Subset DEF Tallies
  <2>2. bought' \in [Names -> Int]
    <3>1. CASE w \in buys
      <4>1. PICK g : g = [bought EXCEPT ![w.name] = bought[w.name] + 1]
        OBVIOUS
      <4>2. DOMAIN bought = Names /\ \A n \in Names : bought[n] \in Int /\ bought[n] + 1 \in Int
        BY DEF Tallies
      <4>3. g = [n \in Names |-> g[n]]
        BY <4>1 DEF Tallies
      <4>4. ASSUME NEW n \in Names PROVE g[n] \in Int
        <5>1. CASE n = w.name
          BY <4>1, <4>2, <5>1
        <5>2. CASE n # w.name
          BY <4>1, <4>2, <5>2
        <5> QED
          BY <5>1, <5>2
      <4> QED
        BY <3>1, <4>1, <4>3, <4>4
    <3>2. CASE w \notin buys
      BY <3>2 DEF Tallies
    <3> QED
      BY <3>1, <3>2
  <2> QED
    BY <2>1, <2>2 DEF Tallies
<1>2. ASSUME NEW n \in Names PROVE Owed(n)' = Owed(n)
  <2>1. IsFiniteSet(Buying(n)) /\ Cardinality(Buying(n)) \in Nat /\ bought[n] \in Int
    BY FS_Subset, FS_CardinalityType DEF Tallies, Buying
  <2>2. CASE w \in buys /\ w.name = n
    <3>1. Buying(n)' = Buying(n) \ {w} /\ w \in Buying(n) /\ bought'[n] = bought[n] + 1
      BY <2>2 DEF Buying, Tallies
    <3>2. Cardinality(Buying(n) \ {w}) = Cardinality(Buying(n)) - 1
      BY <2>1, <3>1, FS_RemoveElement
    <3>3. Cardinality(Buying(n))' = Cardinality(Buying(n)) - 1
      BY <3>1, <3>2
    <3> QED
      BY <2>1, <3>1, <3>3 DEF Owed
  <2>3. CASE ~(w \in buys /\ w.name = n)
    <3>1. Buying(n)' = Buying(n) /\ bought'[n] = bought[n]
      BY <2>3 DEF Buying, Tallies
    <3> QED
      BY <3>1 DEF Owed
  <2> QED
    BY <2>2, <2>3
<1> QED
  BY <1>1, <1>2, OwedIs DEF Lighter

LEMMA CancelledOwed ==
    ASSUME Tallies, NEW w, UNCHANGED <<bought, lost>>, buys' = buys \ {w}
    PROVE  Lighter
<1>1. Tallies'
  BY FS_Subset DEF Tallies
<1>2. ASSUME NEW n \in Names PROVE Owed(n)' <= Owed(n)
  <2>1. Buying(n)' \subseteq Buying(n) /\ IsFiniteSet(Buying(n))
    BY FS_Subset DEF Tallies, Buying
  <2>2. Cardinality(Buying(n)') <= Cardinality(Buying(n)) /\ Cardinality(Buying(n)) \in Nat /\ Cardinality(Buying(n)') \in Nat
    BY <2>1, FS_Subset, FS_CardinalityType
  <2> QED
    BY <2>2 DEF Owed, Tallies
<1> QED
  BY <1>1, <1>2 DEF Lighter

\* An order that the broker takes adds a share to what is owed of its name, or ends it.
LEMMA SentOwed ==
    ASSUME Tallies, NEW n \in Names, NEW side, NEW order, order.name = n,
           buys' = IF side = "BUY" THEN buys \cup {order} ELSE {w \in buys : w.name # n},
           bought' = IF side = "SELL" THEN [bought EXCEPT ![n] = 0] ELSE bought,
           side \in {"BUY", "SELL"}
    PROVE  /\ Tallies'
           /\ IF side = "BUY" THEN Owed(n)' <= Owed(n) + 1 ELSE Owed(n)' = 0
           /\ \A m \in Names : m # n => Owed(m)' = Owed(m)
<1>1. Tallies'
  BY FS_AddElement, FS_Subset DEF Tallies
<1>2. IF side = "BUY" THEN Owed(n)' <= Owed(n) + 1 ELSE Owed(n)' = 0
  <2>1. IsFiniteSet(Buying(n)) /\ Cardinality(Buying(n)) \in Nat /\ bought[n] \in Int
    BY FS_Subset, FS_CardinalityType DEF Tallies, Buying
  <2>2. CASE side = "BUY"
    <3>1. Buying(n)' = Buying(n) \cup {order} /\ bought' = bought
      BY <2>2 DEF Buying
    <3>2. /\ Cardinality(Buying(n) \cup {order}) \in Nat
          /\ Cardinality(Buying(n) \cup {order}) <= Cardinality(Buying(n)) + 1
      <4>1. Cardinality(Buying(n) \cup {order}) = IF order \in Buying(n) THEN Cardinality(Buying(n)) ELSE Cardinality(Buying(n)) + 1
        BY <2>1, FS_AddElement
      <4> QED
        BY <2>1, <4>1
    <3>3. Cardinality(Buying(n))' \in Nat /\ Cardinality(Buying(n))' <= Cardinality(Buying(n)) + 1
      BY <3>1, <3>2
    <3> QED
      BY <2>1, <2>2, <3>1, <3>3 DEF Owed
  <2>3. CASE side # "BUY"
    <3>1. Buying(n)' = {} /\ bought'[n] = 0
      BY <2>3 DEF Buying, Tallies
    <3>2. Cardinality(Buying(n))' = 0
      BY <3>1, FS_EmptySet
    <3> QED
      BY <2>3, <3>1, <3>2 DEF Owed
  <2> QED
    BY <2>2, <2>3
<1>3. ASSUME NEW m \in Names, m # n PROVE Owed(m)' = Owed(m)
  <2>1. Buying(m)' = Buying(m) /\ bought'[m] = bought[m]
    BY <1>3 DEF Buying, Tallies
  <2> QED
    BY <2>1 DEF Owed
<1> QED
  BY <1>1, <1>2, <1>3

\* Of the requests in a save or before it, those that enter a fill are the ones to place orders.
LEMMA EnteringPlaces ==
    ASSUME PlacingInv, NEW t \in Threads
    PROVE  Entering(t) <=> pc[t] \in Enters
BY DEF PlacingInv, Placing, Entering, Enters, Saves

LEMMA OrdersBegin ==
    ASSUME PoolInit, SleeveInit
    PROVE  OrdersInv
<1>1. FileInv
  BY FileBegins DEF SleeveInit
<1>2. Nothing \in [Names -> Int] /\ Ledger = Nothing
  BY SleeveAssumption DEF SleeveInit, FileInit, Ledger, Load, Nothing
<1>3. \A t \in Threads : pc[t] = "idle"
  BY DEF PoolInit
<1>4. Tallies
  BY <1>2, FS_EmptySet DEF Tallies, SleeveInit
<1>5. ASSUME NEW n \in Names PROVE Owed(n) <= Ledger[n]
  <2>1. Buying(n) = {} /\ bought[n] = 0 /\ Ledger[n] = 0
    BY <1>2 DEF SleeveInit, Buying, Nothing
  <2>2. Cardinality(Buying(n)) = 0
    BY <2>1, FS_EmptySet
  <2> QED
    BY <2>1, <2>2 DEF Owed
<1> QED
  BY <1>1, <1>2, <1>3, <1>4, <1>5 DEF OrdersInv, PlacingInv, Kept, SleeveInit, FileInit, Enters, Saves

\* The ledger, and what is about to be saved in it, cover no less after a step that
\* adds nothing and touches no request.
LEMMA OrdersStay ==
    ASSUME OrdersInv, UNCHANGED <<pc, frame, disk, temp, handle, shared, crossed>>, Lighter
    PROVE  OrdersInv'
<1>1. FileInv' /\ Tallies'
  BY FilesStay DEF OrdersInv, Lighter
<1>2. PlacingInv'
  BY DEF OrdersInv, PlacingInv
<1>3. ASSUME ~crossed' PROVE Kept'
  <2>1. Kept /\ Ledger' = Ledger /\ Tallies
    BY <1>3 DEF OrdersInv, Ledger, Load
  <2>2. ASSUME NEW n \in Names \ lost', ~Coming(n)' PROVE Owed(n)' <= Ledger'[n]
    <3>1. ~Coming(n) /\ n \notin lost /\ Owed(n)' <= Owed(n)
      BY <2>2 DEF Coming, Lighter
    <3>2. Owed(n) <= Ledger[n] /\ Ledger[n] \in Int
      BY <2>1, <3>1 DEF Kept
    <3> QED
      BY <2>1, <3>1, <3>2, OwedIs, NextOwedIs, NoHeavier DEF Lighter
  <2>3. ASSUME NEW t \in Threads, pc'[t] = "enter"
        PROVE  Covers(Recorded(Ledger, frame[t].side, Head(frame[t].legs)))'
    <3>1. PICK l \in [Names -> Int] : l = Recorded(Ledger, frame[t].side, Head(frame[t].legs))
      BY <2>1, RecordedIs DEF Kept
    <3>2. Covers(l)
      BY <2>1, <2>3, <3>1 DEF Kept
    <3>3. \A n \in Names \ lost' : Owed(n)' <= l[n]
      BY <2>1, <3>2, CoversOn
    <3>4. Recorded(Ledger', frame'[t].side, Head(frame'[t].legs)) = l
      BY <2>1, <3>1
    <3> QED
      BY <3>3, <3>4 DEF Covers, Recorded
  <2>4. ASSUME NEW t \in Threads, pc'[t] \in Saves
        PROVE  frame'[t].data \in [Names -> Int] /\ Covers(frame[t].data)'
    <3>1. PICK l \in [Names -> Int] : l = frame[t].data /\ Covers(l)
      BY <2>1, <2>4 DEF Kept
    <3>2. \A n \in Names \ lost' : Owed(n)' <= l[n]
      BY <2>1, <3>1, CoversOn
    <3> QED
      BY <3>1, <3>2 DEF Covers
  <2> QED
    BY <2>1, <2>2, <2>3, <2>4 DEF Kept
<1> QED
  BY <1>1, <1>2, <1>3 DEF OrdersInv

\* A thread without an order to enter goes on, and still has none.
LEMMA OrdersWait ==
    ASSUME OrdersInv, NEW t \in Threads, NEW l, NEW f, Begin(t, l, f) \/ Go(t, l, f), UNCHANGED fileVars, Lighter,
           pc[t] \notin Enters, l \notin Enters, l \in {"preview", "send"} => Placing(f),
           ~crossed' => ~crossed
    PROVE  OrdersInv'
<1>1. Moved(t, l, f) /\ UNCHANGED <<disk, temp, handle, shared>>
  BY Moves DEF OrdersInv, FileInv, fileVars
<1>2. FileInv'
  BY FilesWait DEF OrdersInv, Enters, Saves
<1>3. PlacingInv'
  BY <1>1 DEF OrdersInv, PlacingInv, Moved, Enters, Saves
<1>4. ASSUME ~crossed' PROVE Kept'
  <2>1. Kept /\ Ledger' = Ledger /\ Tallies
    BY <1>1, <1>4 DEF OrdersInv, Ledger, Load
  <2>2. /\ pc'[t] \notin Enters
        /\ \A o \in Threads : o # t => pc'[o] = pc[o] /\ frame'[o] = frame[o]
    BY <1>1 DEF Moved
  <2>3. ASSUME NEW n \in Names \ lost', ~Coming(n)' PROVE Owed(n)' <= Ledger'[n]
    <3>1. ~Coming(n) /\ n \notin lost /\ Owed(n)' <= Owed(n)
      BY <2>2, <2>3 DEF Coming, Lighter
    <3>2. Owed(n) <= Ledger[n] /\ Ledger[n] \in Int
      BY <2>1, <3>1 DEF Kept
    <3> QED
      BY <2>1, <3>1, <3>2, OwedIs, NextOwedIs, NoHeavier DEF Lighter
  <2>4. ASSUME NEW o \in Threads, pc'[o] = "enter"
        PROVE  Covers(Recorded(Ledger, frame[o].side, Head(frame[o].legs)))'
    <3>1. o # t /\ pc[o] = "enter" /\ frame'[o] = frame[o]
      BY <2>2, <2>4 DEF Enters
    <3>2. PICK d \in [Names -> Int] : d = Recorded(Ledger, frame[o].side, Head(frame[o].legs)) /\ Covers(d)
      BY <2>1, <3>1, RecordedIs DEF Kept
    <3>3. \A n \in Names \ lost' : Owed(n)' <= d[n]
      BY <2>1, <3>2, CoversOn
    <3>4. Recorded(Ledger', frame'[o].side, Head(frame'[o].legs)) = d
      BY <2>1, <3>1, <3>2
    <3> QED
      BY <3>3, <3>4 DEF Covers, Recorded
  <2>5. ASSUME NEW o \in Threads, pc'[o] \in Saves
        PROVE  frame'[o].data \in [Names -> Int] /\ Covers(frame[o].data)'
    <3>1. o # t /\ pc[o] \in Saves /\ frame'[o] = frame[o]
      BY <2>2, <2>5 DEF Enters
    <3>2. PICK d \in [Names -> Int] : d = frame[o].data /\ Covers(d)
      BY <2>1, <3>1 DEF Kept
    <3>3. \A n \in Names \ lost' : Owed(n)' <= d[n]
      BY <2>1, <3>2, CoversOn
    <3> QED
      BY <3>1, <3>2, <3>3 DEF Covers
  <2>6. \A o, u \in Threads : pc'[o] \in Enters /\ pc'[u] \in Enters => o = u
    BY <2>1, <2>2 DEF Kept
  <2> QED
    BY <1>1, <2>1, <2>3, <2>4, <2>5, <2>6 DEF Kept
<1> QED
  BY <1>2, <1>3, <1>4 DEF OrdersInv, Lighter

\* What becomes of the locals when a leg is done with.
LEMMA NextLegWaits ==
    ASSUME OrdersInv, NEW t \in Threads, pc[t] \in {"preview", "send"}, NextLeg(t), UNCHANGED fileVars, Lighter,
           ~crossed' => ~crossed
    PROVE  OrdersInv'
<1>1. Placing(frame[t]) /\ pc[t] \notin Enters
  BY DEF OrdersInv, PlacingInv, Enters, Saves
<1>2. CASE Len(frame[t].legs) = 1
  BY <1>1, <1>2, OrdersWait DEF NextLeg, Done, Enters, Saves
<1>3. CASE Len(frame[t].legs) # 1
  <2>1. PICK f : f = [frame[t] EXCEPT !.legs = Tail(frame[t].legs)] /\ Go(t, "preview", f)
    BY <1>3 DEF NextLeg
  <2>2. ~(frame[t].momentum = TRUE)
    BY <1>1, <1>3 DEF Placing
  <2>3. Placing(f)
    BY <1>1, <2>1, <2>2 DEF Placing
  <2> QED
    BY <1>1, <2>1, <2>3, OrdersWait DEF Enters, Saves
<1> QED
  BY <1>2, <1>3

LEMMA StartsKeep ==
    ASSUME OrdersInv, NEW t \in Threads,
           StartOrder(t) \/ StartBasket(t) \/ StartRebalance(t) \/ StartHoldings(t)
    PROVE  OrdersInv'
<1>1. PICK l, f : /\ Begin(t, l, f) /\ l \in {"preview", "positions"}
                  /\ l = "preview" => Placing(f)
  <2>1. CASE StartOrder(t)
    <3>1. PICK n \in Names, side \in {"BUY", "SELL"}, momentum \in BOOLEAN :
            Begin(t, "preview", [op |-> "place", side |-> side, legs |-> <<n>>,
                                 momentum |-> momentum, request |-> requests + 1])
      BY <2>1 DEF StartOrder
    <3> DEFINE f == [op |-> "place", side |-> side, legs |-> <<n>>, momentum |-> momentum, request |-> requests + 1]
    <3>2. Placing(f)
      BY DEF Placing
    <3> QED
      BY <3>1, <3>2
  <2>2. CASE StartBasket(t)
    <3>1. PICK n \in Names, m \in Names :
            Begin(t, "preview", [op |-> "place", side |-> "BUY", legs |-> <<n, m>>,
                                 momentum |-> FALSE, request |-> requests + 1])
      BY <2>2 DEF StartBasket
    <3> DEFINE f == [op |-> "place", side |-> "BUY", legs |-> <<n, m>>, momentum |-> FALSE, request |-> requests + 1]
    <3>2. Placing(f)
      BY DEF Placing
    <3> QED
      BY <3>1, <3>2
  <2>3. CASE StartRebalance(t)
    BY <2>3 DEF StartRebalance
  <2>4. CASE StartHoldings(t)
    BY <2>4 DEF StartHoldings
  <2> QED
    BY <2>1, <2>2, <2>3, <2>4
<1>2. UNCHANGED <<fileVars, bought, buys, crossed, lost>> /\ pc[t] = "idle"
  BY <1>1 DEF StartOrder, StartBasket, StartRebalance, StartHoldings, sleeveVars, sleeveHistory, Begin, At
<1>3. Lighter
  BY <1>2, SameOwed DEF OrdersInv
<1> QED
  BY <1>1, <1>2, <1>3, OrdersWait DEF Enters, Saves

LEMMA PreviewKeeps ==
    ASSUME OrdersInv, NEW t \in Threads, PreviewLeg(t)
    PROVE  OrdersInv'
<1>1. pc[t] = "preview" /\ UNCHANGED <<fileVars, bought, buys, crossed, lost>> /\ Placing(frame[t])
  BY DEF PreviewLeg, At, OrdersInv, PlacingInv, sleeveVars, sleeveHistory
<1>2. Lighter
  BY <1>1, SameOwed DEF OrdersInv
<1>3. CASE NextLeg(t)
  BY <1>1, <1>2, <1>3, NextLegWaits
<1>4. CASE Go(t, "send", frame[t])
  BY <1>1, <1>2, <1>4, OrdersWait DEF Enters, Saves
<1> QED
  BY <1>3, <1>4 DEF PreviewLeg

\* The broker has the strategy's order, and the thread goes to the ledger.
LEMMA SentKeeps ==
    ASSUME OrdersInv, NEW t \in Threads, NEW n \in Names, NEW side \in {"BUY", "SELL"}, pc[t] = "send",
           frame[t].side = side, frame[t].momentum = TRUE, Head(frame[t].legs) = n,
           Go(t, "enter", frame[t]), UNCHANGED <<fileVars, lost>>, Tallies',
           IF side = "BUY" THEN Owed(n)' <= Owed(n) + 1 ELSE Owed(n)' = 0,
           \A m \in Names : m # n => Owed(m)' = Owed(m),
           ~crossed' => ~crossed /\ \A o \in Threads : pc[o] \notin Enters
    PROVE  OrdersInv'
<1>1. Moved(t, "enter", frame[t]) /\ UNCHANGED <<disk, temp, handle, shared>>
  BY Moves DEF OrdersInv, FileInv, fileVars
<1>2. FileInv'
  BY FilesWait DEF OrdersInv
<1>3. PlacingInv'
  BY <1>1 DEF OrdersInv, PlacingInv, Moved, Saves
<1>4. Ledger' = Ledger
  BY <1>1 DEF Ledger, Load
<1>5. ASSUME ~crossed' PROVE Kept'
  <2>1. Kept /\ Tallies /\ \A o \in Threads : pc[o] \notin Enters
    BY <1>5 DEF OrdersInv
  <2>2. PICK l \in [Names -> Int] : l = Ledger
    BY <2>1 DEF Kept
  <2>3. \A m \in Names \ lost : Owed(m) <= l[m] /\ Owed(m) \in Int /\ Owed(m)' \in Int
    BY <2>1, <2>2, OwedIs, NextOwedIs DEF Kept, Coming
  <2>4. /\ pc'[t] = "enter" /\ frame'[t] = frame[t]
        /\ \A o \in Threads : o # t => pc'[o] \notin Enters
    BY <1>1, <2>1 DEF Moved
  <2>5. PICK d \in [Names -> Int] : d = Recorded(l, side, n)
    BY RecordedIs
  <2>6. ASSUME NEW m \in Names \ lost PROVE Owed(m)' <= d[m]
    <3>1. CASE m # n
      BY <2>3, <2>5, <3>1 DEF Recorded
    <3>2. CASE m = n /\ side = "BUY"
      BY <2>3, <2>5, <3>2 DEF Recorded
    <3>3. CASE m = n /\ side # "BUY"
      BY <2>5, <3>3 DEF Recorded
    <3> QED
      BY <3>1, <3>2, <3>3
  <2>7. Recorded(Ledger', frame'[t].side, Head(frame'[t].legs)) = d
    BY <1>4, <2>2, <2>4, <2>5
  <2>8. \A o \in Threads : pc'[o] = "enter" => o = t
    BY <2>4 DEF Enters
  <2>9. \A o \in Threads : pc'[o] = "enter" => Covers(Recorded(Ledger, frame[o].side, Head(frame[o].legs)))'
    BY <2>6, <2>7, <2>8 DEF Covers, Recorded
  <2>10. ASSUME NEW m \in Names \ lost' PROVE Coming(m)' \/ Owed(m)' <= Ledger'[m]
    <3>1. m = n => Coming(m)'
      BY <2>4 DEF Coming, Enters
    <3>2. m # n => Owed(m)' <= Ledger'[m]
      BY <1>4, <2>2, <2>3
    <3> QED
      BY <3>1, <3>2
  <2>11. \A o, u \in Threads : pc'[o] \in Enters /\ pc'[u] \in Enters => o = u
    BY <2>4
  <2>12. \A o \in Threads : pc'[o] \notin Saves
    BY <2>4 DEF Enters, Saves
  <2>13. "ledger" \notin shared' /\ Ledger' \in [Names -> Int]
    BY <1>1, <1>4, <2>1 DEF Kept
  <2> QED
    BY <2>9, <2>10, <2>11, <2>12, <2>13 DEF Kept
<1> QED
  BY <1>2, <1>3, <1>5 DEF OrdersInv

LEMMA SendKeeps ==
    ASSUME OrdersInv, NEW t \in Threads, Send(t)
    PROVE  OrdersInv'
<1> DEFINE f == frame[t]
           n == Head(f.legs)
           order == [name |-> n, side |-> f.side, momentum |-> f.momentum, request |-> f.request]
<1>1. pc[t] = "send" /\ UNCHANGED fileVars /\ Placing(f) /\ pc[t] \notin Enters
  BY DEF Send, At, OrdersInv, PlacingInv, Enters, Saves
<1>2. CASE NextLeg(t) /\ UNCHANGED <<working, bought, buys, crossed, lost>>
  BY <1>1, <1>2, NextLegWaits, SameOwed DEF OrdersInv
<1>3. CASE /\ buys' = IF ~f.momentum THEN buys
                      ELSE IF f.side = "BUY" THEN buys \cup {order} ELSE {w \in buys : w.name # n}
           /\ bought' = IF f.momentum /\ f.side = "SELL" THEN [bought EXCEPT ![n] = 0] ELSE bought
           /\ crossed' = (crossed \/ (f.momentum /\ \E o \in Threads : Entering(o)))
           /\ \/ /\ lost' = IF f.momentum THEN lost \cup {n} ELSE lost
                 /\ NextLeg(t)
              \/ /\ UNCHANGED lost
                 /\ IF f.momentum THEN Go(t, "enter", f) ELSE NextLeg(t)
  <2>1. ~crossed' => ~crossed
    BY <1>3
  <2>2. CASE f.momentum = FALSE
    <3>1. UNCHANGED <<bought, buys, lost>> /\ NextLeg(t)
      BY <1>3, <2>2
    <3>2. Lighter
      BY <3>1, SameOwed DEF OrdersInv
    <3> QED
      BY <1>1, <2>1, <3>1, <3>2, NextLegWaits
  <2>3. CASE f.momentum = TRUE
    <3>1. PICK m \in Names, side \in {"BUY", "SELL"} : n = m /\ f.side = side
      <4>1. n \in Names /\ f.side \in {"BUY", "SELL"}
        BY <1>1, <2>3 DEF Placing
      <4> HIDE DEF n
      <4> QED
        BY <4>1
    <3>2. PICK o : o = order
      OBVIOUS
    <3>3. /\ o.name = m
          /\ buys' = IF side = "BUY" THEN buys \cup {o} ELSE {w \in buys : w.name # m}
          /\ bought' = IF side = "SELL" THEN [bought EXCEPT ![m] = 0] ELSE bought
      BY <1>3, <2>3, <3>1, <3>2
    <3>4. /\ Tallies'
          /\ IF side = "BUY" THEN Owed(m)' <= Owed(m) + 1 ELSE Owed(m)' = 0
          /\ \A k \in Names : k # m => Owed(k)' = Owed(k)
      BY <3>3, SentOwed DEF OrdersInv
    <3>5. CASE lost' = lost \cup {m} /\ NextLeg(t)
      <4>1. Lighter
        BY <3>4, <3>5, OwedIs DEF Lighter, OrdersInv
      <4> QED
        BY <1>1, <2>1, <3>5, <4>1, NextLegWaits
    <3>6. CASE UNCHANGED lost /\ Go(t, "enter", f)
      <4>1. ~crossed' => \A u \in Threads : pc[u] \notin Enters
        BY <1>3, <2>3, EnteringPlaces DEF OrdersInv
      <4> QED
        BY <1>1, <2>1, <2>3, <3>1, <3>4, <3>6, <4>1, SentKeeps
    <3> QED
      BY <1>3, <2>3, <3>1, <3>5, <3>6
  <2> QED
    BY <1>1, <2>2, <2>3 DEF Placing
<1> QED
  BY <1>2, <1>3 DEF Send

LEMMA EnterKeeps ==
    ASSUME OrdersInv, NEW t \in Threads, EnterLedger(t)
    PROVE  OrdersInv'
<1>1. PICK side, n : /\ pc[t] = "enter" /\ frame[t].side = side /\ frame[t].legs = <<n>> /\ n \in Names
                     /\ Head(frame[t].legs) = n
  <2>1. pc[t] = "enter" /\ Placing(frame[t]) /\ frame[t].momentum = TRUE
    BY DEF EnterLedger, At, OrdersInv, PlacingInv
  <2>2. PICK n \in Names : frame[t].legs = <<n>>
    BY <2>1 DEF Placing
  <2> QED
    BY <2>1, <2>2
<1>2. /\ UNCHANGED <<fileVars, bought, buys, crossed, lost>>
      /\ \/ side = "SELL" /\ Ledger[n] = 0 /\ Go(t, "idle", NoFrame)
         \/ Go(t, "open", [op |-> "place", legs |-> frame[t].legs, file |-> "ledger",
                           data |-> Recorded(Ledger, side, n)])
  BY <1>1 DEF EnterLedger, Done, Ledger, sleeveVars, sleeveHistory
<1>3. Lighter /\ Tallies
  BY <1>2, SameOwed DEF OrdersInv
<1>4. ~crossed => /\ Kept /\ Covers(Recorded(Ledger, side, n))
                  /\ \A o \in Threads : o # t => pc[o] \notin Enters
  BY <1>1 DEF OrdersInv, Kept, Enters
<1>5. Ledger' = Ledger /\ shared' = shared
  BY <1>2 DEF Ledger, Load, fileVars
<1>6. ASSUME ~crossed' PROVE \E d \in [Names -> Int] :
        d = Recorded(Ledger, side, n) /\ \A m \in Names \ lost' : Owed(m)' <= d[m]
  <2>1. PICK d \in [Names -> Int] : d = Recorded(Ledger, side, n) /\ Covers(d)
    BY <1>2, <1>4, <1>6, RecordedIs DEF Kept
  <2> QED
    BY <1>3, <2>1, CoversOn
<1>7. CASE side = "SELL" /\ Ledger[n] = 0 /\ Go(t, "idle", NoFrame)
  <2>1. Moved(t, "idle", NoFrame) /\ FileInv'
    BY <1>1, <1>2, <1>7, Moves, FilesWait DEF OrdersInv, FileInv
  <2>2. PlacingInv'
    BY <2>1 DEF OrdersInv, PlacingInv, Moved, Saves
  <2>3. ASSUME ~crossed' PROVE Kept'
    <3>1. \A o \in Threads : pc'[o] \notin Enters
      BY <1>2, <1>4, <2>1, <2>3 DEF Moved, Enters, Saves
    <3>2. PICK d \in [Names -> Int] : d = Recorded(Ledger, side, n) /\ \A m \in Names \ lost' : Owed(m)' <= d[m]
      BY <1>6, <2>3
    <3>3. Ledger \in [Names -> Int] /\ Ledger = d
      BY <1>1, <1>2, <1>4, <1>7, <2>3, <3>2 DEF Recorded, Kept
    <3>4. \A m \in Names \ lost' : Owed(m)' <= Ledger'[m]
      BY <1>5, <3>2, <3>3
    <3> QED
      BY <1>2, <1>4, <1>5, <2>3, <3>1, <3>3, <3>4 DEF Kept, Enters
  <2> QED
    BY <1>3, <2>1, <2>2, <2>3 DEF OrdersInv, Lighter
<1>8. CASE Go(t, "open", [op |-> "place", legs |-> frame[t].legs, file |-> "ledger",
                          data |-> Recorded(Ledger, side, n)])
  <2>1. PICK f : /\ f.op = "place" /\ f.file = "ledger" /\ f.data = Recorded(Ledger, side, n) /\ Head(f.legs) = n
                 /\ Go(t, "open", f)
    BY <1>1, <1>8
  <2>2. Moved(t, "open", f) /\ FileInv'
    BY <1>1, <1>2, <2>1, SleeveAssumption, Moves, FilesWait DEF OrdersInv, FileInv
  <2>3. PlacingInv'
    BY <2>1, <2>2 DEF OrdersInv, PlacingInv, Moved, Saves
  <2>4. ASSUME ~crossed' PROVE Kept'
    <3>1. pc'[t] = "open" /\ frame'[t] = f /\ \A o \in Threads : o # t => pc'[o] \notin Enters
      BY <1>2, <1>4, <2>2, <2>4 DEF Moved
    <3>2. PICK d \in [Names -> Int] : d = Recorded(Ledger, side, n) /\ \A m \in Names \ lost' : Owed(m)' <= d[m]
      BY <1>6, <2>4
    <3>3. \A o \in Threads : pc'[o] \in Saves => o = t
      BY <3>1 DEF Enters
    <3>4. \A o \in Threads : pc'[o] \in Saves => frame'[o].data \in [Names -> Int] /\ Covers(frame[o].data)'
      BY <2>1, <3>1, <3>2, <3>3 DEF Covers
    <3>5. ASSUME NEW m \in Names \ lost' PROVE Coming(m)' \/ Owed(m)' <= Ledger'[m]
      <4>1. CASE m = n
        BY <2>1, <3>1, <4>1 DEF Coming, Enters, Saves
      <4>2. CASE m # n
        <5>1. ~Coming(m) /\ m \notin lost
          BY <1>1, <1>2, <1>4, <2>4, <3>5, <4>2 DEF Coming
        <5>2. Owed(m)' <= Owed(m) /\ Owed(m) <= Ledger[m] /\ Ledger[m] \in Int
          BY <1>2, <1>3, <1>4, <2>4, <3>5, <5>1 DEF Kept, Lighter
        <5>3. Owed(m)' \in Int /\ Owed(m) \in Int
          BY <1>3, OwedIs, NextOwedIs DEF Lighter
        <5>4. Owed(m)' <= Ledger[m]
          BY <5>2, <5>3, NoHeavier
        <5> QED
          BY <1>5, <5>4
      <4> QED
        BY <4>1, <4>2
    <3>6. (\A o \in Threads : pc'[o] # "enter") /\ \A o, u \in Threads : pc'[o] \in Enters /\ pc'[u] \in Enters => o = u
      BY <3>1 DEF Enters
    <3> QED
      BY <1>2, <1>4, <1>5, <2>4, <3>4, <3>5, <3>6 DEF Kept
  <2> QED
    BY <1>3, <2>2, <2>3, <2>4 DEF OrdersInv, Lighter
<1> QED
  BY <1>2, <1>7, <1>8

LEMMA FillKeeps ==
    ASSUME OrdersInv, Fill
    PROVE  OrdersInv'
<1>1. UNCHANGED <<pc, frame, disk, temp, handle, shared, crossed, lost>>
  BY DEF Fill, pool, fileVars
<1>2. PICK w : /\ buys' = buys \ {w}
               /\ bought' = IF w \in buys THEN [bought EXCEPT ![w.name] = @ + 1] ELSE bought
  BY DEF Fill
<1>3. Lighter
  BY <1>1, <1>2, FilledOwed DEF OrdersInv
<1> QED
  BY <1>1, <1>3, OrdersStay

LEMMA CancelKeeps ==
    ASSUME OrdersInv, NEW t \in Threads, CancelOrder(t)
    PROVE  OrdersInv'
<1>1. Begin(t, "idle", NoFrame) /\ UNCHANGED <<fileVars, bought, crossed, lost>> /\ pc[t] = "idle"
  BY DEF CancelOrder, Begin, At
<1>2. PICK w : buys' = buys \ {w}
  BY DEF CancelOrder
<1>3. Lighter
  BY <1>1, <1>2, CancelledOwed DEF OrdersInv
<1> QED
  BY <1>1, <1>3, OrdersWait DEF Enters, Saves

LEMMA ReadsKeep ==
    ASSUME OrdersInv, NEW t \in Threads, ShowHoldings(t) \/ ProposeSells(t)
    PROVE  OrdersInv'
<1>1. Go(t, "idle", NoFrame) /\ UNCHANGED <<fileVars, bought, buys, crossed, lost>> /\ pc[t] = "positions"
  BY DEF ShowHoldings, ProposeSells, Done, sleeveVars, sleeveHistory, At
<1>2. Lighter
  BY <1>1, SameOwed DEF OrdersInv
<1> QED
  BY <1>1, <1>2, OrdersWait DEF Enters, Saves

\* The steps of a save of the ledger: only the rename changes it.
LEMMA SavesKeep ==
    ASSUME OrdersInv, NEW t \in Threads, SaveFile(t)
    PROVE  OrdersInv'
<1>1. FileInv' /\ UNCHANGED <<bought, buys, crossed, lost>> /\ Save(t)
  BY SaveKeeps DEF SaveFile, OrdersInv, sleeveHistory
<1>2. PICK l : /\ pc[t] \in Saves /\ l \in {"write", "replace", "idle"}
               /\ Go(t, l, frame[t]) \/ (l = "idle" /\ Go(t, l, NoFrame))
  BY <1>1 DEF Save, OpenTemp, WriteTemp, ReplaceFile, Done, At, Saves
<1>3. /\ \A o \in Threads : o # t => pc'[o] = pc[o] /\ frame'[o] = frame[o]
      /\ pc'[t] = l /\ (l # "idle" => frame'[t] = frame[t])
  BY <1>2, Moves DEF OrdersInv, FileInv, Moved
<1>4. PlacingInv'
  BY <1>2, <1>3 DEF OrdersInv, PlacingInv, Saves
<1>5. frame[t].op = "place" /\ frame[t].file = "ledger" /\ "ledger" \in Files
  BY <1>2, SleeveAssumption DEF OrdersInv, PlacingInv
<1>6. Lighter /\ Tallies
  BY <1>1, SameOwed DEF OrdersInv
<1>7. ASSUME ~crossed' PROVE Kept'
  <2>1. Kept
    BY <1>1, <1>7 DEF OrdersInv
  <2>2. PICK d \in [Names -> Int] : d = frame[t].data /\ Covers(d)
    BY <1>2, <2>1 DEF Kept
  <2>3. Apart("ledger") /\ \A o \in Threads : o # t => pc[o] \notin Enters
    BY <1>2, <1>5, <2>1 DEF OrdersInv, FileInv, Kept, Enters, Saves
  <2>4. \A o \in Threads : o # t => pc'[o] \notin Enters
    BY <1>3, <2>3
  <2>5. \A n \in Names \ lost' : Owed(n)' <= d[n]
    BY <1>6, <2>2, CoversOn
  <2>6. ASSUME shared' = shared, Ledger' = Ledger, pc'[t] \in Saves, frame'[t] = frame[t] PROVE Kept'
    <3>1. \A o \in Threads : pc'[o] \in Saves => o = t
      BY <2>4 DEF Enters
    <3>2. \A o \in Threads : pc'[o] \in Saves => frame'[o].data \in [Names -> Int] /\ Covers(frame[o].data)'
      BY <2>2, <2>5, <2>6, <3>1 DEF Covers
    <3>3. ASSUME NEW n \in Names \ lost', ~Coming(n)' PROVE Owed(n)' <= Ledger'[n]
      <4>1. ~Coming(n)
        BY <1>2, <2>3, <2>6, <3>3 DEF Coming, Enters
      <4>2. Owed(n)' <= Owed(n) /\ Owed(n) <= Ledger[n] /\ Ledger[n] \in Int
        BY <1>6, <2>1, <3>3, <4>1 DEF Kept, Lighter
      <4>3. Owed(n)' \in Int /\ Owed(n) \in Int
        BY <1>6, OwedIs, NextOwedIs DEF Lighter
      <4>4. Owed(n)' <= Ledger[n]
        BY <4>2, <4>3, NoHeavier
      <4> QED
        BY <2>6, <4>4
    <3>4. (\A o \in Threads : pc'[o] # "enter") /\ \A o, u \in Threads : pc'[o] \in Enters /\ pc'[u] \in Enters => o = u
      BY <2>4, <2>6 DEF Enters, Saves
    <3> QED
      BY <2>1, <2>6, <3>2, <3>3, <3>4 DEF Kept
  <2>7. CASE OpenTemp(t)
    <3>1. \A o \in Threads : ~Saving(o, "ledger")
      BY <2>3, <2>7 DEF Saving, OpenTemp, At, Enters, Saves
    <3>2. shared' = shared /\ disk' = disk /\ pc'[t] = "write" /\ frame'[t] = frame[t]
      BY <1>3, <1>5, <2>7, <3>1, Moves DEF OpenTemp, OrdersInv, FileInv, Moved
    <3>3. Ledger' = Ledger
      BY <3>2 DEF Ledger, Load
    <3> QED
      BY <2>6, <3>2, <3>3 DEF Saves
  <2>8. CASE WriteTemp(t)
    <3>1. handle[t] = "temp"
      BY <1>5, <2>3, <2>8 DEF Apart, Saving, WriteTemp, At
    <3>2. shared' = shared /\ disk' = disk /\ pc'[t] = "replace" /\ frame'[t] = frame[t]
      BY <2>8, <3>1, Moves DEF WriteTemp, OrdersInv, FileInv, Moved
    <3>3. Ledger' = Ledger
      BY <3>2 DEF Ledger, Load
    <3> QED
      BY <2>6, <3>2, <3>3 DEF Saves
  <2>9. CASE ReplaceFile(t)
    <3>1. temp["ledger"] = Json(d)
      BY <1>5, <2>2, <2>3, <2>9 DEF Apart, Saving, ReplaceFile, At
    <3>2. shared' = shared /\ disk' = [disk EXCEPT !["ledger"] = Json(d)] /\ Go(t, "idle", NoFrame)
      BY <1>5, <2>9, <3>1, Texts DEF ReplaceFile, Done
    <3>3. pc'[t] = "idle" /\ disk'["ledger"] = Json(d)
      BY <1>5, <3>2, Moves DEF OrdersInv, FileInv, Moved
    <3>4. Ledger' = d
      BY <3>3, Texts DEF Ledger, Load, Json
    <3>5. \A o \in Threads : pc'[o] \notin Enters
      BY <2>4, <3>3 DEF Enters, Saves
    <3> QED
      BY <2>1, <2>5, <3>2, <3>4, <3>5 DEF Kept, Enters
  <2> QED
    BY <1>1, <2>7, <2>8, <2>9 DEF Save
<1> QED
  BY <1>1, <1>4, <1>6, <1>7 DEF OrdersInv, Lighter

LEMMA RestartKeeps ==
    ASSUME OrdersInv, SleeveRestart
    PROVE  OrdersInv'
<1>1. /\ pc' = [t \in Threads |-> "idle"] /\ frame' = [t \in Threads |-> NoFrame]
      /\ handle' = [t \in Threads |-> Closed]
      /\ UNCHANGED <<disk, temp, shared, bought, buys, crossed>>
      /\ lost' = lost \cup {n \in Names : BeingEntered(n)}
  BY DEF SleeveRestart
<1>2. FileInv'
  BY <1>1, FilesRest DEF OrdersInv
<1>3. PlacingInv'
  BY <1>1 DEF PlacingInv, Saves
<1>4. Tallies' /\ \A n \in Names : Owed(n)' = Owed(n)
  BY <1>1 DEF OrdersInv, Tallies, Owed, Buying
<1>5. Ledger' = Ledger
  BY <1>1 DEF Ledger, Load
<1>6. \A t \in Threads : pc'[t] \notin Enters
  BY <1>1 DEF Enters, Saves
<1>7. \A n \in Names : Coming(n) => BeingEntered(n)
  BY EnteringPlaces DEF Coming, BeingEntered, OrdersInv
<1>8. ~crossed' => Kept'
  BY <1>1, <1>4, <1>5, <1>6, <1>7 DEF OrdersInv, Kept, Enters
<1> QED
  BY <1>2, <1>3, <1>4, <1>8 DEF OrdersInv

LEMMA SleeveKeeps ==
    ASSUME OrdersInv, SleeveNext
    PROVE  OrdersInv'
BY FillKeeps, RestartKeeps, StartsKeep, PreviewKeeps, SendKeeps, EnterKeeps, CancelKeeps, ReadsKeep, SavesKeep DEF SleeveNext

-----------------------------------------------------------------------------
(* The requests that record values save a file of their own. *)

PointsInv ==
    /\ FileInv
    /\ disk["ledger"] = Absent
    /\ \A t \in Threads : pc[t] \in Saves => frame[t].file = "sleeves"

LEMMA PointsBegin ==
    ASSUME PoolInit, FileInit
    PROVE  PointsInv
BY FileBegins, SleeveAssumption DEF PoolInit, FileInit, PointsInv, Saves

LEMMA PointsWait ==
    ASSUME PointsInv, NEW t \in Threads, NEW l, NEW f, Begin(t, l, f) \/ Go(t, l, f), UNCHANGED fileVars,
           pc[t] \notin Saves, l \notin {"write", "replace"}, l = "open" => f.file = "sleeves"
    PROVE  PointsInv'
<1>1. Moved(t, l, f) /\ UNCHANGED disk
  BY Moves DEF PointsInv, FileInv, fileVars
<1>2. FileInv'
  BY FilesWait, HistoriesAssumption DEF PointsInv, Saves
<1> QED
  BY <1>1, <1>2 DEF PointsInv, Moved, Saves

LEMMA PointsSaved ==
    ASSUME PointsInv, NEW t \in Threads, Save(t)
    PROVE  PointsInv'
<1>1. FileInv'
  BY SaveKeeps DEF PointsInv
<1>2. frame[t].file = "sleeves"
  BY DEF Save, OpenTemp, WriteTemp, ReplaceFile, At, Saves, PointsInv
<1>3. PICK l : Go(t, l, frame[t]) \/ (l = "idle" /\ Go(t, l, NoFrame))
  BY DEF Save, OpenTemp, WriteTemp, ReplaceFile, Done
<1>4. disk'["ledger"] = disk["ledger"]
  <2>1. CASE OpenTemp(t)
    BY <2>1 DEF OpenTemp
  <2>2. CASE WriteTemp(t)
    <3>1. \/ disk' = disk
          \/ \E text : disk' = [disk EXCEPT !["sleeves"] = text]
      BY <1>2, <2>2 DEF WriteTemp
    <3> QED
      BY <3>1, SleeveAssumption DEF PointsInv, FileInv
  <2>3. CASE ReplaceFile(t)
    BY <1>2, <2>3, SleeveAssumption DEF ReplaceFile, PointsInv, FileInv
  <2> QED
    BY <2>1, <2>2, <2>3 DEF Save
<1> QED
  BY <1>1, <1>2, <1>3, <1>4, Moves DEF PointsInv, FileInv, Moved, Saves

LEMMA ValuesKeep ==
    ASSUME PointsInv, ValuesNext
    PROVE  PointsInv'
<1>1. CASE HalfHour
  BY <1>1, FilesStay DEF HalfHour, PointsInv, pool, fileVars
<1>2. CASE ValuesRestart
  BY <1>2, FilesRest DEF ValuesRestart, PointsInv, Saves
<1>3. ASSUME NEW t \in Threads, StartSleeves(t) \/ AddPoint(t) \/ StartAccount(t) \/ RecordEquity(t) PROVE PointsInv'
  <2>1. PICK l, f : /\ Begin(t, l, f) \/ Go(t, l, f)
                    /\ l \in {"point", "open", "equity", "idle"}
                    /\ l = "open" => f.file = "sleeves"
    BY <1>3 DEF StartSleeves, AddPoint, StartAccount, RecordEquity, Done
  <2>2. pc[t] \in {"idle", "point", "equity"} /\ UNCHANGED fileVars
    BY <1>3 DEF StartSleeves, AddPoint, StartAccount, RecordEquity, Begin, At, valueVars
  <2> QED
    BY <2>1, <2>2, PointsWait DEF Saves
<1>4. ASSUME NEW t \in Threads, SavePoints(t) PROVE PointsInv'
  BY <1>4, PointsSaved DEF SavePoints
<1> QED
  BY <1>1, <1>2, <1>3, <1>4 DEF ValuesNext

-----------------------------------------------------------------------------
(* The live account: the strategy's requests and those that record values    *)
(* keep files, the others leave them alone.                                  *)

LiveInv ==
    CASE focus = "sleeve" -> OrdersInv
      [] focus = "values" -> PointsInv /\ bought = Nothing
      [] OTHER -> bought = Nothing /\ disk = [f \in Files |-> Absent]

LEMMA LiveBegins == LiveInit => LiveInv
BY OrdersBegin, PointsBegin DEF LiveInit, LiveInv, SleeveInit, FileInit

LEMMA LiveKeeps == LiveInv /\ [LiveNext]_liveVars => LiveInv'
<1> SUFFICES ASSUME LiveInv, [LiveNext]_liveVars PROVE LiveInv'
  OBVIOUS
<1>1. CASE UNCHANGED liveVars
  <2>1. UNCHANGED <<focus, pc, frame, disk, temp, handle, shared, bought, buys, crossed, lost>>
    BY <1>1 DEF liveVars, pool, sleeveVars, fileVars, sleeveHistory
  <2>2. OrdersInv => OrdersInv'
    BY <2>1, OrdersStay, SameOwed DEF OrdersInv
  <2>3. PointsInv => PointsInv'
    BY <2>1, FilesStay DEF PointsInv, Saves
  <2> QED
    BY <2>1, <2>2, <2>3 DEF LiveInv
<1>2. CASE LiveNext
  <2>1. focus' = focus
    BY <1>2 DEF LiveNext
  <2>2. CASE SleeveStep
    BY <2>1, <2>2, SleeveKeeps DEF SleeveStep, LiveInv
  <2>3. CASE ValuesStep
    BY <2>1, <2>3, ValuesKeep DEF ValuesStep, LiveInv, ownSleeve, sleeveHistory
  <2>4. CASE OrdersStep \/ BrokersStep \/ ScheduleStep
    <3>1. focus \in {"orders", "brokers", "schedule"} /\ UNCHANGED <<bought, disk>>
      BY <2>4 DEF OrdersStep, BrokersStep, ScheduleStep, sleeveVars, fileVars, sleeveHistory
    <3> QED
      BY <2>1, <3>1 DEF LiveInv
  <2> QED
    BY <1>2, <2>2, <2>3, <2>4 DEF LiveNext
<1> QED
  BY <1>1, <1>2

LEMMA LiveInvariance == LiveSpec => []LiveInv
BY LiveBegins, LiveKeeps, PTL DEF LiveSpec

\* However requests interleave, and wherever the process dies, a file that no two
\* requests have been saving at once is absent or whole.
THEOREM FilesStayWhole == LiveSpec => []WholeUnlessShared
<1>1. LiveInv => WholeUnlessShared
  <2> SUFFICES ASSUME LiveInv PROVE WholeUnlessShared
    OBVIOUS
  <2>1. CASE focus \in {"sleeve", "values"}
    BY <2>1 DEF LiveInv, OrdersInv, PointsInv, FileInv, Apart, WholeUnlessShared
  <2>2. CASE focus \notin {"sleeve", "values"}
    BY <2>2, Texts DEF LiveInv, WholeUnlessShared
  <2> QED
    BY <2>1, <2>2
<1> QED
  BY <1>1, LiveInvariance, PTL

\* However the strategy's orders fill, are refused, are cancelled or fail, the ledger
\* holds every share that those sent since its last SELL of a name have bought, but for
\* names of which an order is still being entered or was lost on the way, and unless two
\* orders were in flight at once.
THEOREM LedgerIsKept == LiveSpec => []NoShareForgotten
<1>1. LiveInv => NoShareForgotten
  <2> SUFFICES ASSUME LiveInv PROVE NoShareForgotten
    OBVIOUS
  <2>1. CASE focus = "sleeve"
    <3>1. OrdersInv
      BY <2>1 DEF LiveInv
    <3>2. ASSUME ~crossed, NEW n \in Names \ lost, ~BeingEntered(n) PROVE bought[n] <= Ledger[n]
      <4>1. ~Coming(n)
        BY <3>1, <3>2, EnteringPlaces DEF OrdersInv, Coming, BeingEntered
      <4>2. Owed(n) <= Ledger[n] /\ Ledger[n] \in Int
        BY <3>1, <3>2, <4>1 DEF OrdersInv, Kept
      <4> QED
        BY <3>1, <4>2, OwedIs, NoHeavier DEF OrdersInv
    <3> QED
      BY <3>2 DEF Ledger, NoShareForgotten
  <2>2. CASE focus # "sleeve"
    <3>1. bought = Nothing /\ Load("ledger", Nothing) = Nothing
      BY <2>2, SleeveAssumption DEF LiveInv, PointsInv, Load
    <3> QED
      BY <3>1 DEF Nothing, NoShareForgotten
  <2> QED
    BY <2>1, <2>2
<1> QED
  BY <1>1, LiveInvariance, PTL

-----------------------------------------------------------------------------
(* The recorded values.  As long as no request recorded a value after one of *)
(* a later hour, the points are in the order of their times, one for each of *)
(* the newest hours.                                                         *)

\* A set of numbers has a least one.
LEMMA LeastOf ==
    ASSUME NEW T \in SUBSET Nat, T # {}
    PROVE  \E n \in T : \A m \in T : n <= m
<1>1. PICK n \in T : \A m \in T : ~(<<m, n>> \in OpToRel(<, Nat))
  BY NatLessThanWellFounded, WFMin, Zenon
<1>2. \A m \in T : ~(m < n) /\ m \in Nat
  <2> TAKE m \in T
  <2> QED
    BY <1>1 DEF OpToRel
<1> QED
  BY <1>2

\* The hours of points, one each and in their order.
Hourly(points) == \A i, j \in DOMAIN points : i < j => Hour(points[i]) < Hour(points[j])
Hours(points) == {Hour(points[i]) : i \in DOMAIN points}

\* The hours of observations, and the newest of them.
Seen(times) == {Hour(h) : h \in times}
Newest(hours) == {h \in hours : Cardinality({g \in hours : g > h}) < MaxPoints}

HistoryInv ==
    /\ halves \in Nat /\ observed \in SUBSET (0..halves)
    /\ \A t \in Threads : pc[t] = "equity" => frame[t].half \in 0..halves
    /\ late \/ /\ equity \in Seq(Nat) /\ Len(equity) <= MaxPoints
               /\ Hourly(equity) /\ Hours(equity) = Newest(Seen(observed))

\* Hours go up with the time.
LEMMA HourIs ==
    ASSUME NEW a \in Nat, NEW b \in Nat
    PROVE  /\ Hour(a) \in Nat
           /\ Hour(a) < Hour(b) => a < b
           /\ a <= b => Hour(a) <= Hour(b)
BY DEF Hour

\* A permutation that keeps the order of numbers moves none.
LEMMA InPlace ==
    ASSUME NEW n \in Nat, NEW p \in [1..n -> 1..n], \A i, j \in 1..n : i < j => p[i] < p[j]
    PROVE  \A i \in 1..n : p[i] = i
<1> DEFINE Down == {i \in 1..n : p[i] < i}
           Up == {n - i : i \in {k \in 1..n : p[k] > k}}
<1>1. Down = {}
  <2> SUFFICES ASSUME Down # {} PROVE FALSE
    OBVIOUS
  <2>1. PICK i \in Down : \A k \in Down : i <= k
    <3>1. Down \in SUBSET Nat
      OBVIOUS
    <3> HIDE DEF Down
    <3> QED
      BY <3>1, LeastOf
  <2>2. p[i] \in 1..n /\ p[i] < i /\ i \in 1..n
    OBVIOUS
  <2>3. p[p[i]] < p[i]
    BY <2>2
  <2> QED
    BY <2>1, <2>2, <2>3
<1>2. Up = {}
  <2> SUFFICES ASSUME Up # {} PROVE FALSE
    OBVIOUS
  <2>1. PICK x \in Up : \A k \in Up : x <= k
    <3>1. Up \in SUBSET Nat
      <4>1. \A i \in 1..n : n - i \in Nat
        OBVIOUS
      <4> QED
        BY <4>1
    <3> HIDE DEF Up
    <3> QED
      BY <3>1, LeastOf
  <2>2. PICK i \in 1..n : x = n - i /\ p[i] > i
    OBVIOUS
  <2>3. p[i] \in 1..n /\ p[p[i]] > p[i]
    BY <2>2
  <2>4. n - p[i] \in Up /\ n - p[i] < n - i
    <3>1. p[i] \in {k \in 1..n : p[k] > k}
      BY <2>3
    <3>2. n - p[i] < n - i
      BY <2>2, <2>3
    <3> QED
      BY <3>1, <3>2
  <2> HIDE DEF Up
  <2>5. x <= n - p[i]
    BY <2>1, <2>4
  <2> QED
    BY <2>2, <2>3, <2>4, <2>5
<1>3. ASSUME NEW i \in 1..n PROVE ~(p[i] < i) /\ ~(p[i] > i) /\ p[i] \in Int
  BY <1>1, <1>2
<1> QED
  BY <1>3

\* Points in the order of their times are left as they are.
LEMMA SortedIs ==
    ASSUME NEW points \in Seq(Nat), \A i, j \in DOMAIN points : i < j => points[i] < points[j]
    PROVE  Sorted(points) = points
<1> DEFINE n == Len(points)
           InOrder(p) == \A i, j \in DOMAIN points : i < j => p[i] # p[j] /\ points[p[i]] <= points[p[j]]
           order == CHOOSE p \in [DOMAIN points -> DOMAIN points] : InOrder(p)
<1>1. n \in Nat /\ DOMAIN points = 1..n /\ points = [i \in 1..n |-> points[i]] /\ \A i \in 1..n : points[i] \in Nat
  BY LenProperties
<1>2. order \in [DOMAIN points -> DOMAIN points] /\ InOrder(order)
  <2>1. [i \in DOMAIN points |-> i] \in [DOMAIN points -> DOMAIN points]
    OBVIOUS
  <2>2. InOrder([i \in DOMAIN points |-> i])
    BY <1>1
  <2> HIDE DEF InOrder
  <2> QED
    BY <2>1, <2>2
<1>3. Sorted(points) = [i \in DOMAIN points |-> points[order[i]]]
  BY DEF Sorted
<1> HIDE DEF order, n
<1>4. \A i, j \in 1..n : i < j => order[i] < order[j]
  <2> TAKE i, j \in 1..n
  <2> HAVE i < j
  <2>1. order[i] \in 1..n /\ order[j] \in 1..n /\ order[i] # order[j] /\ points[order[i]] <= points[order[j]]
    BY <1>1, <1>2
  <2>2. order[j] < order[i] => points[order[j]] < points[order[i]]
    <3>1. order[i] \in DOMAIN points /\ order[j] \in DOMAIN points
      BY <1>1, <2>1
    <3> QED
      BY <3>1
  <2>3. points[order[i]] \in Nat /\ points[order[j]] \in Nat
    BY <1>1, <2>1
  <2> QED
    BY <2>1, <2>2, <2>3
<1>5. \A i \in 1..n : order[i] = i
  BY <1>1, <1>2, <1>4, InPlace
<1> QED
  BY <1>1, <1>3, <1>5

\* What becomes of points in their order when one is added: it replaces the one of its
\* hour, or is put behind them, and then the oldest of too many is dropped.
LEMMA PointAdded ==
    ASSUME NEW points \in Seq(Nat), Hourly(points), Len(points) <= MaxPoints, NEW half \in Nat
    PROVE  LET n == Len(points)
               new == WithPoint(points, half)
           IN /\ new \in Seq(Nat) /\ Len(new) <= MaxPoints /\ Len(new) # 0
              /\ new[Len(new)] = half
              /\ n # 0 /\ Hour(points[n]) = Hour(half) =>
                   Len(new) = n /\ \A i \in 1..(n - 1) : new[i] = points[i]
              /\ ~(n # 0 /\ Hour(points[n]) = Hour(half)) /\ n < MaxPoints =>
                   Len(new) = n + 1 /\ \A i \in 1..n : new[i] = points[i]
              /\ ~(n # 0 /\ Hour(points[n]) = Hour(half)) /\ n = MaxPoints =>
                   Len(new) = n /\ \A i \in 1..(n - 1) : new[i] = points[i + 1]
<1> DEFINE n == Len(points)
           same == n # 0 /\ Hour(points[n]) = Hour(half)
           base == IF same THEN Front(points) ELSE points
           longer == base \o <<half>>
           new == WithPoint(points, half)
<1>1. n \in Nat /\ DOMAIN points = 1..n /\ (points # <<>> <=> n # 0) /\ MaxPoints \in Nat /\ MaxPoints # 0
      /\ \A i \in 1..n : points[i] \in Nat
  BY LenProperties, EmptySeq, HistoriesAssumption
<1>2. Sorted(points) = points
  <2>1. \A i, j \in DOMAIN points : i < j => points[i] < points[j]
    BY <1>1, HourIs DEF Hourly
  <2> QED
    BY <2>1, SortedIs
<1>3. new = SubSeq(longer, Len(longer) - (IF Len(longer) > MaxPoints THEN MaxPoints ELSE Len(longer)) + 1, Len(longer))
  BY <1>1, <1>2 DEF WithPoint, Last
<1> HIDE DEF n, same
<1>4. /\ base \in Seq(Nat) /\ Len(base) = (IF same THEN n - 1 ELSE n)
      /\ \A i \in 1..Len(base) : base[i] = points[i]
  <2>1. CASE same
    <3>1. base = SubSeq(points, 1, n - 1) /\ n # 0
      BY <2>1 DEF Front, n, same
    <3>2. /\ SubSeq(points, 1, n - 1) \in Seq(Nat) /\ Len(SubSeq(points, 1, n - 1)) = (IF 1 <= n - 1 THEN n - 1 - 1 + 1 ELSE 0)
          /\ \A i \in 1..(n - 1 - 1 + 1) : SubSeq(points, 1, n - 1)[i] = points[1 + i - 1]
      <4>1. \A i \in 1..(n - 1) : points[i] \in Nat
        BY <1>1
      <4> QED
        BY <1>1, <4>1, SubSeqProperties
    <3>3. (IF 1 <= n - 1 THEN n - 1 - 1 + 1 ELSE 0) = n - 1 /\ n - 1 - 1 + 1 = n - 1 /\ \A i \in 1..(n - 1) : 1 + i - 1 = i
      BY <1>1, <3>1
    <3> QED
      BY <2>1, <3>1, <3>2, <3>3
  <2>2. CASE ~same
    BY <1>1, <2>2 DEF n
  <2> QED
    BY <2>1, <2>2
<1> HIDE DEF base, new
<1>5. /\ longer \in Seq(Nat) /\ Len(longer) = Len(base) + 1
      /\ \A i \in 1..Len(base) : longer[i] = points[i]
      /\ longer[Len(base) + 1] = half
  <2>1. <<half>> \in Seq(Nat) /\ Len(<<half>>) = 1 /\ <<half>>[1] = half
    OBVIOUS
  <2> QED
    <3>1. /\ longer \in Seq(Nat) /\ Len(longer) = Len(base) + Len(<<half>>)
          /\ \A i \in 1..(Len(base) + Len(<<half>>)) :
                longer[i] = IF i <= Len(base) THEN base[i] ELSE <<half>>[i - Len(base)]
      BY <1>4, <2>1, ConcatProperties
    <3>2. Len(base) \in Nat
      BY <1>4, LenProperties
    <3>3. longer[Len(base) + 1] = <<half>>[(Len(base) + 1) - Len(base)] /\ (Len(base) + 1) - Len(base) = 1
      BY <2>1, <3>1, <3>2
    <3>4. \A i \in 1..Len(base) : longer[i] = base[i]
      BY <2>1, <3>1, <3>2
    <3> HIDE DEF longer
    <3> QED
      BY <1>4, <2>1, <3>1, <3>3, <3>4
<1> HIDE DEF longer
<1> DEFINE l == Len(longer)
           from == l - (IF l > MaxPoints THEN MaxPoints ELSE l) + 1
<1>6. l \in Nat /\ l # 0 /\ from \in Nat /\ from = (IF l > MaxPoints THEN l - MaxPoints + 1 ELSE 1) /\ from <= l /\ from # 0
      /\ Len(base) = l - 1
  <2>1. l \in Nat /\ Len(base) \in Nat /\ l = Len(base) + 1
    BY <1>4, <1>5, LenProperties
  <2> HIDE DEF l
  <2>2. CASE l > MaxPoints
    <3>1. from = l - MaxPoints + 1
      BY <2>2
    <3> HIDE DEF from
    <3> QED
      BY <1>1, <2>1, <2>2, <3>1
  <2>3. CASE ~(l > MaxPoints)
    <3>1. from = l - l + 1
      BY <2>3
    <3> HIDE DEF from
    <3> QED
      BY <1>1, <2>1, <2>3, <3>1
  <2> QED
    BY <2>2, <2>3
<1>7. /\ new \in Seq(Nat) /\ Len(new) = l - from + 1
      /\ \A i \in 1..(l - from + 1) : new[i] = longer[from + i - 1]
  <2>1. \A i \in from..l : longer[i] \in Nat
    <3>1. \A i \in from..l : i \in 1..l
      <4> HIDE DEF l, from
      <4> QED
        BY <1>6
    <3> QED
      BY <1>5, <3>1, ElementOfSeq
  <2>2. new = SubSeq(longer, from, l)
    BY <1>3
  <2> HIDE DEF from, l
  <2> QED
    BY <1>6, <2>1, <2>2, SubSeqProperties
<1> HIDE DEF l, from
<1>8. l = IF same THEN n ELSE n + 1
  BY <1>1, <1>4, <1>6
<1>9. Len(new) = (IF l > MaxPoints THEN MaxPoints ELSE l) /\ Len(new) # 0 /\ Len(new) <= MaxPoints
  BY <1>1, <1>6, <1>7
<1>10. new[Len(new)] = half
  <2>1. new[Len(new)] = longer[from + Len(new) - 1] /\ from + Len(new) - 1 = l
    <3>1. l - from + 1 \in 1..(l - from + 1) /\ from + (l - from + 1) - 1 = l
      BY <1>6
    <3> QED
      BY <1>7, <3>1
  <2> QED
    BY <1>5, <1>6, <2>1
<1>11. ASSUME NEW i \in Nat, i # 0, i < Len(new) PROVE new[i] = points[from + i - 1] /\ from + i - 1 \in 1..(l - 1)
  <2>1. new[i] = longer[from + i - 1] /\ from + i - 1 \in 1..(l - 1)
    <3>1. Len(new) = l - from + 1
      BY <1>7
    <3>2. i \in 1..(l - from + 1) /\ from + i - 1 \in 1..(l - 1)
      BY <1>6, <1>11, <3>1
    <3> QED
      BY <1>7, <3>2
  <2> QED
    BY <1>5, <1>6, <2>1
<1>12. CASE same
  <2>1. l = n /\ from = 1 /\ Len(new) = n
    BY <1>1, <1>6, <1>8, <1>9, <1>12
  <2>2. \A i \in 1..(n - 1) : new[i] = points[i]
    BY <1>1, <1>11, <2>1
  <2> QED
    BY <1>7, <1>9, <1>10, <1>12, <2>1, <2>2 DEF n, same, new
<1>13. CASE ~same /\ n < MaxPoints
  <2>1. l = n + 1 /\ from = 1 /\ Len(new) = n + 1
    BY <1>1, <1>6, <1>8, <1>9, <1>13
  <2>2. \A i \in 1..n : new[i] = points[i]
    BY <1>1, <1>11, <2>1
  <2> QED
    <3>1. new \in Seq(Nat)
      BY <1>7
    <3>2. n # MaxPoints
      BY <1>1, <1>13
    <3> QED
      BY <1>9, <1>10, <1>13, <2>1, <2>2, <3>1, <3>2 DEF n, same, new
<1>14. CASE ~same /\ n = MaxPoints
  <2>1. l = n + 1 /\ from = 2 /\ Len(new) = n
    BY <1>1, <1>6, <1>8, <1>9, <1>14
  <2>2. \A i \in 1..(n - 1) : new[i] = points[i + 1]
    BY <1>1, <1>11, <2>1
  <2> QED
    <3>1. new \in Seq(Nat)
      BY <1>7
    <3>2. ~(n < MaxPoints)
      BY <1>1, <1>14
    <3> QED
      BY <1>9, <1>10, <1>14, <2>1, <2>2, <3>1, <3>2 DEF n, same, new
<1>15. n <= MaxPoints
  BY DEF n
<1>16. same \/ (~same /\ n < MaxPoints) \/ (~same /\ n = MaxPoints)
  BY <1>1, <1>15
<1> QED
  BY <1>12, <1>13, <1>14, <1>16

\* The points after the i-th are of as many later hours.
LEMMA RankIs ==
    ASSUME NEW points \in Seq(Nat), Hourly(points), NEW i \in 0..Len(points)
    PROVE  LET later == {Hour(points[j]) : j \in (i + 1)..Len(points)}
           IN IsFiniteSet(later) /\ Cardinality(later) = Len(points) - i
<1> DEFINE n == Len(points)
           later == {Hour(points[j]) : j \in (i + 1)..n}
           f == [j \in (i + 1)..n |-> Hour(points[j])]
<1>1. n \in Nat /\ DOMAIN points = 1..n /\ i \in 0..n /\ \A j \in (i + 1)..n : j \in 1..n /\ Hour(points[j]) \in Nat
  <2>1. n \in Nat /\ DOMAIN points = 1..n
    BY LenProperties
  <2>2. \A j \in (i + 1)..n : j \in 1..n
    BY <2>1
  <2>3. \A j \in 1..n : Hour(points[j]) \in Nat
    BY <2>1, HourIs
  <2> QED
    BY <2>1, <2>2, <2>3
<1>2. f \in Injection((i + 1)..n, later)
  <2>1. f \in [(i + 1)..n -> later]
    OBVIOUS
  <2>2. \A j, k \in (i + 1)..n : f[j] = f[k] => j = k
    <3> TAKE j, k \in (i + 1)..n
    <3>1. j < k => Hour(points[j]) < Hour(points[k])
      BY <1>1 DEF Hourly
    <3>2. k < j => Hour(points[k]) < Hour(points[j])
      BY <1>1 DEF Hourly
    <3>3. Hour(points[j]) \in Nat /\ Hour(points[k]) \in Nat /\ j \in Int /\ k \in Int
      BY <1>1
    <3>4. f[j] = Hour(points[j]) /\ f[k] = Hour(points[k])
      OBVIOUS
    <3> HIDE DEF f, later
    <3> QED
      BY <3>1, <3>2, <3>3, <3>4
  <2> HIDE DEF f, later
  <2> QED
    BY <2>1, <2>2 DEF Injection, IsInjective
<1>3. f \in Surjection((i + 1)..n, later)
  BY DEF Surjection
<1>4. IsFiniteSet((i + 1)..n) /\ Cardinality((i + 1)..n) = n - i
  <2>1. i + 1 \in Int /\ n \in Int
    BY <1>1
  <2> HIDE DEF n
  <2> QED
    <3>1. IsFiniteSet((i + 1)..n) /\ Cardinality((i + 1)..n) = IF i + 1 > n THEN 0 ELSE n - (i + 1) + 1
      BY <2>1, FS_Interval
    <3>2. i \in Nat /\ n \in Nat /\ i <= n
      BY <1>1
    <3> QED
      BY <3>1, <3>2
<1>5. ExistsBijection((i + 1)..n, later)
  <2> HIDE DEF f, later
  <2> QED
    BY <1>2, <1>3 DEF ExistsBijection, Bijection
<1> QED
  <2> HIDE DEF f, later
  <2>1. IsFiniteSet(later) /\ Cardinality(later) = Cardinality((i + 1)..n)
    BY <1>4, <1>5, FS_Bijection
  <2> QED
    BY <1>4, <2>1 DEF later

\* The hours after that of the i-th point, in a history of the newest hours.
LEMMA LaterThan ==
    ASSUME NEW points \in Seq(Nat), Hourly(points), NEW hours \in SUBSET Nat, IsFiniteSet(hours),
           Hours(points) = Newest(hours), NEW i \in 1..Len(points)
    PROVE  {g \in hours : g > Hour(points[i])} = {Hour(points[j]) : j \in (i + 1)..Len(points)}
<1> DEFINE n == Len(points)
           h == Hour(points[i])
<1>1. n \in Nat /\ DOMAIN points = 1..n /\ \A j \in 1..n : points[j] \in Nat /\ Hour(points[j]) \in Nat
  BY LenProperties, HourIs
<1>2. h \in Newest(hours) /\ h \in Nat
  BY <1>1 DEF Hours
<1>3. ASSUME NEW g \in hours, g > h PROVE \E j \in (i + 1)..n : g = Hour(points[j])
  <2>1. {k \in hours : k > g} \in SUBSET {k \in hours : k > h}
    <3>1. \A k \in hours : k > g => k > h
      BY <1>2, <1>3
    <3> QED
      BY <3>1
  <2>2. IsFiniteSet({k \in hours : k > h}) /\ IsFiniteSet({k \in hours : k > g})
    <3>1. {k \in hours : k > h} \in SUBSET hours /\ {k \in hours : k > g} \in SUBSET hours
      OBVIOUS
    <3> QED
      BY <3>1, FS_Subset
  <2>3. Cardinality({k \in hours : k > g}) <= Cardinality({k \in hours : k > h})
    BY <2>1, <2>2, FS_Subset
  <2>4. Cardinality({k \in hours : k > h}) < MaxPoints
    BY <1>2 DEF Newest
  <2>5. Cardinality({k \in hours : k > g}) < MaxPoints
    BY <2>2, <2>3, <2>4, FS_CardinalityType, HistoriesAssumption
  <2>6. PICK j \in 1..n : g = Hour(points[j])
    BY <1>1, <1>3, <2>5 DEF Hours, Newest
  <2>7. j > i
    <3>1. j < i => Hour(points[j]) < h
      BY <1>1, <2>6 DEF Hourly
    <3>2. g \in Nat
      OBVIOUS
    <3>3. j # i /\ ~(j < i)
      BY <1>2, <1>3, <2>6, <3>1, <3>2
    <3> QED
      BY <1>1, <2>6, <3>3
  <2>8. j \in (i + 1)..n
    BY <1>1, <2>6, <2>7
  <2> QED
    BY <2>6, <2>8
<1>4. ASSUME NEW j \in (i + 1)..n PROVE Hour(points[j]) \in hours /\ Hour(points[j]) > h
  <2>1. j \in 1..n /\ i < j
    BY <1>1
  <2>2. h < Hour(points[j]) /\ Hour(points[j]) \in Nat
    BY <1>1, <2>1 DEF Hourly
  <2>3. Hour(points[j]) \in Newest(hours)
    BY <1>1, <2>1 DEF Hours
  <2> QED
    BY <1>2, <2>2, <2>3 DEF Newest
<1> QED
  BY <1>3, <1>4

\* The newest hours, with a point of an hour that none of them is after.
LEMMA NewestAdded ==
    ASSUME NEW points \in Seq(Nat), Hourly(points), Len(points) <= MaxPoints,
           NEW hours \in SUBSET Nat, IsFiniteSet(hours), Hours(points) = Newest(hours),
           NEW half \in Nat, \A h \in hours : h <= Hour(half)
    PROVE  /\ WithPoint(points, half) \in Seq(Nat) /\ Len(WithPoint(points, half)) <= MaxPoints
           /\ Hourly(WithPoint(points, half))
           /\ Hours(WithPoint(points, half)) = Newest(hours \cup {Hour(half)})
<1> DEFINE n == Len(points)
           H == Hour(half)
           M == MaxPoints
           new == WithPoint(points, half)
           same == n # 0 /\ Hour(points[n]) = H
<1>1. /\ n \in Nat /\ DOMAIN points = 1..n /\ n <= M /\ M \in Nat /\ M # 0 /\ H \in Nat
      /\ \A i \in 1..n : points[i] \in Nat /\ Hour(points[i]) \in Nat
  BY LenProperties, HourIs, HistoriesAssumption
<1>2. /\ new \in Seq(Nat) /\ Len(new) <= M /\ Len(new) # 0 /\ new[Len(new)] = half
      /\ same => Len(new) = n /\ \A i \in 1..(n - 1) : new[i] = points[i]
      /\ ~same /\ n < M => Len(new) = n + 1 /\ \A i \in 1..n : new[i] = points[i]
      /\ ~same /\ n = M => Len(new) = n /\ \A i \in 1..(n - 1) : new[i] = points[i + 1]
  BY PointAdded
<1>3. DOMAIN new = 1..Len(new) /\ Len(new) \in Nat
  BY <1>2, LenProperties
<1>4. \A i \in 1..n : Hour(points[i]) \in hours /\ Hour(points[i]) <= H
  <2>1. \A i \in 1..n : Hour(points[i]) \in Newest(hours)
    BY <1>1 DEF Hours
  <2> QED
    BY <2>1 DEF Newest
<1>5. \A i \in 1..n : Cardinality({g \in hours : g > Hour(points[i])}) = n - i
  <2> TAKE i \in 1..n
  <2>1. {g \in hours : g > Hour(points[i])} = {Hour(points[j]) : j \in (i + 1)..n}
    BY LaterThan
  <2>2. i \in 0..n
    BY <1>1
  <2> HIDE DEF n
  <2>3. Cardinality({Hour(points[j]) : j \in (i + 1)..n}) = n - i
    BY <2>2, RankIs DEF n
  <2> QED
    BY <2>1, <2>3
<1> HIDE DEF new, n, H, M
<1>6. CASE same
  <2>1. H \in hours
    BY <1>1, <1>4, <1>6
  <2>2. hours \cup {H} = hours
    BY <2>1
  <2>3. \A i \in 1..n : Hour(new[i]) = Hour(points[i])
    <3> TAKE i \in 1..n
    <3>1. CASE i = n
      BY <1>2, <1>6, <3>1 DEF H
    <3>2. CASE i # n
      <4>1. i \in 1..(n - 1)
        BY <1>1, <3>2
      <4> QED
        BY <1>2, <1>6, <4>1
    <3> QED
      BY <3>1, <3>2
  <2>4. Hourly(new) /\ Hours(new) = Hours(points)
    <3>1. DOMAIN new = DOMAIN points
      BY <1>1, <1>2, <1>3, <1>6
    <3> QED
      BY <1>1, <2>3, <3>1 DEF Hourly, Hours
  <2> QED
    BY <1>2, <2>2, <2>4 DEF new, H, M
<1>7. CASE ~same
  <2>1. \A h \in hours : h < H
    <3> SUFFICES ASSUME NEW h \in hours, ~(h < H) PROVE FALSE
      OBVIOUS
    <3>1. h = H
      BY <1>1 DEF H
    <3>2. {g \in hours : g > h} = {}
      <4>1. \A g \in hours : g <= h /\ g \in Nat
        BY <3>1 DEF H
      <4>2. \A g \in hours : ~(g > h)
        BY <4>1, <1>1, <3>1
      <4> QED
        BY <4>2
    <3>3. h \in Newest(hours)
      BY <1>1, <3>2, FS_EmptySet DEF Newest, M
    <3>4. PICK i \in 1..n : Hour(points[i]) = H
      BY <1>1, <3>1, <3>3 DEF Hours
    <3>5. i # n => Hour(points[i]) < Hour(points[n]) /\ Hour(points[n]) <= H
      <4>1. n \in 1..n /\ (i # n => i < n)
        BY <1>1, <3>4
      <4> QED
        BY <1>1, <1>4, <3>4, <4>1 DEF Hourly
    <3>6. i = n
      BY <1>1, <3>4, <3>5
    <3> QED
      BY <1>1, <1>7, <3>4, <3>6
  <2>2. ASSUME NEW h \in hours
        PROVE  h \in Newest(hours \cup {H}) <=> Cardinality({g \in hours : g > h}) < M - 1
    <3>1. {g \in hours \cup {H} : g > h} = {g \in hours : g > h} \cup {H}
      BY <1>1, <2>1
    <3>2. H \notin {g \in hours : g > h}
      BY <1>1, <2>1
    <3>3. IsFiniteSet({g \in hours : g > h})
      <4>1. {g \in hours : g > h} \in SUBSET hours
        OBVIOUS
      <4> QED
        BY <4>1, FS_Subset
    <3>4. Cardinality({g \in hours \cup {H} : g > h}) = Cardinality({g \in hours : g > h}) + 1
      BY <3>1, <3>2, <3>3, FS_AddElement
    <3> QED
      BY <1>1, <3>3, <3>4, FS_CardinalityType DEF Newest, M
  <2>3. H \in Newest(hours \cup {H})
    <3>1. \A g \in hours \cup {H} : ~(g > H)
      BY <1>1, <2>1
    <3>2. {g \in hours \cup {H} : g > H} = {}
      BY <3>1
    <3> QED
      <4>1. Cardinality({g \in hours \cup {H} : g > H}) < MaxPoints
        <5>1. Cardinality({g \in hours \cup {H} : g > H}) = 0
          BY <3>2, FS_EmptySet
        <5> QED
          BY <1>1, <5>1 DEF M
      <4> QED
        BY <4>1 DEF Newest
  \* Which of the points are of hours that stay.
  <2>4. ASSUME NEW h PROVE h \in Newest(hours \cup {H}) <=> h = H \/ \E i \in 1..n : h = Hour(points[i]) /\ n - i < M - 1
    <3>1. ASSUME h \in hours, h \in Newest(hours \cup {H}) PROVE \E i \in 1..n : h = Hour(points[i]) /\ n - i < M - 1
      <4>1. Cardinality({g \in hours : g > h}) < M - 1
        BY <2>2, <3>1
      <4>2. Cardinality({g \in hours : g > h}) \in Nat
        <5>1. {g \in hours : g > h} \in SUBSET hours
          OBVIOUS
        <5> QED
          BY <5>1, FS_Subset, FS_CardinalityType
      <4>3. h \in Newest(hours)
        BY <1>1, <3>1, <4>1, <4>2 DEF Newest, M
      <4>4. PICK i \in 1..n : h = Hour(points[i])
        BY <1>1, <4>3 DEF Hours
      <4> QED
        BY <1>5, <4>1, <4>4
    <3>2. ASSUME NEW i \in 1..n, h = Hour(points[i]), n - i < M - 1 PROVE h \in Newest(hours \cup {H})
      BY <1>4, <1>5, <2>2, <3>2
    <3>3. h \in Newest(hours \cup {H}) => h \in hours \/ h = H
      BY DEF Newest
    <3> QED
      BY <2>3, <3>1, <3>2, <3>3
  <2>5. \A i \in 1..n : Hour(points[i]) < H
    BY <1>4, <2>1
  <2>6. CASE n < M
    <3>1. Len(new) = n + 1 /\ DOMAIN new = 1..(n + 1) /\ (\A i \in 1..n : new[i] = points[i]) /\ Hour(new[n + 1]) = H
      BY <1>2, <1>3, <1>7, <2>6 DEF H
    <3>2. Hourly(new)
      BY <1>1, <2>5, <3>1 DEF Hourly
    <3>3. \A i \in 1..n : n - i < M - 1
      BY <1>1, <2>6
    <3>4. \A h : h \in Hours(new) <=> h = H \/ \E i \in 1..n : h = Hour(points[i])
      <4>1. \A i \in 1..(n + 1) : i = n + 1 \/ i \in 1..n
        BY <1>1
      <4>2. n + 1 \in 1..(n + 1) /\ \A i \in 1..n : i \in 1..(n + 1)
        BY <1>1
      <4> QED
        BY <3>1, <4>1, <4>2 DEF Hours
    <3>5. Hours(new) = Newest(hours \cup {H})
      BY <2>4, <3>3, <3>4
    <3> QED
      BY <1>2, <3>2, <3>5 DEF new, H, M
  <2>7. CASE n = M
    <3>1. Len(new) = n /\ DOMAIN new = 1..n /\ (\A i \in 1..(n - 1) : new[i] = points[i + 1]) /\ Hour(new[n]) = H
      BY <1>2, <1>3, <1>7, <2>7 DEF H
    <3>2. Hourly(new)
      <4> SUFFICES ASSUME NEW i \in 1..n, NEW j \in 1..n, i < j PROVE Hour(new[i]) < Hour(new[j])
        BY <3>1 DEF Hourly
      <4>1. i \in 1..(n - 1) /\ i + 1 \in 1..n /\ new[i] = points[i + 1]
        BY <1>1, <3>1
      <4>2. CASE j = n
        BY <2>5, <3>1, <4>1, <4>2
      <4>3. CASE j # n
        <5>1. j + 1 \in 1..n /\ new[j] = points[j + 1] /\ i + 1 < j + 1
          BY <1>1, <3>1, <4>3
        <5> QED
          BY <1>1, <4>1, <5>1 DEF Hourly
      <4> QED
        BY <4>2, <4>3
    <3>3. \A i \in 1..n : n - i < M - 1 <=> i # 1
      BY <1>1, <2>7
    <3>4. \A h : h \in Hours(new) <=> h = H \/ \E i \in 1..n : h = Hour(points[i]) /\ i # 1
      <4> TAKE h
      <4>1. ASSUME NEW i \in 1..n, h = Hour(new[i]) PROVE h = H \/ \E k \in 1..n : h = Hour(points[k]) /\ k # 1
        <5>1. CASE i = n
          BY <3>1, <4>1, <5>1
        <5>2. CASE i # n
          <6>1. i \in 1..(n - 1) /\ i + 1 \in 1..n /\ i + 1 # 1
            BY <1>1, <5>2
          <6> QED
            BY <3>1, <4>1, <6>1
        <5> QED
          BY <5>1, <5>2
      <4>2. ASSUME NEW k \in 1..n, h = Hour(points[k]), k # 1 PROVE h \in Hours(new)
        <5>1. k - 1 \in 1..(n - 1) /\ k - 1 \in 1..n /\ (k - 1) + 1 = k
          BY <1>1, <4>2
        <5>2. new[k - 1] = points[k]
          BY <3>1, <5>1
        <5> QED
          BY <3>1, <4>2, <5>1, <5>2 DEF Hours
      <4>3. H \in Hours(new)
        <5>1. n \in 1..n
          BY <1>1, <2>7
        <5> QED
          BY <3>1, <5>1 DEF Hours
      <4> QED
        BY <3>1, <4>1, <4>2, <4>3 DEF Hours
    <3>5. Hours(new) = Newest(hours \cup {H})
      BY <2>4, <3>3, <3>4
    <3> QED
      BY <1>2, <3>2, <3>5 DEF new, H, M
  <2> QED
    BY <1>1, <2>6, <2>7
<1> QED
  BY <1>6, <1>7

-----------------------------------------------------------------------------
LEMMA HistoryBegins == ValuesInit /\ PoolInit => HistoryInv
<1> SUFFICES ASSUME ValuesInit, PoolInit PROVE HistoryInv
  OBVIOUS
<1>1. \A t \in Threads : pc[t] # "equity"
  BY DEF PoolInit
<1>2. equity \in Seq(Nat) /\ Len(equity) = 0 /\ DOMAIN equity = {}
  BY DEF ValuesInit
<1>3. Hourly(equity) /\ Hours(equity) = {} /\ Newest(Seen(observed)) = {}
  BY <1>2 DEF Hourly, Hours, Newest, Seen, ValuesInit
<1> QED
  <2>1. halves = 0 /\ observed = {} /\ MaxPoints \in Nat
    BY HistoriesAssumption DEF ValuesInit
  <2>2. Len(equity) <= MaxPoints
    BY <1>2, <2>1
  <2> QED
    BY <1>1, <1>2, <1>3, <2>1, <2>2 DEF HistoryInv

LEMMA HistoryStays ==
    ASSUME HistoryInv, UNCHANGED <<equity, halves, observed, late>>,
           \A t \in Threads : pc'[t] = "equity" => pc[t] = "equity" /\ frame'[t] = frame[t]
    PROVE  HistoryInv'
BY DEF HistoryInv, Hourly, Hours, Newest, Seen

\* The hours seen so far are finitely many.
LEMMA SeenIs ==
    ASSUME HistoryInv
    PROVE  IsFiniteSet(Seen(observed)) /\ Seen(observed) \in SUBSET Nat
<1>1. halves \in Nat /\ IsFiniteSet(0..halves)
  BY FS_Interval DEF HistoryInv
<1>2. \A h \in 0..halves : Hour(h) \in 0..halves
  BY <1>1 DEF Hour
<1>3. Seen(observed) \in SUBSET (0..halves)
  BY <1>2 DEF HistoryInv, Seen
<1>4. IsFiniteSet(Seen(observed))
  BY <1>1, <1>3, FS_Subset
<1> QED
  BY <1>1, <1>3, <1>4

LEMMA RecordKeeps ==
    ASSUME HistoryInv, NEW t \in Threads, RecordEquity(t), Pool
    PROVE  HistoryInv'
<1> DEFINE half == frame[t].half
<1>1. /\ pc[t] = "equity" /\ half \in 0..halves /\ halves' = halves
      /\ equity' = WithPoint(equity, half) /\ observed' = observed \cup {half}
      /\ late' = (late \/ \E h \in observed : Hour(half) < Hour(h))
      /\ Go(t, "idle", NoFrame)
  BY DEF RecordEquity, At, HistoryInv, Done
<1> HIDE DEF half
<1>2. Seen(observed') = Seen(observed) \cup {Hour(half)}
  BY <1>1 DEF Seen
<1>3. ASSUME ~late' PROVE /\ equity' \in Seq(Nat) /\ Len(equity') <= MaxPoints
                          /\ Hourly(equity') /\ Hours(equity') = Newest(Seen(observed'))
  <2>1. ~late /\ \A h \in observed : ~(Hour(half) < Hour(h))
    BY <1>1, <1>3
  <2>2. /\ equity \in Seq(Nat) /\ Len(equity) <= MaxPoints
        /\ Hourly(equity) /\ Hours(equity) = Newest(Seen(observed))
    BY <2>1 DEF HistoryInv
  <2>3. half \in Nat /\ Hour(half) \in Nat /\ \A h \in observed : Hour(h) \in Nat
    BY <1>1, HourIs DEF HistoryInv
  <2>4. \A h \in Seen(observed) : h <= Hour(half)
    <3>1. \A h \in observed : Hour(h) <= Hour(half)
      BY <2>1, <2>3
    <3> QED
      BY <3>1 DEF Seen
  <2> QED
    <3> DEFINE hours == Seen(observed)
    <3>1. hours \in SUBSET Nat /\ IsFiniteSet(hours)
      BY SeenIs
    <3>2. Hours(equity) = Newest(hours) /\ \A h \in hours : h <= Hour(half)
      BY <2>2, <2>4
    <3> HIDE DEF hours
    <3>3. /\ WithPoint(equity, half) \in Seq(Nat) /\ Len(WithPoint(equity, half)) <= MaxPoints
          /\ Hourly(WithPoint(equity, half))
          /\ Hours(WithPoint(equity, half)) = Newest(hours \cup {Hour(half)})
      BY <2>2, <2>3, <3>1, <3>2, NewestAdded
    <3> QED
      BY <1>1, <1>2, <3>3 DEF hours
<1>4. \A u \in Threads : pc'[u] = "equity" => pc[u] = "equity" /\ frame'[u] = frame[u]
  BY <1>1 DEF Go, Pool
<1>5. halves' \in Nat /\ observed' \in SUBSET (0..halves')
  BY <1>1 DEF HistoryInv
<1>6. \A u \in Threads : pc'[u] = "equity" => frame'[u].half \in 0..halves'
  BY <1>1, <1>4 DEF HistoryInv
<1>7. HistoryInv' <=> /\ halves' \in Nat /\ observed' \in SUBSET (0..halves')
                      /\ \A u \in Threads : pc'[u] = "equity" => frame'[u].half \in 0..halves'
                      /\ late' \/ /\ equity' \in Seq(Nat) /\ Len(equity') <= MaxPoints
                                  /\ Hourly(equity') /\ Hours(equity') = Newest(Seen(observed'))
  BY DEF HistoryInv, Hourly, Hours, Newest, Seen
<1> QED
  BY <1>3, <1>5, <1>6, <1>7

\* What the invariant says of the points is the property.
LEMMA HistoryGives == HistoryInv => HistoryKeepsHours
<1> SUFFICES ASSUME HistoryInv, ~late PROVE HistoryKeepsHours
  BY DEF HistoryKeepsHours
<1>1. /\ equity \in Seq(Nat) /\ Hourly(equity) /\ Hours(equity) = Newest(Seen(observed))
  BY DEF HistoryInv
<1>2. Len(equity) \in Nat /\ DOMAIN equity = 1..Len(equity)
  BY <1>1, LenProperties
<1>3. Cardinality({Hour(equity[j]) : j \in (0 + 1)..Len(equity)}) = Len(equity) - 0
  <2>1. 0 \in 0..Len(equity)
    BY <1>2
  <2> QED
    BY <1>1, <2>1, RankIs
<1>4. {Hour(equity[j]) : j \in (0 + 1)..Len(equity)} = Hours(equity)
  BY <1>2 DEF Hours
<1>5. Len(equity) = Cardinality(Newest(Seen(observed)))
  <2>1. Cardinality(Hours(equity)) = Len(equity) - 0
    BY <1>3, <1>4
  <2>2. Len(equity) - 0 = Len(equity)
    BY <1>2
  <2> QED
    BY <1>1, <2>1, <2>2
<1> QED
  BY <1>1, <1>5 DEF HistoryKeepsHours, Hours, Newest, Seen

LEMMA HistoryKeeps ==
    ASSUME PointsInv, HistoryInv, ValuesNext
    PROVE  HistoryInv'
<1>1. Pool
  BY DEF PointsInv, FileInv
<1>2. CASE HalfHour
  <2>1. halves \in Nat /\ halves' = halves + 1 /\ UNCHANGED <<pc, frame, equity, observed, late>>
    BY <1>2 DEF HalfHour, pool, HistoryInv
  <2>2. 0..halves \subseteq 0..halves'
    BY <2>1
  <2>3. observed' \in SUBSET (0..halves') /\ halves' \in Nat
    BY <2>1, <2>2 DEF HistoryInv
  <2>4. \A t \in Threads : pc'[t] = "equity" => frame'[t].half \in 0..halves'
    BY <2>1, <2>2 DEF HistoryInv
  <2> QED
    BY <2>1, <2>3, <2>4 DEF HistoryInv, Hourly, Hours, Newest, Seen
<1>3. CASE ValuesRestart
  BY <1>3, HistoryStays DEF ValuesRestart
<1>4. ASSUME NEW t \in Threads, StartSleeves(t) \/ AddPoint(t) \/ SavePoints(t) PROVE HistoryInv'
  <2>1. PICK l, f : (Begin(t, l, f) \/ Go(t, l, f)) /\ l # "equity"
    <3>1. CASE StartSleeves(t)
      BY <3>1 DEF StartSleeves
    <3>2. CASE AddPoint(t)
      BY <3>2 DEF AddPoint
    <3>3. CASE SavePoints(t)
      <4>1. Go(t, "write", frame[t]) \/ Go(t, "replace", frame[t]) \/ Go(t, "idle", NoFrame)
        BY <3>3 DEF SavePoints, Save, OpenTemp, WriteTemp, ReplaceFile, Done
      <4> QED
        BY <4>1
    <3> QED
      BY <1>4, <3>1, <3>2, <3>3
  <2>2. UNCHANGED <<equity, halves, observed, late>>
    BY <1>4 DEF StartSleeves, AddPoint, SavePoints, valueVars
  <2> QED
    BY <1>1, <2>1, <2>2, Moves, HistoryStays DEF Moved
<1>5. ASSUME NEW t \in Threads, StartAccount(t) PROVE HistoryInv'
  <2>1. Begin(t, "equity", [op |-> "account", half |-> halves]) /\ UNCHANGED <<equity, halves, observed, late>>
    BY <1>5 DEF StartAccount, valueVars
  <2>2. Moved(t, "equity", [op |-> "account", half |-> halves])
    BY <1>1, <2>1, Moves
  <2>3. \A u \in Threads : pc'[u] = "equity" => frame'[u].half \in 0..halves'
    BY <2>1, <2>2 DEF Moved, HistoryInv
  <2> QED
    BY <2>1, <2>3 DEF HistoryInv, Hourly, Hours, Newest, Seen
<1> QED
  BY <1>1, <1>2, <1>3, <1>4, <1>5, RecordKeeps DEF ValuesNext

RecordsInv == IF focus = "values" THEN HistoryInv ELSE equity = <<>> /\ observed = {}

LEMMA RecordsBegin == LiveInit => RecordsInv
BY HistoryBegins DEF LiveInit, RecordsInv, ValuesInit

LEMMA RecordsKeep == LiveInv /\ RecordsInv /\ [LiveNext]_liveVars => RecordsInv'
<1> SUFFICES ASSUME LiveInv, RecordsInv, [LiveNext]_liveVars PROVE RecordsInv'
  OBVIOUS
<1>1. CASE UNCHANGED liveVars
  <2>1. UNCHANGED <<focus, pc, frame, equity, halves, observed, late>>
    BY <1>1 DEF liveVars, pool, valueVars
  <2> QED
    BY <2>1, HistoryStays DEF RecordsInv
<1>2. CASE LiveNext /\ ValuesStep
  <2>1. PointsInv /\ HistoryInv /\ ValuesNext /\ focus' = "values"
    BY <1>2 DEF LiveNext, ValuesStep, LiveInv, RecordsInv
  <2> QED
    BY <2>1, HistoryKeeps DEF RecordsInv
<1>3. CASE LiveNext /\ (OrdersStep \/ BrokersStep \/ SleeveStep \/ ScheduleStep)
  <2>1. focus # "values" /\ focus' = focus /\ UNCHANGED ownValues
    BY <1>3 DEF LiveNext, OrdersStep, BrokersStep, SleeveStep, ScheduleStep
  <2> QED
    BY <2>1 DEF RecordsInv, ownValues
<1> QED
  BY <1>1, <1>2, <1>3 DEF LiveNext

\* The equity history holds the newest hours in which the account was looked at, a point
\* for each, unless a request recorded its value after one of a later hour.
THEOREM NewestHoursAreKept == LiveSpec => []HistoryKeepsHours
<1>1. RecordsInv => HistoryKeepsHours
  <2> SUFFICES ASSUME RecordsInv PROVE HistoryKeepsHours
    OBVIOUS
  <2>1. CASE focus = "values"
    BY <2>1, HistoryGives DEF RecordsInv
  <2>2. CASE focus # "values"
    <3>1. equity = <<>> /\ observed = {}
      BY <2>2 DEF RecordsInv
    <3> QED
      BY <3>1, FS_EmptySet DEF HistoryKeepsHours
  <2> QED
    BY <2>1, <2>2
<1> QED
  BY <1>1, LiveInvariance, RecordsBegin, RecordsKeep, PTL DEF LiveSpec

-----------------------------------------------------------------------------
(* The schedule.  The calendar ends with a session that is not after today,  *)
(* and the time of the last action, when the ledger kept it, is its newest.  *)

ScheduleInv ==
    /\ holidays \in HolidaySets
    /\ today \in Nat /\ cached \in 0..today /\ IsSession(cached)
    /\ stamps \in [Symbols -> Unentered..today]
    /\ action.kept => /\ action.day \in 0..today
                      /\ \E s \in Symbols : stamps[s] = action.day
                      /\ \A s \in Symbols : stamps[s] <= action.day

\* So has a set of integers with a bound a greatest one.
LEMMA GreatestOf ==
    ASSUME NEW T \in SUBSET Int, T # {}, NEW b \in Int, \A d \in T : d <= b
    PROVE  Max(T) \in T /\ \A d \in T : d <= Max(T)
<1> DEFINE U == {b - d : d \in T}
<1>1. PICK n \in U : \A m \in U : n <= m
  <2>1. U \in SUBSET Nat /\ U # {}
    <3>1. \A d \in T : b - d \in Nat
      BY T \subseteq Int
    <3> QED
      BY <3>1
  <2> HIDE DEF U
  <2> QED
    BY <2>1, LeastOf
<1>2. PICK d \in T : n = b - d
  OBVIOUS
<1>3. \A e \in T : d >= e
  <2> SUFFICES ASSUME NEW e \in T PROVE d >= e
    OBVIOUS
  <2>1. b - e \in U
    OBVIOUS
  <2>2. b - d <= b - e /\ d \in Int /\ e \in Int
    BY <1>1, <1>2, <2>1
  <2> QED
    BY <2>2
<1> QED
  BY <1>3 DEF Max

LEMMA ScheduleBegins == ScheduleInit => ScheduleInv
<1> SUFFICES ASSUME ScheduleInit PROVE ScheduleInv
  OBVIOUS
<1> DEFINE T == {d \in 0..FirstDay : IsSession(d)}
<1>1. T # {} /\ T \in SUBSET Int /\ FirstDay \in Nat /\ \A d \in T : d <= FirstDay
  BY ScheduleAssumption DEF ScheduleInit, IsSession, IsSessionless
<1>2. Max(T) \in T
  <2> HIDE DEF T
  <2> QED
    BY <1>1, GreatestOf
<1> QED
  BY <1>1, <1>2 DEF ScheduleInit, ScheduleInv, NoAction, Unentered

LEMMA ScheduleKeeps == ScheduleInv /\ ScheduleNext => ScheduleInv'
<1> SUFFICES ASSUME ScheduleInv, ScheduleNext PROVE ScheduleInv'
  OBVIOUS
<1>1. CASE EnterBuy
  <2>1. PICK s \in Symbols : stamps' = [stamps EXCEPT ![s] = today]
    BY <1>1 DEF EnterBuy
  <2>2. stamps' \in [Symbols -> Unentered..today] /\ stamps'[s] = today
    BY <2>1 DEF ScheduleInv, Unentered
  <2>3. \A r \in Symbols : stamps'[r] <= today
    BY <2>2 DEF ScheduleInv, Unentered
  <2> QED
    BY <1>1, <2>2, <2>3 DEF EnterBuy, ScheduleInv, IsSession
<1>2. CASE EnterSell
  <2>1. PICK s \in Symbols, whole \in BOOLEAN :
          /\ stamps' = [stamps EXCEPT ![s] = IF whole THEN Unentered ELSE today]
          /\ action' = [day |-> today, kept |-> ~whole]
    BY <1>2 DEF EnterSell
  <2>2. stamps' \in [Symbols -> Unentered..today] /\ (~whole => stamps'[s] = today)
    BY <2>1 DEF ScheduleInv, Unentered
  <2>3. \A r \in Symbols : stamps'[r] <= today
    BY <2>2 DEF ScheduleInv, Unentered
  <2> QED
    <3>1. action'.kept = ~whole /\ action'.day = today /\ UNCHANGED <<holidays, today, cached>>
      BY <1>2, <2>1 DEF EnterSell
    <3>2. action'.kept => action'.day \in 0..today /\ \E r \in Symbols : stamps'[r] = action'.day
      <4>1. CASE whole
        <5>1. ~action'.kept
          BY <3>1, <4>1
        <5> QED
          BY <5>1
      <4>2. CASE ~whole
        BY <2>2, <3>1, <4>2 DEF ScheduleInv
      <4> QED
        BY <4>1, <4>2
    <3> QED
      BY <2>2, <2>3, <3>1, <3>2 DEF ScheduleInv, IsSession
<1>3. CASE DayPasses
  BY <1>3 DEF DayPasses, ScheduleInv, IsSession, Unentered
<1>4. CASE CacheCatchesUp
  BY <1>4 DEF CacheCatchesUp, ScheduleInv, IsSession, Unentered
<1> QED
  BY <1>1, <1>2, <1>3, <1>4 DEF ScheduleNext

-----------------------------------------------------------------------------
\* The days from a to b on which there is a session, that are weekdays, and that are
\* weekdays without a session.
Sessions(a, b) == {d \in a..b : IsSession(d)}
Weekdays(a, b) == {w \in a..b : ~IsSessionless(w)}
Missed(a, b) == {h \in a..b : h \in holidays /\ ~IsSessionless(h)}

\* Between two days there are finitely many sessions, weekdays and weekdays without one.
LEMMA Counts ==
    ASSUME NEW a \in Int, NEW b \in Int
    PROVE  /\ IsFiniteSet(Sessions(a, b)) /\ Cardinality(Sessions(a, b)) \in Nat
           /\ IsFiniteSet(Weekdays(a, b)) /\ Cardinality(Weekdays(a, b)) \in Nat
           /\ IsFiniteSet(Missed(a, b)) /\ Cardinality(Missed(a, b)) \in Nat
<1>1. /\ Sessions(a, b) \in SUBSET (a..b) /\ Weekdays(a, b) \in SUBSET (a..b) /\ Missed(a, b) \in SUBSET (a..b)
      /\ IsFiniteSet(a..b)
  BY FS_Interval DEF Sessions, Weekdays, Missed
<1> QED
  BY <1>1, FS_Subset, FS_CardinalityType

\* The cardinality of a set in two parts.
LEMMA Parts ==
    ASSUME NEW S, NEW T, IsFiniteSet(S), IsFiniteSet(T), S \cap T = {}
    PROVE  Cardinality(S \cup T) = Cardinality(S) + Cardinality(T)
<1>1. Cardinality(S) \in Nat /\ Cardinality(T) \in Nat
  BY FS_CardinalityType
<1>2. Cardinality(S \cup T) = Cardinality(S) + Cardinality(T) - Cardinality(S \cap T)
  BY FS_Union
<1> QED
  BY <1>1, <1>2, FS_EmptySet

\* The sessions of two spans that follow each other add up.
LEMMA SessionsSplit ==
    ASSUME NEW a \in Int, NEW b \in Int, NEW c \in Int, a <= b + 1, b <= c
    PROVE  Cardinality(Sessions(a, c)) = Cardinality(Sessions(a, b)) + Cardinality(Sessions(b + 1, c))
<1>1. Sessions(a, c) = Sessions(a, b) \cup Sessions(b + 1, c) /\ Sessions(a, b) \cap Sessions(b + 1, c) = {}
  BY DEF Sessions
<1>2. IsFiniteSet(Sessions(a, b)) /\ IsFiniteSet(Sessions(b + 1, c))
  BY Counts
<1> QED
  BY <1>1, <1>2, Parts

\* The weekdays up to a day: those before it with a session, those without, and itself.
LEMMA WeekdaysSplit ==
    ASSUME NEW a \in Int, NEW d \in Int, a <= d
    PROVE  Cardinality(Weekdays(a, d)) = Cardinality(Sessions(a, d - 1)) + Cardinality(Missed(a, d - 1))
                                         + (IF IsSessionless(d) THEN 0 ELSE 1)
<1>1. /\ Weekdays(a, d - 1) = Sessions(a, d - 1) \cup Missed(a, d - 1)
      /\ Sessions(a, d - 1) \cap Missed(a, d - 1) = {}
  BY DEF Weekdays, Sessions, Missed, IsSession
<1>2. Cardinality(Weekdays(a, d - 1)) = Cardinality(Sessions(a, d - 1)) + Cardinality(Missed(a, d - 1))
  <2>1. IsFiniteSet(Sessions(a, d - 1)) /\ IsFiniteSet(Missed(a, d - 1))
    BY Counts
  <2> QED
    BY <1>1, <2>1, Parts
<1>3. Weekdays(a, d) = IF IsSessionless(d) THEN Weekdays(a, d - 1) ELSE Weekdays(a, d - 1) \cup {d}
  BY DEF Weekdays
<1>4. d \notin Weekdays(a, d - 1)
  BY DEF Weekdays
<1> QED
  <2>1. /\ IsFiniteSet(Weekdays(a, d - 1)) /\ Cardinality(Sessions(a, d - 1)) \in Nat
        /\ Cardinality(Missed(a, d - 1)) \in Nat
    BY Counts
  <2>2. Cardinality(Weekdays(a, d - 1) \cup {d}) = Cardinality(Weekdays(a, d - 1)) + 1
    BY <1>4, <2>1, FS_AddElement
  <2> QED
    BY <1>2, <1>3, <2>1, <2>2

-----------------------------------------------------------------------------
(* The session axis.  *)

\* The sessions before a day.
Before(d) == Cardinality(Sessions(0, d - 1))

\* How far the calendar's count is off the exchange's.
Off(d) == SessionIndex(d) - Before(d)

\* The calendar has as many sessions as there are up to its end.
LEMMA CalendarCount ==
    ASSUME ScheduleInv
    PROVE  /\ Cardinality(Calendar) = Before(cached) + 1
           /\ Cardinality(Calendar) = Before(cached + 1)
           /\ IsFiniteSet(Calendar)
<1>1. cached \in Nat /\ IsSession(cached)
  BY DEF ScheduleInv
<1>2. Calendar = Sessions(0, cached - 1) \cup {cached} /\ cached \notin Sessions(0, cached - 1) /\ Calendar = Sessions(0, cached)
  BY <1>1 DEF Calendar, Sessions
<1>3. IsFiniteSet(Sessions(0, cached - 1)) /\ IsFiniteSet(Sessions(0, cached))
  BY <1>1, Counts
<1> QED
  BY <1>1, <1>2, <1>3, FS_AddElement DEF Before

\* After the end of the calendar the axis is ahead of the exchange by the weekdays missed since.
LEMMA OffAxis ==
    ASSUME ScheduleInv, NEW d \in Nat
    PROVE  /\ SessionIndex(d) \in Int /\ Before(d) \in Nat
           /\ d <= cached => Off(d) = 0
           /\ d > cached => Off(d) = Cardinality(Missed(cached + 1, d - 1)) - (IF IsSessionless(d) THEN 1 ELSE 0)
<1>1. cached \in Nat
  BY DEF ScheduleInv
<1>2. Before(d) \in Nat /\ Before(cached + 1) \in Nat
  BY <1>1, Counts DEF Before
<1>3. CASE d <= cached
  <2>1. {c \in Calendar : c < d} = Sessions(0, d - 1)
    BY <1>1, <1>3 DEF Calendar, Sessions
  <2> QED
    BY <1>1, <1>2, <1>3, <2>1 DEF SessionIndex, Off, Before
<1>4. CASE d > cached
  <2>1. {w \in (cached + 1)..d : ~IsSessionless(w)} = Weekdays(cached + 1, d)
    BY DEF Weekdays
  <2>2. Before(d) = Before(cached + 1) + Cardinality(Sessions(cached + 1, d - 1))
    <3>1. Cardinality(Sessions(0, d - 1)) = Cardinality(Sessions(0, cached)) + Cardinality(Sessions(cached + 1, d - 1))
      BY <1>1, <1>4, SessionsSplit
    <3> QED
      BY <1>1, <3>1 DEF Before
  <2>3. Cardinality(Weekdays(cached + 1, d)) =
          Cardinality(Sessions(cached + 1, d - 1)) + Cardinality(Missed(cached + 1, d - 1)) + (IF IsSessionless(d) THEN 0 ELSE 1)
    BY <1>1, <1>4, WeekdaysSplit
  <2>4. SessionIndex(d) = Before(cached + 1) - 1 + Cardinality(Weekdays(cached + 1, d))
    <3>1. SessionIndex(d) = Cardinality(Calendar) - 1 + Cardinality({w \in (cached + 1)..d : ~IsSessionless(w)})
      BY <1>1, <1>4 DEF SessionIndex
    <3> QED
      BY <2>1, <3>1, CalendarCount
  <2>5. /\ Cardinality(Sessions(cached + 1, d - 1)) \in Nat /\ Cardinality(Missed(cached + 1, d - 1)) \in Nat
        /\ Cardinality(Weekdays(cached + 1, d)) \in Nat
    BY <1>1, Counts
  <2> QED
    BY <1>1, <1>2, <1>4, <2>2, <2>3, <2>4, <2>5 DEF Off
<1> QED
  BY <1>1, <1>3, <1>4

\* A longer span misses no fewer sessions.
LEMMA MissedGrow ==
    ASSUME NEW a \in Int, NEW b \in Int, NEW c \in Int, b <= c
    PROVE  Cardinality(Missed(a, b)) <= Cardinality(Missed(a, c))
<1>1. Missed(a, b) \in SUBSET Missed(a, c)
  BY DEF Missed
<1> QED
  BY <1>1, Counts, FS_Subset

\* The last rebalance was no later than today, and is the one kept in the file.
LEMMA LastIs ==
    ASSUME ScheduleInv
    PROVE  /\ LastRebalance \in Unentered..today
           /\ action.kept => LastRebalance = action.day
<1> DEFINE T == {stamps[s] : s \in Symbols}
<1>1. T # {} /\ T \in SUBSET Int /\ today \in Int /\ (\A d \in T : d <= today) /\ T \subseteq Unentered..today
  BY ScheduleAssumption DEF ScheduleInv, Unentered
<1>2. Max(T) \in T /\ \A d \in T : d <= Max(T)
  <2> HIDE DEF T
  <2> QED
    BY <1>1, GreatestOf
<1>3. action.kept => action.day \in T /\ \A d \in T : d <= action.day
  BY DEF ScheduleInv
<1>4. LastRebalance = Max(T)
  BY DEF LastRebalance
<1> HIDE DEF T
<1>5. action.kept => Max(T) = action.day
  <2>1. \A d \in T : d \in Int
    BY <1>1
  <2>2. action.kept => Max(T) <= action.day /\ action.day <= Max(T) /\ Max(T) \in Int /\ action.day \in Int
    BY <1>2, <1>3, <2>1
  <2> QED
    BY <2>2
<1> QED
  BY <1>1, <1>2, <1>4, <1>5

\* What is left of the period, against the exchange's count.
LEMMA Consistent ==
    ASSUME ScheduleInv, HasSchedule, action.kept
    PROVE  LET unseen == Cardinality({h \in holidays : h > cached /\ h <= today /\ ~IsSessionless(h)})
           IN Remaining - (Period - Elapsed) \in (-1 - unseen)..1
<1> DEFINE L == LastRebalance
           unseen == Cardinality(Missed(cached + 1, today))
<1>1. cached \in Nat /\ today \in Nat /\ cached <= today /\ L \in 0..today /\ Period \in Nat /\ L = action.day
  BY LastIs, ScheduleAssumption DEF ScheduleInv, HasSchedule, Unentered
<1> HIDE DEF L
<1>2. {h \in holidays : h > cached /\ h <= today /\ ~IsSessionless(h)} = Missed(cached + 1, today)
  <2>1. holidays \subseteq Nat
    BY ScheduleAssumption DEF ScheduleInv
  <2>2. \A h \in holidays : (h > cached /\ h <= today) <=> h \in (cached + 1)..today
    BY <1>1, <2>1
  <2> QED
    BY <2>2 DEF Missed
<1>3. Before(today) = Before(L) + Elapsed /\ Elapsed \in Nat
  <2>1. Elapsed = Cardinality(Sessions(L, today - 1))
    BY <1>1 DEF Elapsed, Sessions
  <2>2. Cardinality(Sessions(0, today - 1)) = Cardinality(Sessions(0, L - 1)) + Cardinality(Sessions((L - 1) + 1, today - 1))
    BY <1>1, SessionsSplit
  <2>3. (L - 1) + 1 = L
    BY <1>1
  <2> QED
    <3>1. Cardinality(Sessions(L, today - 1)) \in Nat
      <4>1. L \in Int /\ today - 1 \in Int
        BY <1>1
      <4> QED
        BY <4>1, Counts
    <3> QED
      BY <2>1, <2>2, <2>3, <3>1 DEF Before
<1>4. Remaining = SessionIndex(L) + Period - SessionIndex(today)
  BY DEF Remaining, L
<1>5. /\ SessionIndex(L) \in Int /\ Before(L) \in Nat /\ SessionIndex(today) \in Int /\ Before(today) \in Nat
  BY <1>1, OffAxis
<1>6. Remaining - (Period - Elapsed) = Off(L) - Off(today)
  BY <1>1, <1>3, <1>4, <1>5 DEF Off
<1>7. Off(L) - Off(today) \in (-1 - unseen)..1
  <2>1. Off(L) = IF L <= cached THEN 0 ELSE Cardinality(Missed(cached + 1, L - 1)) - (IF IsSessionless(L) THEN 1 ELSE 0)
    BY <1>1, OffAxis
  <2>2. Off(today) = IF today <= cached THEN 0 ELSE Cardinality(Missed(cached + 1, today - 1)) - (IF IsSessionless(today) THEN 1 ELSE 0)
    BY <1>1, OffAxis
  <2>3. /\ Cardinality(Missed(cached + 1, L - 1)) <= Cardinality(Missed(cached + 1, today - 1))
        /\ Cardinality(Missed(cached + 1, today - 1)) <= unseen
    BY <1>1, MissedGrow
  <2>4. /\ Cardinality(Missed(cached + 1, L - 1)) \in Nat /\ Cardinality(Missed(cached + 1, today - 1)) \in Nat
        /\ unseen \in Nat
    <3>1. cached + 1 \in Int /\ L - 1 \in Int /\ today - 1 \in Int /\ today \in Int
      BY <1>1
    <3> QED
      BY <3>1, Counts
  <2> QED
    BY <1>1, <2>1, <2>2, <2>3, <2>4
<1> QED
  BY <1>2, <1>6, <1>7

-----------------------------------------------------------------------------
(* The due date. *)

\* A count that goes up by one at most takes every value up to where it gets.
GoesUp(f) == f \in [Nat -> Nat] /\ f[0] = 0 /\ \A n \in Nat : f[n + 1] = f[n] \/ f[n + 1] = f[n] + 1

\* What starts under a number and goes up by one at most takes that number on its way.
LEMMA TakesEach ==
    ASSUME NEW f, GoesUp(f), NEW k \in Nat, NEW m \in Nat, f[m] > k
    PROVE  \E n \in Nat : n < m /\ f[n] = k /\ f[n + 1] = k + 1
<1>0. f \in [Nat -> Nat] /\ f[0] = 0 /\ \A n \in Nat : f[n + 1] = f[n] \/ f[n + 1] = f[n] + 1
  BY DEF GoesUp
<1> DEFINE T == {n \in Nat : f[n] > k}
<1>1. PICK n \in T : \A x \in T : n <= x
  <2>1. T \in SUBSET Nat /\ T # {}
    OBVIOUS
  <2> HIDE DEF T
  <2> QED
    BY <2>1, LeastOf
<1>2. n \in Nat /\ n # 0 /\ f[n] > k /\ n <= m
  BY <1>0, <1>1
<1>3. n - 1 \in Nat /\ (n - 1) + 1 = n /\ n - 1 \notin T
  BY <1>1, <1>2
<1>4. f[n - 1] \in Nat /\ f[n] \in Nat /\ ~(f[n - 1] > k)
  BY <1>0, <1>2, <1>3
<1>5. f[(n - 1) + 1] = f[n - 1] \/ f[(n - 1) + 1] = f[n - 1] + 1
  BY <1>0, <1>3
<1>6. f[n] = f[n - 1] \/ f[n] = f[n - 1] + 1
  BY <1>3, <1>5
<1>7. n - 1 < m /\ f[n - 1] = k /\ f[n] = k + 1
  BY <1>2, <1>3, <1>4, <1>6
<1> QED
  BY <1>3, <1>7

\* The weekdays of the n days after a day.
After(c, n) == Cardinality(Weekdays(c + 1, c + n))

\* Every day after the calendar adds a place on the axis, unless it is on a weekend.
LEMMA AfterGrows ==
    ASSUME NEW c \in Nat, NEW n \in Nat
    PROVE  /\ After(c, n) \in Nat
           /\ After(c, 0) = 0
           /\ After(c, n + 1) = After(c, n) + (IF IsSessionless(c + n + 1) THEN 0 ELSE 1)
<1>1. Weekdays(c + 1, c + 0) = {}
  BY DEF Weekdays
<1>2. Weekdays(c + 1, c + (n + 1)) = IF IsSessionless(c + n + 1) THEN Weekdays(c + 1, c + n) ELSE Weekdays(c + 1, c + n) \cup {c + n + 1}
  BY DEF Weekdays
<1>3. c + n + 1 \notin Weekdays(c + 1, c + n)
  BY DEF Weekdays
<1>4. IsFiniteSet(Weekdays(c + 1, c + n)) /\ Cardinality(Weekdays(c + 1, c + n)) \in Nat
  <2>1. c + 1 \in Int /\ c + n \in Int
    OBVIOUS
  <2> QED
    BY <2>1, Counts
<1>5. Cardinality(Weekdays(c + 1, c + n) \cup {c + n + 1}) = Cardinality(Weekdays(c + 1, c + n)) + 1
  BY <1>3, <1>4, FS_AddElement
<1> QED
  BY <1>1, <1>2, <1>4, <1>5, FS_EmptySet DEF After

\* Where a day is in its week: 2 for each weekday that is over, and 5 less for each
\* day of the weekend.
Phase(d) == IF d % 7 = 6 THEN 0 ELSE IF d % 7 = 5 THEN 5 ELSE 2 * (d % 7) + 2

\* Twice the weekdays, over seven days, less five on a day of the weekend.
LEMMA PhaseMoves ==
    ASSUME NEW d \in Nat
    PROVE  /\ Phase(d) \in 0..10
           /\ Phase(d + 1) = Phase(d) + (IF IsSessionless(d + 1) THEN -5 ELSE 2)
<1>1. d % 7 \in 0..6 /\ (d + 1) % 7 = IF d % 7 = 6 THEN 0 ELSE (d % 7) + 1
  OBVIOUS
<1> QED
  BY <1>1 DEF Phase, IsSessionless

\* Five days of seven are weekdays.
LEMMA FiveOfSeven ==
    ASSUME NEW c \in Nat, NEW n \in Nat
    PROVE  7 * After(c, n) = 5 * n + Phase(c + n) - Phase(c)
<1> DEFINE T == {x \in Nat : 7 * After(c, x) # 5 * x + Phase(c + x) - Phase(c)}
<1>1. SUFFICES ASSUME T # {} PROVE FALSE
  OBVIOUS
<1>2. PICK x \in T : \A y \in T : x <= y
  <2>1. T \in SUBSET Nat
    OBVIOUS
  <2> HIDE DEF T
  <2> QED
    BY <1>1, <2>1, LeastOf
<1>3. x \in Nat /\ 7 * After(c, x) # 5 * x + Phase(c + x) - Phase(c)
  BY <1>2
<1>4. CASE x = 0
  <2>1. c + x = c /\ Phase(c) \in 0..10 /\ After(c, x) = 0
    BY <1>4, PhaseMoves, AfterGrows
  <2> QED
    BY <1>3, <1>4, <2>1
<1>5. CASE x # 0
  <2>1. PICK y \in Nat : x = y + 1
    BY <1>3, <1>5, x - 1 \in Nat
  <2>2. y \notin T
    BY <1>2, <1>3, <2>1
  <2>3. 7 * After(c, y) = 5 * y + Phase(c + y) - Phase(c)
    BY <2>2
  <2>4. /\ After(c, x) = After(c, y) + (IF IsSessionless(c + y + 1) THEN 0 ELSE 1) /\ After(c, y) \in Nat
    BY <2>1, AfterGrows
  <2>5. /\ Phase(c + y) \in 0..10 /\ Phase(c) \in 0..10
        /\ Phase(c + x) = Phase(c + y) + (IF IsSessionless(c + y + 1) THEN -5 ELSE 2)
    <3>1. c + y \in Nat /\ (c + y) + 1 = c + x /\ (c + y) + 1 = c + y + 1
      BY <2>1
    <3>2. Phase(c + y) \in 0..10 /\ Phase((c + y) + 1) = Phase(c + y) + (IF IsSessionless((c + y) + 1) THEN -5 ELSE 2)
      BY <3>1, PhaseMoves
    <3> QED
      BY <3>1, <3>2, PhaseMoves
  <2> HIDE DEF T
  <2> QED
    BY <1>3, <2>1, <2>3, <2>4, <2>5
<1> QED
  BY <1>4, <1>5

\* The place of a day on the axis, of a day of the calendar and of one after it.
LEMMA Places ==
    ASSUME ScheduleInv, NEW d \in Nat
    PROVE  /\ Cardinality(Calendar) - 1 \in Nat
           /\ d <= cached => SessionIndex(d) = Before(d)
           /\ d > cached => /\ SessionIndex(d) = Cardinality(Calendar) - 1 + After(cached, d - cached)
                            /\ After(cached, d - cached) \in Nat
           /\ SessionIndex(d) \in Nat
<1>1. cached \in Nat /\ Before(cached) \in Nat /\ Before(d) \in Nat
  <2>1. cached \in Nat
    BY DEF ScheduleInv
  <2>2. 0 \in Int /\ cached - 1 \in Int /\ d - 1 \in Int
    BY <2>1
  <2> QED
    BY <2>1, <2>2, Counts DEF Before
<1>2. Cardinality(Calendar) - 1 = Before(cached)
  BY <1>1, CalendarCount
<1>3. CASE d <= cached
  <2>1. SessionIndex(d) \in Int /\ Off(d) = 0
    BY <1>3, OffAxis
  <2>2. SessionIndex(d) = Before(d)
    BY <1>1, <2>1 DEF Off
  <2> QED
    BY <1>1, <1>2, <1>3, <2>2
<1>4. CASE d > cached
  <2>1. cached + (d - cached) = d /\ d - cached \in Nat
    BY <1>1, <1>4
  <2>2. After(cached, d - cached) = Cardinality({w \in (cached + 1)..d : ~IsSessionless(w)})
    BY <2>1 DEF After, Weekdays
  <2>3. SessionIndex(d) = Cardinality(Calendar) - 1 + After(cached, d - cached)
    BY <1>1, <1>4, <2>2 DEF SessionIndex
  <2>4. After(cached, d - cached) \in Nat
    BY <1>1, <2>1, AfterGrows
  <2> QED
    BY <1>1, <1>2, <1>4, <2>3, <2>4
<1> QED
  BY <1>1, <1>3, <1>4

\* The calendar has a session at each of its places.
LEMMA CalendarPlaces ==
    ASSUME ScheduleInv, NEW k \in Nat, k < Cardinality(Calendar)
    PROVE  \E c \in Calendar : Cardinality({e \in Calendar : e < c}) = k
<1> DEFINE f == [n \in Nat |-> Cardinality({e \in Calendar : e < n})]
<1>1. IsFiniteSet(Calendar) /\ Calendar \subseteq Nat /\ cached \in Nat
  BY CalendarCount DEF Calendar, ScheduleInv
<1>2. ASSUME NEW n \in Nat
      PROVE  /\ f[n] \in Nat
             /\ f[n + 1] = f[n] + (IF n \in Calendar THEN 1 ELSE 0)
  <2>1. {e \in Calendar : e < n + 1} = IF n \in Calendar THEN {e \in Calendar : e < n} \cup {n} ELSE {e \in Calendar : e < n}
    <3>1. \A e \in Calendar : e < n + 1 <=> e < n \/ e = n
      BY <1>1
    <3>2. ~(n < n)
      OBVIOUS
    <3> QED
      BY <3>1, <3>2
  <2>2. IsFiniteSet({e \in Calendar : e < n}) /\ Cardinality({e \in Calendar : e < n}) \in Nat
    <3>1. {e \in Calendar : e < n} \in SUBSET Calendar
      OBVIOUS
    <3> QED
      BY <1>1, <3>1, FS_Subset, FS_CardinalityType
  <2>3. Cardinality({e \in Calendar : e < n} \cup {n}) = Cardinality({e \in Calendar : e < n}) + 1
    <3>1. n \notin {e \in Calendar : e < n}
      OBVIOUS
    <3> QED
      BY <2>2, <3>1, FS_AddElement
  <2> QED
    BY <2>1, <2>2, <2>3
<1>3. f[0] = 0
  <2>1. {e \in Calendar : e < 0} = {}
    <3>1. \A e \in Calendar : ~(e < 0)
      BY <1>1
    <3> QED
      BY <3>1
  <2> QED
    BY <2>1, FS_EmptySet
<1>4. f[cached + 1] = Cardinality(Calendar)
  <2>1. {e \in Calendar : e < cached + 1} = Calendar
    BY <1>1 DEF Calendar
  <2> QED
    BY <1>1, <2>1
<1>5. f \in [Nat -> Nat]
  <2>1. \A n \in Nat : f[n] \in Nat
    BY <1>2
  <2>2. f = [n \in Nat |-> f[n]]
    OBVIOUS
  <2> HIDE DEF f
  <2> QED
    BY <2>1, <2>2
<1>6. PICK n \in Nat : n < cached + 1 /\ f[n] = k /\ f[n + 1] = k + 1
  <2> HIDE DEF f
  <2>1. cached + 1 \in Nat /\ f[cached + 1] > k
    BY <1>1, <1>4
  <2>2. GoesUp(f)
    BY <1>2, <1>3, <1>5 DEF GoesUp
  <2> QED
    BY <2>1, <2>2, TakesEach
<1>7. n \in Calendar
  <2> HIDE DEF f
  <2>1. f[n + 1] = f[n] + (IF n \in Calendar THEN 1 ELSE 0)
    BY <1>2
  <2> QED
    BY <1>6, <2>1
<1> QED
  BY <1>6, <1>7

\* Past the calendar there is a weekday for each further place, and no more
\* days than two for each of them and a weekend.
LEMMA WeekdayPlaces ==
    ASSUME NEW c \in Nat, NEW k \in Nat, k # 0
    PROVE  \E n \in 1..(2 * k + 2) : After(c, n) = k /\ ~IsSessionless(c + n)
<1> DEFINE f == [n \in Nat |-> After(c, n)]
<1>1. \A n \in Nat : /\ f[n] \in Nat
                      /\ f[n + 1] = f[n] + (IF IsSessionless(c + n + 1) THEN 0 ELSE 1)
  <2> TAKE n \in Nat
  <2>1. n + 1 \in Nat
    OBVIOUS
  <2>2. f[n] = After(c, n) /\ f[n + 1] = After(c, n + 1)
    BY <2>1
  <2> HIDE DEF f
  <2> QED
    <3>1. After(c, n) \in Nat /\ After(c, n + 1) = After(c, n) + (IF IsSessionless(c + n + 1) THEN 0 ELSE 1)
      BY AfterGrows
    <3> QED
      BY <2>2, <3>1
<1>2. f[0] = 0 /\ f \in [Nat -> Nat]
  BY AfterGrows
<1>3. f[2 * k + 2] > k - 1
  <2>1. 2 * k + 2 \in Nat
    OBVIOUS
  <2>2. 7 * After(c, 2 * k + 2) = 5 * (2 * k + 2) + Phase(c + (2 * k + 2)) - Phase(c)
    BY <2>1, FiveOfSeven
  <2>3. Phase(c + (2 * k + 2)) \in 0..10 /\ Phase(c) \in 0..10 /\ After(c, 2 * k + 2) \in Nat
    BY <2>1, PhaseMoves, AfterGrows
  <2>4. f[2 * k + 2] = After(c, 2 * k + 2)
    BY <2>1
  <2> HIDE DEF f
  <2> QED
    BY <2>2, <2>3, <2>4
<1> HIDE DEF f
<1>4. PICK n \in Nat : n < 2 * k + 2 /\ f[n] = k - 1 /\ f[n + 1] = (k - 1) + 1
  <2>1. k - 1 \in Nat /\ 2 * k + 2 \in Nat
    OBVIOUS
  <2>2. GoesUp(f)
    BY <1>1, <1>2 DEF GoesUp
  <2> QED
    BY <1>3, <2>1, <2>2, TakesEach
<1>5. f[n + 1] = k /\ ~IsSessionless(c + n + 1) /\ n + 1 \in 1..(2 * k + 2)
  BY <1>1, <1>4
<1>6. f[n + 1] = After(c, n + 1) /\ c + (n + 1) = c + n + 1
  BY DEF f
<1> QED
  BY <1>5, <1>6

\* A later weekday is further on.
LEMMA AfterOrdered ==
    ASSUME NEW c \in Nat, NEW m \in Nat, NEW n \in Nat, m <= n
    PROVE  /\ After(c, m) <= After(c, n)
           /\ m < n /\ ~IsSessionless(c + n) => After(c, m) < After(c, n)
<1>1. IsFiniteSet(Weekdays(c + 1, c + n)) /\ c + 1 \in Int /\ c + n \in Int
  BY Counts
<1>2. Weekdays(c + 1, c + m) \in SUBSET Weekdays(c + 1, c + n)
  BY DEF Weekdays
<1>3. After(c, m) \in Nat /\ After(c, n) \in Nat
  BY AfterGrows
<1>4. m < n /\ ~IsSessionless(c + n) => c + n \in Weekdays(c + 1, c + n) /\ c + n \notin Weekdays(c + 1, c + m)
  BY DEF Weekdays
<1> QED
  BY <1>1, <1>2, <1>3, <1>4, FS_Subset DEF After

\* The status says due from the due date on, whether or not the calendar has it.
LEMMA DueFromDueDate ==
    ASSUME ScheduleInv, HasSchedule
    PROVE  (Status = "due") = (DueDate <= today)
<1> DEFINE due == SessionIndex(LastRebalance) + Period
           size == Cardinality(Calendar)
<1>1. /\ cached \in Nat /\ today \in Nat /\ cached <= today /\ LastRebalance \in Nat /\ Period \in Nat
  BY LastIs, ScheduleAssumption DEF ScheduleInv, HasSchedule, Unentered
<1>2. due \in Nat /\ SessionIndex(today) \in Nat /\ size - 1 \in Nat /\ size \in Nat
  <2>1. SessionIndex(LastRebalance) \in Nat /\ SessionIndex(today) \in Nat /\ size - 1 \in Nat
    BY <1>1, Places
  <2>2. size \in Nat
    BY CalendarCount, FS_CardinalityType
  <2> QED
    BY <1>1, <2>1, <2>2
<1>3. (Status = "due") <=> due <= SessionIndex(today)
  <2>1. Remaining = due - SessionIndex(today)
    <3>1. SessionIndex(LastRebalance) \in Nat /\ SessionIndex(today) \in Nat
      BY <1>1, Places
    <3> QED
      BY <1>1, <3>1 DEF Remaining
  <2>2. (Status = "due") <=> Remaining <= 0
    BY DEF Status
  <2> HIDE DEF due
  <2> QED
    BY <1>2, <2>1, <2>2
<1>4. SessionIndex(today) = size - 1 + After(cached, today - cached) /\ After(cached, today - cached) \in Nat /\ today - cached \in Nat
  <2>1. CASE today = cached
    BY <1>1, <2>1, Places, CalendarCount, AfterGrows
  <2>2. CASE today > cached
    BY <1>1, <2>2, Places
  <2> QED
    BY <1>1, <2>1, <2>2
<1>5. CASE due < size
  <2>1. DueDate = CHOOSE c \in Calendar : Cardinality({e \in Calendar : e < c}) = due
    BY <1>5 DEF DueDate
  <2> HIDE DEF due, size
  <2>2. DueDate \in Calendar
    BY <1>2, <1>5, <2>1, CalendarPlaces DEF size
  <2>3. DueDate <= today
    BY <1>1, <2>2 DEF Calendar
  <2> QED
    BY <1>2, <1>3, <1>4, <1>5, <2>3
<1>6. CASE due >= size
  <2> DEFINE k == due - (size - 1)
  <2>1. DueDate = CHOOSE d \in cached..(cached + 2 * due + 2) :
              /\ Cardinality({w \in (cached + 1)..d : ~IsSessionless(w)}) = k
              /\ d = cached \/ ~IsSessionless(d)
    <3>1. ~(due < size)
      BY <1>2, <1>6
    <3> QED
      BY <3>1 DEF DueDate
  <2>2. k \in Nat /\ k # 0 /\ k <= due
    BY <1>2, <1>6
  <2> HIDE DEF due, size, k
  <2>3. \A d \in Nat : d >= cached => /\ d - cached \in Nat /\ cached + (d - cached) = d
                                     /\ Cardinality({w \in (cached + 1)..d : ~IsSessionless(w)}) = After(cached, d - cached)
    <3> TAKE d \in Nat
    <3> HAVE d >= cached
    <3>1. d - cached \in Nat /\ cached + (d - cached) = d
      BY <1>1
    <3> QED
      BY <3>1 DEF After, Weekdays
  <2>4. PICK n \in 1..(2 * k + 2) : After(cached, n) = k /\ ~IsSessionless(cached + n)
    BY <1>1, <2>2, WeekdayPlaces
  <2>5. /\ cached + n \in cached..(cached + 2 * due + 2) /\ cached + n \in Nat /\ cached + n >= cached
        /\ (cached + n) - cached = n
    BY <1>1, <1>2, <2>2, <2>4
  <2>6. /\ Cardinality({w \in (cached + 1)..(cached + n) : ~IsSessionless(w)}) = k
        /\ ~IsSessionless(cached + n)
    BY <2>3, <2>4, <2>5
  <2>7. PICK d : /\ d = DueDate /\ d \in cached..(cached + 2 * due + 2)
                 /\ Cardinality({w \in (cached + 1)..d : ~IsSessionless(w)}) = k
                 /\ d = cached \/ ~IsSessionless(d)
    BY <2>1, <2>5, <2>6
  <2>8. d \in Nat /\ d >= cached
    BY <1>1, <1>2, <2>7
  <2>9. After(cached, d - cached) = k /\ d - cached \in Nat /\ cached + (d - cached) = d
    BY <2>3, <2>7, <2>8
  <2>10. d # cached
    BY <1>1, <2>2, <2>9, AfterGrows
  <2>11. due <= SessionIndex(today) <=> k <= After(cached, today - cached)
    BY <1>2, <1>4, <2>2 DEF k
  <2>12. CASE d <= today
    <3>1. d - cached <= today - cached
      BY <1>1, <2>8, <2>12
    <3>2. After(cached, d - cached) <= After(cached, today - cached)
      BY <1>1, <1>4, <2>9, <3>1, AfterOrdered
    <3> QED
      BY <1>3, <2>7, <2>9, <2>11, <2>12, <3>2
  <2>13. CASE ~(d <= today)
    <3>1. today - cached < d - cached /\ today - cached <= d - cached
      BY <1>1, <2>8, <2>13
    <3>2. After(cached, today - cached) < After(cached, d - cached)
      BY <1>1, <1>4, <2>7, <2>9, <2>10, <3>1, AfterOrdered
    <3>3. ~(k <= After(cached, today - cached))
      BY <1>4, <2>2, <2>9, <3>2
    <3> QED
      BY <1>3, <2>7, <2>11, <2>13, <3>3
  <2> QED
    BY <2>12, <2>13
<1> QED
  BY <1>2, <1>5, <1>6

\* What the invariant says of the axis is the property.
LEMMA ScheduleGives == ScheduleInv => ScheduleHolds
BY Consistent, DueFromDueDate DEF ScheduleHolds

\* On any calendar, at any lag of the cached prices, what is left of the period is the
\* exchange's count but for what the cache lacks, and due means on or after the due date.
THEOREM ScheduleIsConsistent == LiveSpec => []ScheduleHolds
<1>1. LiveInit => ScheduleInv
  BY ScheduleBegins DEF LiveInit
<1>2. ScheduleInv /\ [LiveNext]_liveVars => ScheduleInv'
  <2>1. ScheduleInv /\ UNCHANGED scheduleVars => ScheduleInv'
    BY DEF ScheduleInv, scheduleVars, IsSession
  <2>2. [LiveNext]_liveVars => ScheduleNext \/ UNCHANGED scheduleVars
    BY DEF LiveNext, liveVars, OrdersStep, BrokersStep, SleeveStep, ValuesStep, ScheduleStep
  <2> QED
    BY <2>1, <2>2, ScheduleKeeps
<1> QED
  BY <1>1, <1>2, ScheduleGives, PTL DEF LiveSpec

-----------------------------------------------------------------------------
(* The parts in the process. *)

\* Requests for orders, or for the sums over a user's brokers, find that part behaving as
\* by itself: what is proved of its own specification holds in the process.
THEOREM LiveKeepsItsParts ==
    LiveSpec => /\ focus = "orders" => OrdersSpec
                /\ focus = "brokers" => BrokersSpec
<1>1. LiveInit => PoolInit /\ OrdersInit /\ LinkInit /\ PortfolioInit
  BY DEF LiveInit
<1>2. focus = "orders" /\ [LiveNext]_liveVars => (focus = "orders")' /\ [OrdersNext]_ordersAll
  BY DEF LiveNext, OrdersStep, BrokersStep, SleeveStep, ValuesStep, ScheduleStep, liveVars, ordersAll
<1>3. focus = "brokers" /\ [LiveNext]_liveVars => (focus = "brokers")' /\ [BrokersNext]_<<pool, linkVars, portfolioVars>>
  BY DEF LiveNext, OrdersStep, BrokersStep, SleeveStep, ValuesStep, ScheduleStep, liveVars, brokerVars
<1> QED
  BY <1>1, <1>2, <1>3, PTL DEF LiveSpec, OrdersSpec, BrokersSpec
=============================================================================
