------------------------- MODULE OhlcvCache_proofs -------------------------
(***************************************************************************)
(* Theorems about OhlcvCache, for every set of threads, every expiry and   *)
(* fault, and every bound.                                                 *)
(***************************************************************************)
EXTENDS OhlcvCache, TLAPS

-----------------------------------------------------------------------------
(* The inductive invariant.  The lock makes writers take turns, a writer    *)
(* replaces the CSV before the sidecar, and what it replaces was written    *)
(* no later than the day it fetched on: so a whole CSV is never older than  *)
(* the sidecar beside it, nor than the one a reader has just looked at.     *)

Writing == {"csv", "csv2", "meta", "meta2", "index"}
Inside == {"check", "reread", "fetch"} \cup Writing
Reading == {"read", "reread"}

\* One thread at a time is between Acquire and its return.
Exclusive ==
    /\ \A t \in Threads : pc[t] \in Inside <=> t \in holders
    /\ \A t, u \in holders : t = u

\* The locals of a call in progress.
Locals(t) ==
    /\ pc[t] # "idle" => date[t] \in Days
    /\ pc[t] \in Writing => df[t] \in Frames /\ df[t].day >= date[t]
    /\ pc[t] = "meta2" => stamp[t] \in Times

\* What the files and the writer in progress promise of the CSV.
EntryDated ==
    /\ meta \in Metas => meta.tag <= today
    /\ csv \in Frames /\ meta \in Metas => csv.day >= meta.tag
    /\ \A t \in Threads :
          /\ pc[t] \in Writing /\ meta \in Metas => df[t].day >= meta.tag
          /\ pc[t] \in {"meta", "meta2"} => csv \in {NoFile, df[t]}

\* A reader that has taken the entry for fresh will find no older CSV.
ReadersDated ==
    \A t \in Threads : pc[t] \in Reading =>
        /\ csv \in Frames => csv.day >= date[t]
        /\ \A u \in Threads : pc[u] \in Writing => df[u].day >= date[t]

IInv ==
    /\ TypeOK
    /\ Exclusive
    /\ \A t \in Threads : Locals(t)
    /\ EntryDated
    /\ ReadersDated
    /\ NeverYesterdaysFrame
    /\ WaitersShareTheFetch

-----------------------------------------------------------------------------

\* A file that is absent or partly written is no series and no sidecar.
LEMMA NotWhole ==
    /\ NoFile \notin Frames /\ Partial \notin Frames /\ NoFrame \notin Frames
    /\ NoFile \notin Metas /\ Partial \notin Metas
    /\ NoFile # Partial
<1>1. \A f \in Frames : DOMAIN f = {"edition", "settled", "day"}
  BY DEF Frames
<1>2. \A m \in Metas : DOMAIN m = {"fetched", "tag", "settled", "edition"}
  BY DEF Metas
<1>3. /\ DOMAIN NoFile = {"file"} /\ DOMAIN Partial = {"file"}
      /\ DOMAIN NoFrame = {"edition"}
  BY DEF NoFile, Partial, NoFrame
<1>4. NoFile # Partial
  BY DEF NoFile, Partial
<1> QED
  BY <1>1, <1>2, <1>3, <1>4

LEMMA InitIInv == Init => IInv
<1> SUFFICES ASSUME Init PROVE IInv
  OBVIOUS
<1>1. TypeOK
  <2>1. /\ now \in Times /\ today \in Days /\ faults \in 0..MaxFaults
        /\ provider \in [edition : Editions, settled : 0..today]
    BY BoundsAssumption, FaultsAssumption DEF Init, Times, Days, Editions
  <2>2. NoAnswer \in Answers
    BY DEF Answers, NoAnswer
  <2>3. pc \in [Threads -> Labels] /\ answer \in [Threads -> Answers]
    BY <2>2 DEF Init, Labels
  <2>4. meta \notin Metas
    BY NotWhole DEF Init
  <2> QED
    BY <2>1, <2>3, <2>4 DEF Init, TypeOK
<1>2. Exclusive /\ (\A t \in Threads : Locals(t)) /\ ReadersDated
  BY DEF Init, Exclusive, Locals, ReadersDated, Inside, Writing, Reading
<1>3. EntryDated
  BY NotWhole DEF Init, EntryDated, Writing
<1>4. NeverYesterdaysFrame /\ WaitersShareTheFetch
  BY DEF Init, NeverYesterdaysFrame, WaitersShareTheFetch, NoAnswer
<1> QED
  BY <1>1, <1>2, <1>3, <1>4 DEF IInv

-----------------------------------------------------------------------------
(* Steps of a call.                                                        *)

\* A call of t that returns or raises, leaving the files alone.
LEMMA ReturnIInv ==
    ASSUME IInv,
           NEW t \in Threads, NEW served \in Answers, served.day >= served.asked,
           Return(t, served), UNCHANGED <<files, world>>,
           built' \in BOOLEAN, scanning' \in BOOLEAN, index' \in 0..now,
           faults' \in 0..MaxFaults, missed' \in BOOLEAN
    PROVE  IInv'
<1> USE DEF IInv
<1>1. /\ csv' = csv /\ meta' = meta
      /\ now' = now /\ today' = today /\ open' = open /\ provider' = provider
  BY DEF files, world
<1>2. /\ pc' = [pc EXCEPT ![t] = "idle"]
      /\ answer' = [answer EXCEPT ![t] = served]
      /\ date' = [date EXCEPT ![t] = 0]
      /\ df' = [df EXCEPT ![t] = NoFrame]
      /\ stamp' = [stamp EXCEPT ![t] = 0]
      /\ holders' = holders \ {t}
  BY DEF Return, Goto
<1>3. /\ pc'[t] = "idle" /\ answer'[t] = served
      /\ \A u \in Threads \ {t} :
            /\ pc'[u] = pc[u] /\ date'[u] = date[u] /\ df'[u] = df[u]
            /\ stamp'[u] = stamp[u] /\ answer'[u] = answer[u]
  BY <1>2 DEF TypeOK
<1>4. TypeOK'
  <2>1. /\ pc' \in [Threads -> Labels] /\ date' \in [Threads -> 0..today]
        /\ df' \in [Threads -> Frames \cup {NoFrame}]
        /\ stamp' \in [Threads -> 0..now] /\ answer' \in [Threads -> Answers]
    BY <1>2 DEF TypeOK, Labels, Days, Times
  <2>2. holders' \in SUBSET Threads
    BY <1>2 DEF TypeOK
  <2> QED
    BY <1>1, <2>1, <2>2 DEF TypeOK
<1>5. Exclusive'
  <2>1. "idle" \notin Inside
    BY DEF Inside, Writing
  <2> QED
    BY <1>2, <1>3, <2>1 DEF Exclusive, TypeOK
<1>6. \A u \in Threads : Locals(u)'
  BY <1>3 DEF Locals, Writing
<1>7. EntryDated'
  BY <1>1, <1>3 DEF EntryDated, Writing
<1>8. ReadersDated'
  BY <1>1, <1>3 DEF ReadersDated, Reading, Writing
<1>9. NeverYesterdaysFrame'
  BY <1>3 DEF NeverYesterdaysFrame
<1>10. WaitersShareTheFetch'
  BY <1>1, <1>3 DEF WaitersShareTheFetch, Reason, Age
<1> QED
  BY <1>4, <1>5, <1>6, <1>7, <1>8, <1>9, <1>10

\* A call of t that only goes on to label l.
LEMMA MoveIInv ==
    ASSUME IInv,
           NEW t \in Threads, NEW l \in Labels, Goto(t, l),
           UNCHANGED <<files, holders, indexing, world, request, answer, faults, missed>>,
           pc[t] # "idle", l \notin Writing, l \in Inside <=> pc[t] \in Inside,
           l \in Reading =>
               /\ csv \in Frames => csv.day >= date[t]
               /\ \A u \in Threads : pc[u] \in Writing => df[u].day >= date[t],
           l = "fetch" => ~(csv \in Frames /\ Reason(meta, date[t], TtlOpen) = "fresh")
    PROVE  IInv'
<1> USE DEF IInv
<1>1. /\ csv' = csv /\ meta' = meta /\ holders' = holders
      /\ now' = now /\ today' = today /\ open' = open /\ provider' = provider
      /\ date' = date /\ df' = df /\ stamp' = stamp /\ answer' = answer
      /\ built' = built /\ scanning' = scanning /\ index' = index
      /\ faults' = faults /\ missed' = missed
  BY DEF files, world, indexing, request
<1>2. pc' = [pc EXCEPT ![t] = l]
  BY DEF Goto
<1>3. /\ pc'[t] = l /\ pc' \in [Threads -> Labels]
      /\ \A u \in Threads \ {t} : pc'[u] = pc[u]
  BY <1>2 DEF TypeOK
<1>4. TypeOK'
  BY <1>1, <1>3 DEF TypeOK
<1>5. Exclusive'
  BY <1>1, <1>3 DEF Exclusive
<1>6. \A u \in Threads : Locals(u)'
  BY <1>1, <1>3 DEF Locals, Writing
<1>7. EntryDated'
  BY <1>1, <1>3 DEF EntryDated, Writing
<1>8. ReadersDated'
  BY <1>1, <1>3 DEF ReadersDated
<1>9. NeverYesterdaysFrame'
  BY <1>1 DEF NeverYesterdaysFrame
<1>10. WaitersShareTheFetch'
  BY <1>1, <1>3 DEF WaitersShareTheFetch, Reason, Age
<1> QED
  BY <1>4, <1>5, <1>6, <1>7, <1>8, <1>9, <1>10

LEMMA CallIInv ==
    ASSUME IInv, NEW t \in Threads, Call(t)
    PROVE  IInv'
<1> USE DEF IInv
<1>1. /\ csv' = csv /\ meta' = meta /\ holders' = holders
      /\ now' = now /\ today' = today /\ open' = open /\ provider' = provider
      /\ df' = df /\ stamp' = stamp
      /\ built' = built /\ scanning' = scanning /\ index' = index
      /\ faults' = faults /\ missed' = missed
  BY DEF Call, files, world, indexing
<1>2. /\ pc[t] = "idle"
      /\ pc' = [pc EXCEPT ![t] = "fast"]
      /\ date' = [date EXCEPT ![t] = today]
      /\ answer' = [answer EXCEPT ![t] = NoAnswer]
  BY DEF Call, Goto
<1>3. /\ pc'[t] = "fast" /\ date'[t] = today /\ answer'[t] = NoAnswer
      /\ \A u \in Threads \ {t} :
            pc'[u] = pc[u] /\ date'[u] = date[u] /\ answer'[u] = answer[u]
  BY <1>2 DEF TypeOK
<1>4. TypeOK'
  <2>1. NoAnswer \in Answers
    BY DEF NoAnswer, Answers
  <2>2. /\ pc' \in [Threads -> Labels] /\ date' \in [Threads -> 0..today]
        /\ answer' \in [Threads -> Answers]
    BY <1>2, <2>1 DEF TypeOK, Labels, Days
  <2> QED
    BY <1>1, <2>2 DEF TypeOK
<1>5. Exclusive'
  BY <1>1, <1>2, <1>3 DEF Exclusive, Inside, Writing
<1>6. \A u \in Threads : Locals(u)'
  BY <1>1, <1>3 DEF Locals, Writing, TypeOK
<1>7. EntryDated'
  BY <1>1, <1>3 DEF EntryDated, Writing
<1>8. ReadersDated'
  BY <1>1, <1>3 DEF ReadersDated, Reading, Writing
<1>9. NeverYesterdaysFrame'
  BY <1>3 DEF NeverYesterdaysFrame, NoAnswer
<1>10. WaitersShareTheFetch'
  BY <1>1, <1>3 DEF WaitersShareTheFetch, Reason, Age
<1> QED
  BY <1>4, <1>5, <1>6, <1>7, <1>8, <1>9, <1>10

\* A sidecar that is not fresh by the expiry in force is not by the shorter one.
LEMMA ShorterTtl ==
    ASSUME TypeOK, NEW d, Reason(meta, d, Ttl) # "fresh"
    PROVE  Reason(meta, d, TtlOpen) # "fresh"
<1>1. CASE meta \notin Metas
  BY <1>1 DEF Reason
<1>2. CASE meta \in Metas
  <2>1. Age(meta) \in Int
    BY <1>2 DEF Age, TypeOK, Metas, Times
  <2> QED
    BY <1>2, <2>1, AgesAssumption DEF Reason, Ttl
<1> QED
  BY <1>1, <1>2

LEMMA LookIInv ==
    ASSUME IInv, NEW t \in Threads, FastPath(t) \/ DoubleCheck(t)
    PROVE  IInv'
<1> DEFINE hit == Reason(meta, date[t], Ttl) = "fresh"
<1>1. hit => meta \in Metas /\ meta.tag = date[t]
  BY DEF Reason
<1>2. ASSUME hit
      PROVE  /\ csv \in Frames => csv.day >= date[t]
             /\ \A u \in Threads : pc[u] \in Writing => df[u].day >= date[t]
  BY <1>1, <1>2 DEF IInv, EntryDated
<1>3. ~hit => Reason(meta, date[t], TtlOpen) # "fresh"
  BY ShorterTtl DEF IInv
<1>4. CASE FastPath(t)
  <2>1. PICK l \in Labels :
          Goto(t, l) /\ l = (IF hit THEN "read" ELSE "lock")
    BY <1>4 DEF FastPath, Look, Labels
  <2> HIDE DEF hit
  <2>2. pc[t] = "fast"
    BY <1>4 DEF FastPath, Look
  <2>3. UNCHANGED <<files, holders, indexing, world, request, answer, faults, missed>>
    BY <1>4 DEF FastPath, Look
  <2>4. /\ l \notin Writing /\ pc[t] # "idle" /\ (l \in Inside <=> pc[t] \in Inside)
        /\ l # "fetch" /\ (l \in Reading => hit)
    BY <2>1, <2>2 DEF Writing, Inside, Reading
  <2> QED
    BY <1>2, <2>1, <2>3, <2>4, MoveIInv
<1>5. CASE DoubleCheck(t)
  <2>1. PICK l \in Labels :
          Goto(t, l) /\ l = (IF hit THEN "reread" ELSE "fetch")
    BY <1>5 DEF DoubleCheck, Look, Labels, Recheck
  <2> HIDE DEF hit
  <2>2. pc[t] = "check"
    BY <1>5 DEF DoubleCheck, Look
  <2>3. UNCHANGED <<files, holders, indexing, world, request, answer, faults, missed>>
    BY <1>5 DEF DoubleCheck, Look
  <2>4. /\ l \notin Writing /\ pc[t] # "idle" /\ (l \in Inside <=> pc[t] \in Inside)
        /\ (l = "fetch" => ~hit) /\ (l \in Reading => hit)
    BY <2>1, <2>2 DEF Writing, Inside, Reading
  <2> QED
    BY <1>2, <1>3, <2>1, <2>3, <2>4, MoveIInv
<1> QED
  BY <1>4, <1>5

LEMMA ReadCsvIInv ==
    ASSUME IInv, NEW t \in Threads, ReadCsv(t)
    PROVE  IInv'
<1>1. /\ pc[t] \in Reading
      /\ UNCHANGED <<files, indexing, world, faults, missed>>
  BY DEF ReadCsv, Reading
<1>2. NoAnswer \in Answers /\ NoAnswer.day >= NoAnswer.asked
  BY DEF NoAnswer, Answers
<1>3. /\ built' \in BOOLEAN /\ scanning' \in BOOLEAN /\ index' \in 0..now
      /\ faults' \in 0..MaxFaults /\ missed' \in BOOLEAN
      /\ UNCHANGED <<files, world>>
  BY <1>1 DEF IInv, TypeOK, indexing
<1>4. CASE csv \in Frames /\ Return(t, [asked |-> date[t], day |-> csv.day])
  <2> DEFINE served == [asked |-> date[t], day |-> csv.day]
  <2>1. date[t] \in Days
    BY <1>1 DEF IInv, Locals, Reading
  <2>2. csv.day \in Days /\ csv.day >= date[t]
    BY <1>1, <1>4 DEF IInv, ReadersDated, Frames
  <2>3. served \in Answers /\ served.day >= served.asked
    BY <2>1, <2>2 DEF Answers
  <2>4. Return(t, served)
    BY <1>4
  <2> HIDE DEF served
  <2> QED
    BY <1>3, <2>3, <2>4, ReturnIInv
<1>5. CASE Return(t, NoAnswer)
  BY <1>2, <1>3, <1>5, ReturnIInv
<1>6. CASE /\ csv \in {NoFile, Partial}
           /\ Goto(t, IF pc[t] = "read" THEN "lock" ELSE "fetch")
           /\ UNCHANGED <<holders, request, answer>>
  <2>1. PICK l \in Labels : Goto(t, l) /\ l = (IF pc[t] = "read" THEN "lock" ELSE "fetch")
    BY <1>6 DEF Labels
  <2>2. /\ l \notin Writing /\ l \notin Reading
        /\ pc[t] # "idle" /\ (l \in Inside <=> pc[t] \in Inside)
    BY <1>1, <2>1 DEF Reading, Writing, Inside
  <2>3. csv \notin Frames
    BY <1>6, NotWhole
  <2>4. UNCHANGED <<files, holders, indexing, world, request, answer, faults, missed>>
    BY <1>1, <1>6
  <2> QED
    BY <2>1, <2>2, <2>3, <2>4, MoveIInv
<1> QED
  BY <1>4, <1>5, <1>6 DEF ReadCsv

LEMMA AcquireIInv ==
    ASSUME IInv, NEW t \in Threads, Acquire(t)
    PROVE  IInv'
<1> USE DEF IInv
<1>1. /\ csv' = csv /\ meta' = meta
      /\ now' = now /\ today' = today /\ open' = open /\ provider' = provider
      /\ date' = date /\ df' = df /\ stamp' = stamp /\ answer' = answer
      /\ built' = built /\ scanning' = scanning /\ index' = index
      /\ faults' = faults /\ missed' = missed
  BY DEF Acquire, files, world, indexing, request
<1>2. /\ pc[t] = "lock" /\ pc' = [pc EXCEPT ![t] = "check"]
      /\ holders = {} /\ holders' = {t}
  BY DEF Acquire, Goto
<1>3. /\ pc'[t] = "check" /\ pc' \in [Threads -> Labels]
      /\ \A u \in Threads \ {t} : pc'[u] = pc[u]
  BY <1>2 DEF TypeOK, Labels
<1>4. TypeOK'
  BY <1>1, <1>2, <1>3 DEF TypeOK
<1>5. Exclusive'
  BY <1>2, <1>3 DEF Exclusive, Inside
<1>6. \A u \in Threads : Locals(u)'
  BY <1>1, <1>2, <1>3 DEF Locals, Writing
<1>7. EntryDated'
  BY <1>1, <1>3 DEF EntryDated, Writing
<1>8. ReadersDated'
  BY <1>1, <1>3 DEF ReadersDated, Reading, Writing
<1>9. NeverYesterdaysFrame'
  BY <1>1 DEF NeverYesterdaysFrame
<1>10. WaitersShareTheFetch'
  BY <1>1, <1>3 DEF WaitersShareTheFetch, Reason, Age
<1> QED
  BY <1>4, <1>5, <1>6, <1>7, <1>8, <1>9, <1>10

\* What follows from the lock: while t is inside, no other thread is.
LEMMA Alone ==
    ASSUME Exclusive, NEW t \in Threads, pc[t] \in Inside
    PROVE  \A u \in Threads \ {t} : pc[u] \notin Inside
BY DEF Exclusive

\* The leader t goes on from label to label inside the lock: the parts of the
\* invariant that do not depend on what it writes.
LEMMA LeaderMoves ==
    ASSUME IInv, NEW t \in Threads, NEW l \in Writing,
           pc[t] \in Inside, Goto(t, l), UNCHANGED <<holders, now, today, open, date, answer>>
    PROVE  /\ pc'[t] = l /\ pc' \in [Threads -> Labels]
           /\ \A u \in Threads \ {t} : pc'[u] = pc[u] /\ pc[u] \notin Inside
           /\ Exclusive' /\ NeverYesterdaysFrame' /\ WaitersShareTheFetch'
<1> USE DEF IInv
<1>1. l \in Labels /\ l \in Inside /\ l # "fetch"
  BY DEF Writing, Inside, Labels
<1>2. /\ pc'[t] = l /\ pc' \in [Threads -> Labels]
      /\ \A u \in Threads \ {t} : pc'[u] = pc[u] /\ pc[u] \notin Inside
  BY <1>1, Alone DEF TypeOK, Goto
<1>3. Exclusive'
  BY <1>1, <1>2 DEF Exclusive
<1>4. NeverYesterdaysFrame'
  BY DEF NeverYesterdaysFrame
<1>5. "fetch" \in Inside
  BY DEF Inside
<1>6. WaitersShareTheFetch'
  BY <1>1, <1>2, <1>5 DEF WaitersShareTheFetch
<1> QED
  BY <1>2, <1>3, <1>4, <1>6

LEMMA FetchIInv ==
    ASSUME IInv, NEW t \in Threads, Fetch(t)
    PROVE  IInv'
<1> USE DEF IInv
<1> DEFINE f == [edition |-> provider.edition, settled |-> provider.settled, day |-> today]
<1>1. /\ csv' = csv /\ meta' = meta /\ holders' = holders
      /\ now' = now /\ today' = today /\ open' = open /\ provider' = provider
      /\ date' = date /\ stamp' = stamp /\ answer' = answer
      /\ built' = built /\ scanning' = scanning /\ index' = index
      /\ faults' = faults /\ missed' = missed
  BY DEF Fetch, files, world, indexing
<1>2. pc[t] = "fetch" /\ Goto(t, "csv") /\ df' = [df EXCEPT ![t] = f]
  BY DEF Fetch, Following
<1>3. pc[t] \in Inside /\ "csv" \in Writing
  BY <1>2 DEF Inside, Writing
<1>4. /\ pc'[t] = "csv" /\ pc' \in [Threads -> Labels]
      /\ \A u \in Threads \ {t} : pc'[u] = pc[u] /\ pc[u] \notin Inside
      /\ Exclusive' /\ NeverYesterdaysFrame' /\ WaitersShareTheFetch'
  BY <1>1, <1>2, <1>3, LeaderMoves
<1>5. f \in Frames /\ f.day = today
  <2>1. provider.edition \in Editions /\ provider.settled \in 0..today /\ today \in Days
    BY DEF TypeOK
  <2>2. provider.settled \in Days \cup {0}
    BY <2>1, BoundsAssumption DEF Days
  <2> QED
    BY <2>1, <2>2 DEF Frames
<1> HIDE DEF f
<1>6. /\ df'[t] = f /\ df' \in [Threads -> Frames \cup {NoFrame}]
      /\ \A u \in Threads \ {t} : df'[u] = df[u]
  BY <1>2, <1>5 DEF TypeOK
<1>7. TypeOK'
  BY <1>1, <1>4, <1>6 DEF TypeOK
<1>8. \A u \in Threads : Locals(u)'
  <2>1. Locals(t)'
    BY <1>1, <1>2, <1>4, <1>5, <1>6 DEF Locals, TypeOK, Days
  <2>2. \A u \in Threads \ {t} : Locals(u)'
    BY <1>1, <1>4, <1>6 DEF Locals
  <2> QED
    BY <2>1, <2>2
<1>9. EntryDated'
  <2>1. /\ "meta" \in Inside /\ "meta2" \in Inside /\ Writing \subseteq Inside
    BY DEF Inside, Writing
  <2> QED
    BY <1>1, <1>4, <1>5, <1>6, <2>1 DEF EntryDated
<1>10. ReadersDated'
  <2>1. /\ "csv" \notin Reading /\ Writing \subseteq Inside
    BY DEF Inside, Writing, Reading
  <2>2. ASSUME NEW u \in Threads, pc'[u] \in Reading
        PROVE  /\ csv' \in Frames => csv'.day >= date'[u]
               /\ \A v \in Threads : pc'[v] \in Writing => df'[v].day >= date'[u]
    <3>1. u # t /\ pc[u] \in Reading
      BY <1>4, <2>1, <2>2
    <3>2. date[u] <= today
      BY DEF TypeOK, Days
    <3>3. \A v \in Threads : pc'[v] \in Writing => v = t
      BY <1>4, <2>1
    <3>4. f.day >= date[u]
      BY <1>5, <3>2 DEF TypeOK, Days
    <3> QED
      BY <1>1, <1>6, <3>1, <3>3, <3>4 DEF ReadersDated
  <2> QED
    BY <2>2 DEF ReadersDated
<1> QED
  BY <1>4, <1>7, <1>8, <1>9, <1>10

\* df.to_csv replaces the CSV: by a partial one, by the series of the leader, or
\* not at all when clear() has unlinked it.
LEMMA WriteCsvIInv ==
    ASSUME IInv, NEW t \in Threads, OpenCsv(t) \/ CloseCsv(t)
    PROVE  IInv'
<1> USE DEF IInv
<1>1. /\ meta' = meta /\ holders' = holders
      /\ now' = now /\ today' = today /\ open' = open /\ provider' = provider
      /\ date' = date /\ df' = df /\ stamp' = stamp /\ answer' = answer
      /\ built' = built /\ scanning' = scanning /\ index' = index
      /\ faults' = faults /\ missed' = missed
  BY DEF OpenCsv, CloseCsv, world, indexing, request
<1>2. PICK l \in {"csv2", "meta"} :
         /\ Goto(t, l)
         /\ csv' \in {NoFile, Partial, df[t]}
         /\ l = "meta" => csv' \in {NoFile, df[t]}
  BY DEF OpenCsv, CloseCsv, Following
<1>3. pc[t] \in Writing /\ Writing \subseteq Inside /\ l \in Writing /\ l # "meta2"
  BY DEF OpenCsv, CloseCsv, Inside, Writing
<1>4. /\ pc'[t] = l /\ pc' \in [Threads -> Labels]
      /\ \A u \in Threads \ {t} : pc'[u] = pc[u] /\ pc[u] \notin Inside
      /\ Exclusive' /\ NeverYesterdaysFrame' /\ WaitersShareTheFetch'
  BY <1>1, <1>2, <1>3, LeaderMoves
<1>5. df[t] \in Frames /\ df[t].day >= date[t]
  BY <1>3 DEF Locals
<1>6. TypeOK'
  BY <1>1, <1>2, <1>4, <1>5 DEF TypeOK
<1>7. \A u \in Threads : Locals(u)'
  BY <1>1, <1>3, <1>4, <1>5 DEF Locals, Writing
<1>8. csv' \in Frames => csv' = df[t]
  BY <1>2, NotWhole
<1>9. EntryDated'
  <2>1. meta \in Metas => df[t].day >= meta.tag
    BY <1>3 DEF EntryDated
  <2>2. {"meta", "meta2"} \subseteq Writing
    BY DEF Writing
  <2> QED
    BY <1>1, <1>2, <1>3, <1>4, <1>8, <2>1, <2>2 DEF EntryDated
<1>10. ReadersDated'
  <2>1. \A u \in Threads : pc'[u] \in Reading => pc[u] \in Reading
    BY <1>3, <1>4 DEF Reading, Writing
  <2>2. \A u \in Threads : pc'[u] \in Writing => pc[u] \in Writing
    BY <1>3, <1>4
  <2> QED
    BY <1>1, <1>3, <1>8, <2>1, <2>2 DEF ReadersDated
<1> QED
  BY <1>4, <1>6, <1>7, <1>9, <1>10

LEMMA OpenMetaIInv ==
    ASSUME IInv, NEW t \in Threads, OpenMeta(t)
    PROVE  IInv'
<1> USE DEF IInv
<1>1. /\ csv' = csv /\ meta' = Partial /\ holders' = holders
      /\ now' = now /\ today' = today /\ open' = open /\ provider' = provider
      /\ date' = date /\ df' = df /\ answer' = answer
      /\ built' = built /\ scanning' = scanning /\ index' = index
      /\ faults' = faults /\ missed' = missed
  BY DEF OpenMeta, world, indexing
<1>2. /\ pc[t] = "meta" /\ Goto(t, "meta2")
      /\ stamp' = [stamp EXCEPT ![t] = FetchedAt(df[t])]
  BY DEF OpenMeta
<1>3. pc[t] \in Writing /\ Writing \subseteq Inside /\ "meta2" \in Writing
  BY <1>2 DEF Inside, Writing
<1>4. /\ pc'[t] = "meta2" /\ pc' \in [Threads -> Labels]
      /\ \A u \in Threads \ {t} : pc'[u] = pc[u] /\ pc[u] \notin Inside
      /\ Exclusive' /\ NeverYesterdaysFrame' /\ WaitersShareTheFetch'
  BY <1>1, <1>2, <1>3, LeaderMoves
<1>5. FetchedAt(df[t]) \in Times /\ FetchedAt(df[t]) <= now
  <2>1. now \in Times /\ (meta \in Metas => meta.fetched \in Times /\ meta.fetched <= now)
    BY DEF TypeOK, Metas
  <2> QED
    BY <2>1 DEF FetchedAt, Times
<1>6. /\ stamp'[t] \in Times /\ stamp' \in [Threads -> 0..now]
      /\ \A u \in Threads \ {t} : stamp'[u] = stamp[u]
  <2>1. FetchedAt(df[t]) \in 0..now
    BY <1>5 DEF Times, TypeOK
  <2> QED
    BY <1>2, <1>5, <2>1 DEF TypeOK
<1>7. TypeOK'
  BY <1>1, <1>4, <1>6, NotWhole DEF TypeOK, Times
<1>8. \A u \in Threads : Locals(u)'
  BY <1>1, <1>2, <1>3, <1>4, <1>6 DEF Locals
<1>9. EntryDated'
  <2>1. csv \in {NoFile, df[t]}
    BY <1>2 DEF EntryDated
  <2>2. {"meta", "meta2"} \subseteq Inside
    BY DEF Inside, Writing
  <2> QED
    BY <1>1, <1>4, <2>1, <2>2, NotWhole DEF EntryDated
<1>10. ReadersDated'
  <2>1. \A u \in Threads : pc'[u] \in Reading => pc[u] \in Reading
    BY <1>3, <1>4 DEF Reading
  <2>2. \A u \in Threads : pc'[u] \in Writing => pc[u] \in Writing
    BY <1>3, <1>4
  <2> QED
    BY <1>1, <2>1, <2>2 DEF ReadersDated
<1> QED
  BY <1>4, <1>7, <1>8, <1>9, <1>10

LEMMA CloseMetaIInv ==
    ASSUME IInv, NEW t \in Threads, CloseMeta(t)
    PROVE  IInv'
<1> USE DEF IInv
<1> DEFINE m == [fetched |-> stamp[t], tag |-> date[t],
                 settled |-> df[t].settled, edition |-> df[t].edition]
<1>1. /\ csv' = csv /\ holders' = holders
      /\ now' = now /\ today' = today /\ open' = open /\ provider' = provider
      /\ date' = date /\ df' = df /\ stamp' = stamp /\ answer' = answer
      /\ built' = built /\ scanning' = scanning /\ index' = index
      /\ faults' = faults /\ missed' = missed
  BY DEF CloseMeta, world, indexing, request
<1>2. pc[t] = "meta2" /\ Goto(t, "index") /\ meta' \in {NoFile, m}
  BY DEF CloseMeta, Following
<1>3. pc[t] \in Writing /\ Writing \subseteq Inside /\ "index" \in Writing
  BY <1>2 DEF Inside, Writing
<1>4. /\ pc'[t] = "index" /\ pc' \in [Threads -> Labels]
      /\ \A u \in Threads \ {t} : pc'[u] = pc[u] /\ pc[u] \notin Inside
      /\ Exclusive' /\ NeverYesterdaysFrame' /\ WaitersShareTheFetch'
  BY <1>1, <1>2, <1>3, LeaderMoves
<1>5. /\ df[t] \in Frames /\ df[t].day >= date[t]
      /\ date[t] \in Days /\ date[t] <= today
      /\ stamp[t] \in Times /\ stamp[t] <= now
  <2>1. date[t] \in 0..today /\ stamp[t] \in 0..now
    BY DEF TypeOK
  <2> QED
    BY <1>2, <1>3, <2>1 DEF Locals
<1>6. /\ m \in Metas /\ m.fetched = stamp[t] /\ m.tag = date[t]
  BY <1>5 DEF Metas, Frames
<1> HIDE DEF m
<1>7. TypeOK'
  BY <1>1, <1>2, <1>4, <1>5, <1>6, NotWhole DEF TypeOK
<1>8. \A u \in Threads : Locals(u)'
  BY <1>1, <1>2, <1>3, <1>4 DEF Locals
<1>9. EntryDated'
  <2>1. csv \in {NoFile, df[t]}
    BY <1>2 DEF EntryDated
  <2>2. {"meta", "meta2"} \subseteq Inside
    BY DEF Inside, Writing
  <2>3. meta' \in Metas => meta'.tag = date[t]
    BY <1>2, <1>6, NotWhole
  <2> QED
    BY <1>1, <1>3, <1>4, <1>5, <2>1, <2>2, <2>3, NotWhole DEF EntryDated
<1>10. ReadersDated'
  <2>1. \A u \in Threads : pc'[u] \in Reading => pc[u] \in Reading
    BY <1>3, <1>4 DEF Reading
  <2>2. \A u \in Threads : pc'[u] \in Writing => pc[u] \in Writing
    BY <1>3, <1>4
  <2> QED
    BY <1>1, <2>1, <2>2 DEF ReadersDated
<1> QED
  BY <1>4, <1>7, <1>8, <1>9, <1>10

\* The ends of a leader's call.
LEMMA LeaderReturnsIInv ==
    ASSUME IInv, NEW t \in Threads, FetchFails(t) \/ DiskFails(t) \/ UpdateIndex(t)
    PROVE  IInv'
<1>1. NoAnswer \in Answers /\ NoAnswer.day >= NoAnswer.asked
  BY DEF NoAnswer, Answers
<1>2. /\ Return(t, NoAnswer) /\ UNCHANGED <<files, world>> /\ scanning' \in BOOLEAN
      /\ built' \in BOOLEAN /\ missed' \in BOOLEAN
  BY DEF FetchFails, DiskFails, UpdateIndex, IInv, TypeOK, indexing
<1>3. faults' \in 0..MaxFaults
  BY FaultsAssumption DEF FetchFails, DiskFails, UpdateIndex, IInv, TypeOK
<1>4. index' \in 0..now
  <2>1. index \in 0..now /\ stamp[t] \in 0..now
    BY DEF IInv, TypeOK
  <2> QED
    BY <2>1 DEF FetchFails, DiskFails, UpdateIndex, Fold, indexing
<1> QED
  BY <1>1, <1>2, <1>3, <1>4, ReturnIInv

-----------------------------------------------------------------------------
(* The index, clear, a restart, and the world.                             *)

LEMMA ScanIInv ==
    ASSUME IInv, StartScan \/ EndScan
    PROVE  IInv'
<1> USE DEF IInv
<1>1. /\ csv' = csv /\ meta' = meta /\ holders' = holders /\ pc' = pc
      /\ now' = now /\ today' = today /\ open' = open /\ provider' = provider
      /\ date' = date /\ df' = df /\ stamp' = stamp /\ answer' = answer
      /\ faults' = faults /\ missed' = missed
  BY DEF StartScan, EndScan, files, world, threads, request
<1>2. index' \in 0..now /\ built' \in BOOLEAN /\ scanning' \in BOOLEAN
  <2>1. meta \in Metas => meta.fetched \in 0..now
    BY DEF TypeOK, Metas, Times
  <2> QED
    BY <2>1 DEF StartScan, EndScan, TypeOK, Fold
<1>3. TypeOK'
  BY <1>1, <1>2 DEF TypeOK
<1>4. /\ Exclusive' /\ EntryDated' /\ ReadersDated'
      /\ NeverYesterdaysFrame' /\ WaitersShareTheFetch'
  BY <1>1 DEF Exclusive, EntryDated, ReadersDated, NeverYesterdaysFrame,
     WaitersShareTheFetch, Reason, Age
<1>5. \A t \in Threads : Locals(t)'
  BY <1>1 DEF Locals
<1> QED
  BY <1>3, <1>4, <1>5

LEMMA ClearIInv ==
    ASSUME IInv, ClearMeta \/ ClearCsv
    PROVE  IInv'
<1> USE DEF IInv
<1>1. /\ holders' = holders /\ pc' = pc
      /\ now' = now /\ today' = today /\ open' = open /\ provider' = provider
      /\ date' = date /\ df' = df /\ stamp' = stamp /\ answer' = answer
      /\ built' = built /\ scanning' = scanning /\ index' = index
      /\ faults' = faults /\ missed' = missed
  BY DEF ClearMeta, ClearCsv, world, indexing, threads, request
<1>2. csv' \in {csv, NoFile} /\ meta' \in {meta, NoFile}
  BY DEF ClearMeta, ClearCsv
<1>3. /\ csv' \in Frames => csv' = csv
      /\ meta' \in Metas => meta' = meta
  BY <1>2, NotWhole
<1>4. TypeOK'
  BY <1>1, <1>2, <1>3 DEF TypeOK
<1>5. Exclusive' /\ (\A t \in Threads : Locals(t)') /\ NeverYesterdaysFrame'
  BY <1>1 DEF Exclusive, Locals, NeverYesterdaysFrame
<1>6. EntryDated' /\ ReadersDated'
  BY <1>1, <1>2, <1>3 DEF EntryDated, ReadersDated
<1>7. WaitersShareTheFetch'
  <2>1. meta' \notin Metas => \A d : Reason(meta', d, TtlOpen) # "fresh"
    BY DEF Reason
  <2>2. meta' = meta => \A d : Reason(meta, d, TtlOpen)' = Reason(meta, d, TtlOpen)
    BY <1>1 DEF Reason, Age
  <2>3. ASSUME NEW t \in Threads, pc[t] = "fetch", csv' \in Frames, meta' \in Metas
        PROVE  Reason(meta, date[t], TtlOpen)' # "fresh"
    BY <1>1, <1>3, <2>3 DEF WaitersShareTheFetch, Reason, Age
  <2>4. ASSUME meta' \notin Metas, NEW t \in Threads
        PROVE  Reason(meta, date[t], TtlOpen)' # "fresh"
    BY <2>4 DEF Reason
  <2> QED
    BY <1>1, <2>3, <2>4 DEF WaitersShareTheFetch
<1> QED
  BY <1>4, <1>5, <1>6, <1>7

LEMMA CrashIInv ==
    ASSUME IInv, Crash
    PROVE  IInv'
<1> USE DEF IInv
<1>1. /\ csv' = csv /\ meta' = meta /\ holders' = {}
      /\ now' = now /\ today' = today /\ open' = open /\ provider' = provider
      /\ built' = FALSE /\ scanning' = FALSE /\ index' = 0
      /\ missed' = FALSE
  BY DEF Crash, files, world
<1>2. /\ pc' = [t \in Threads |-> "idle"] /\ date' = [t \in Threads |-> 0]
      /\ df' = [t \in Threads |-> NoFrame] /\ stamp' = [t \in Threads |-> 0]
      /\ answer' = [t \in Threads |-> NoAnswer]
  BY DEF Crash, IdleThreads
<1>3. TypeOK'
  <2>1. NoAnswer \in Answers
    BY DEF NoAnswer, Answers
  <2>2. faults' \in 0..MaxFaults
    BY FaultsAssumption DEF Crash, TypeOK
  <2>3. /\ pc' \in [Threads -> Labels] /\ answer' \in [Threads -> Answers]
        /\ date' \in [Threads -> 0..today] /\ stamp' \in [Threads -> 0..now]
        /\ df' \in [Threads -> Frames \cup {NoFrame}]
    BY <1>2, <2>1 DEF Labels, TypeOK, Days, Times
  <2>4. index' \in 0..now
    BY <1>1 DEF TypeOK, Times
  <2> QED
    BY <1>1, <2>2, <2>3, <2>4 DEF TypeOK
<1>4. \A t \in Threads : pc'[t] = "idle" /\ answer'[t] = NoAnswer
  BY <1>2
<1>5. /\ "idle" \notin Inside /\ "idle" \notin Reading /\ "idle" \notin Writing
      /\ "idle" # "fetch" /\ "idle" \notin {"meta", "meta2"}
  BY DEF Inside, Reading, Writing
<1>6. /\ Exclusive' /\ (\A t \in Threads : Locals(t)')
      /\ ReadersDated' /\ WaitersShareTheFetch'
  BY <1>1, <1>4, <1>5 DEF Exclusive, Locals, ReadersDated, WaitersShareTheFetch
<1>7. EntryDated'
  BY <1>1, <1>4, <1>5 DEF EntryDated
<1>8. NeverYesterdaysFrame'
  BY <1>4 DEF NeverYesterdaysFrame, NoAnswer
<1> QED
  BY <1>3, <1>6, <1>7, <1>8

LEMMA TickIInv ==
    ASSUME IInv, Tick
    PROVE  IInv'
<1> USE DEF IInv
<1>1. /\ csv' = csv /\ meta' = meta /\ holders' = holders /\ pc' = pc
      /\ provider' = provider
      /\ date' = date /\ df' = df /\ stamp' = stamp /\ answer' = answer
      /\ built' = built /\ scanning' = scanning /\ index' = index
      /\ faults' = faults /\ missed' = missed
  BY DEF Tick, files, indexing, threads, request
<1>2. /\ now' = now + 1 /\ now' \in Times /\ open' \in BOOLEAN
      /\ today' \in Days /\ today <= today' /\ today \in Days /\ now \in Times
  BY BoundsAssumption DEF Tick, TypeOK, Times, Days
<1>3. 0..now \subseteq 0..now' /\ 0..today \subseteq 0..today'
  BY <1>2 DEF Times, Days
<1>4. TypeOK'
  <2>1. /\ date' \in [Threads -> 0..today'] /\ stamp' \in [Threads -> 0..now']
        /\ index' \in 0..now'
    BY <1>1, <1>3 DEF TypeOK
  <2>2. provider' \in [edition : Editions, settled : 0..today']
    BY <1>1, <1>3 DEF TypeOK
  <2>3. meta' \in Metas => meta'.fetched <= now'
    BY <1>1, <1>2 DEF TypeOK, Metas, Times
  <2> QED
    BY <1>1, <1>2, <2>1, <2>2, <2>3 DEF TypeOK
<1>5. /\ Exclusive' /\ (\A t \in Threads : Locals(t)')
      /\ ReadersDated' /\ NeverYesterdaysFrame'
  BY <1>1 DEF Exclusive, Locals, ReadersDated, NeverYesterdaysFrame
<1>6. EntryDated'
  <2>1. meta \in Metas => meta.tag <= today'
    BY <1>2 DEF EntryDated, Metas, Days
  <2> QED
    BY <1>1, <2>1 DEF EntryDated
<1>7. WaitersShareTheFetch'
  <2>1. ASSUME NEW d, Reason(meta, d, TtlOpen)' = "fresh"
        PROVE  Reason(meta, d, TtlOpen) = "fresh"
    <3>1. meta \in Metas
      BY <1>1, <2>1 DEF Reason
    <3>2. Age(meta) \in Int /\ Age(meta)' = Age(meta) + 1
      BY <1>1, <1>2, <3>1 DEF Age, Metas, Times
    <3> QED
      BY <1>1, <2>1, <3>1, <3>2, AgesAssumption DEF Reason
  <2> QED
    BY <1>1, <2>1 DEF WaitersShareTheFetch
<1> QED
  BY <1>4, <1>5, <1>6, <1>7

LEMMA PublishIInv ==
    ASSUME IInv, Publish
    PROVE  IInv'
<1> USE DEF IInv
<1>1. /\ csv' = csv /\ meta' = meta /\ holders' = holders /\ pc' = pc
      /\ now' = now /\ today' = today /\ open' = open
      /\ date' = date /\ df' = df /\ stamp' = stamp /\ answer' = answer
      /\ built' = built /\ scanning' = scanning /\ index' = index
      /\ faults' = faults /\ missed' = missed
  BY DEF Publish, files, indexing, threads, request
<1>2. provider' \in [edition : Editions, settled : 0..today]
  <2>1. provider.edition \in Editions /\ provider.settled \in 0..today /\ today \in Days
    BY DEF TypeOK
  <2>2. PICK d \in provider.settled..today :
           provider' = [edition |-> provider.edition + 1, settled |-> d]
    BY DEF Publish
  <2>3. provider.edition + 1 \in Editions
    BY <2>1, BoundsAssumption DEF Publish, Editions
  <2>4. d \in 0..today
    BY <2>1 DEF Days
  <2> QED
    BY <2>2, <2>3, <2>4
<1>3. TypeOK'
  BY <1>1, <1>2 DEF TypeOK
<1>4. /\ Exclusive' /\ EntryDated' /\ ReadersDated'
      /\ NeverYesterdaysFrame' /\ WaitersShareTheFetch'
  BY <1>1 DEF Exclusive, EntryDated, ReadersDated, NeverYesterdaysFrame,
     WaitersShareTheFetch, Reason, Age
<1>5. \A t \in Threads : Locals(t)'
  BY <1>1 DEF Locals
<1> QED
  BY <1>3, <1>4, <1>5

-----------------------------------------------------------------------------
(* The theorems.                                                           *)

LEMMA NextIInv == IInv /\ [Next]_vars => IInv'
<1> SUFFICES ASSUME IInv, [Next]_vars PROVE IInv'
  OBVIOUS
<1>1. ASSUME NEW t \in Threads, Call(t) \/ Run(t) \/ FetchFails(t) \/ DiskFails(t)
      PROVE  IInv'
  BY <1>1, CallIInv, LookIInv, ReadCsvIInv, AcquireIInv, FetchIInv, WriteCsvIInv,
     OpenMetaIInv, CloseMetaIInv, LeaderReturnsIInv DEF Run
<1>2. CASE StartScan \/ EndScan
  BY <1>2, ScanIInv
<1>3. CASE ClearMeta \/ ClearCsv
  BY <1>3, ClearIInv
<1>4. CASE Crash
  BY <1>4, CrashIInv
<1>5. CASE Tick
  BY <1>5, TickIInv
<1>6. CASE Publish
  BY <1>6, PublishIInv
<1>7. CASE UNCHANGED vars
  <2>1. /\ csv' = csv /\ meta' = meta /\ holders' = holders /\ pc' = pc
        /\ now' = now /\ today' = today /\ open' = open /\ provider' = provider
        /\ date' = date /\ df' = df /\ stamp' = stamp /\ answer' = answer
        /\ built' = built /\ scanning' = scanning /\ index' = index
        /\ faults' = faults /\ missed' = missed
    BY <1>7 DEF vars, files, world, indexing, threads, request
  <2>2. TypeOK' /\ Exclusive' /\ EntryDated' /\ ReadersDated'
    BY <2>1 DEF IInv, TypeOK, Exclusive, EntryDated, ReadersDated
  <2>3. NeverYesterdaysFrame' /\ WaitersShareTheFetch' /\ \A t \in Threads : Locals(t)'
    BY <2>1 DEF IInv, NeverYesterdaysFrame, WaitersShareTheFetch, Reason, Age, Locals
  <2> QED
    BY <2>2, <2>3 DEF IInv
<1> QED
  BY <1>1, <1>2, <1>3, <1>4, <1>5, <1>6, <1>7 DEF Next

\* The strengthening is invariant: turns at writing, CSV before sidecar, and the
\* entry's two days in order.
THEOREM Invariance == Spec => []IInv
BY InitIInv, NextIInv, PTL DEF Spec

\* The state stays well typed; in particular no write time that the cache or
\* its index holds is ahead of the clock.
THEOREM TypeCorrect == Spec => []TypeOK
<1>1. IInv => TypeOK
  BY DEF IInv
<1> QED
  BY <1>1, Invariance, PTL

\* A series that get serves from disk was fetched on the trading day of the
\* call or later.
THEOREM FrameIsOfTheDay == Spec => []NeverYesterdaysFrame
<1>1. IInv => NeverYesterdaysFrame
  BY DEF IInv
<1> QED
  BY <1>1, Invariance, PTL

\* No thread fetches while the entry on disk is whole and fresh for it.
THEOREM SingleFlight == Spec => []WaitersShareTheFetch
<1>1. IInv => WaitersShareTheFetch
  BY DEF IInv
<1> QED
  BY <1>1, Invariance, PTL

-----------------------------------------------------------------------------
(* The index of write times.  What it lacks of the sidecar is in the hands  *)
(* of the thread that wrote it and is about to fold it in, unless a write   *)
(* ended while the index was being built.                                   *)

KInv ==
    (built \/ scanning) /\ meta \in Metas =>
        \/ index >= meta.fetched
        \/ missed
        \/ \E t \in Threads : pc[t] = "index" /\ stamp[t] = meta.fetched

\* A step that leaves the sidecar, the index and the threads about to fold alone.
LEMMA KeptUp ==
    ASSUME KInv, UNCHANGED <<meta, indexing, missed>>,
           \A t \in Threads : pc[t] = "index" => pc'[t] = "index" /\ stamp'[t] = stamp[t]
    PROVE  KInv'
BY DEF KInv, indexing

\* A thread at some other label goes on or returns.
LEMMA CallKeepsUp ==
    ASSUME TypeOK, KInv, NEW t \in Threads, pc[t] # "index",
           UNCHANGED <<meta, indexing, missed>>,
           \/ \E l \in Labels : Goto(t, l) /\ UNCHANGED stamp
           \/ \E served \in Answers : Return(t, served)
    PROVE  KInv'
<1>1. \A u \in Threads \ {t} : pc'[u] = pc[u] /\ stamp'[u] = stamp[u]
  BY DEF Goto, Return, TypeOK
<1> QED
  BY <1>1, KeptUp

LEMMA OpenMetaKeepsUp ==
    ASSUME NEW t \in Threads, OpenMeta(t)
    PROVE  KInv'
BY NotWhole DEF OpenMeta, KInv

LEMMA CloseMetaKeepsUp ==
    ASSUME TypeOK, NEW t \in Threads, CloseMeta(t)
    PROVE  KInv'
<1>1. pc' = [pc EXCEPT ![t] = "index"] /\ stamp' = stamp
      /\ meta' = IF meta = NoFile THEN NoFile
                 ELSE [fetched |-> stamp[t], tag |-> date[t],
                       settled |-> df[t].settled, edition |-> df[t].edition]
  BY DEF CloseMeta, Goto, Following, request
<1>2. pc'[t] = "index"
  BY <1>1 DEF TypeOK
<1>3. CASE meta = NoFile
  BY <1>1, <1>3, NotWhole DEF KInv
<1>4. CASE meta # NoFile
  <2>1. meta'.fetched = stamp'[t]
    BY <1>1, <1>4
  <2> QED
    BY <1>2, <2>1 DEF KInv
<1> QED
  BY <1>3, <1>4

\* A built index takes the write time in; a write that ends before that is missed.
LEMMA UpdateKeepsUp ==
    ASSUME TypeOK, KInv, NEW t \in Threads, UpdateIndex(t)
    PROVE  KInv'
<1>1. /\ index' = (IF built THEN Fold(index, stamp[t]) ELSE index)
      /\ missed' = (missed \/ scanning)
      /\ built' = built /\ scanning' = scanning /\ meta' = meta
  BY DEF UpdateIndex, files
<1>2. \A u \in Threads \ {t} : pc'[u] = pc[u] /\ stamp'[u] = stamp[u]
  BY DEF UpdateIndex, Return, Goto, TypeOK
<1>3. index \in Int /\ stamp[t] \in Int
  BY DEF TypeOK, Times
<1>4. ASSUME built, meta \in Metas
      PROVE  KInv'
  <2>1. meta.fetched \in Int /\ index' >= index /\ index' >= stamp[t] /\ index' \in Int
    BY <1>1, <1>3, <1>4 DEF Fold, Metas, Times
  <2>2. CASE missed
    BY <1>1, <2>2 DEF KInv
  <2>4. CASE index >= meta.fetched
    <3>1. index' >= meta'.fetched
      BY <1>1, <1>3, <2>1, <2>4
    <3> QED
      BY <3>1 DEF KInv
  <2>3. ASSUME NEW u \in Threads, pc[u] = "index", stamp[u] = meta.fetched
        PROVE  KInv'
    BY <1>1, <1>2, <1>3, <2>1, <2>3 DEF KInv
  <2> QED
    BY <1>4, <2>2, <2>3, <2>4 DEF KInv
<1>5. CASE ~built
  BY <1>1, <1>5 DEF KInv
<1>6. CASE meta \notin Metas
  BY <1>1, <1>6 DEF KInv
<1> QED
  BY <1>4, <1>5, <1>6

LEMMA NextKInv ==
    ASSUME TypeOK, TypeOK', KInv, [Next]_vars
    PROVE  KInv'
<1>1. NoAnswer \in Answers
  BY DEF NoAnswer, Answers
<1>2. ASSUME NEW t \in Threads,
             Call(t) \/ Run(t) \/ FetchFails(t) \/ DiskFails(t)
      PROVE  KInv'
  <2>1. CASE Call(t)
    <3>1. pc[t] # "index" /\ Goto(t, "fast") /\ UNCHANGED <<meta, indexing, missed, stamp>>
      BY <2>1 DEF Call, files
    <3> QED
      BY <3>1, CallKeepsUp DEF Labels
  <2>2. CASE FastPath(t) \/ DoubleCheck(t)
    <3>1. /\ pc[t] # "index" /\ UNCHANGED <<meta, indexing, missed, stamp>>
          /\ \E l \in Labels : Goto(t, l)
      BY <2>2 DEF FastPath, DoubleCheck, Look, files, request, Labels
    <3> QED
      BY <3>1, CallKeepsUp
  <2>3. CASE ReadCsv(t)
    <3>1. pc[t] # "index" /\ UNCHANGED <<meta, indexing, missed>>
      BY <2>3 DEF ReadCsv, files
    <3>2. CASE \E l \in Labels : Goto(t, l) /\ UNCHANGED stamp
      BY <3>1, <3>2, CallKeepsUp
    <3>3. CASE csv \in Frames /\ Return(t, [asked |-> date[t], day |-> csv.day])
      <4>1. \A u \in Threads \ {t} : pc'[u] = pc[u] /\ stamp'[u] = stamp[u]
        BY <3>3 DEF Return, Goto, TypeOK
      <4> QED
        BY <3>1, <4>1, KeptUp
    <3>4. CASE Return(t, NoAnswer)
      BY <1>1, <3>1, <3>4, CallKeepsUp
    <3> QED
      BY <2>3, <3>2, <3>3, <3>4 DEF ReadCsv, Labels, request
  <2>4. CASE Acquire(t) \/ Fetch(t) \/ OpenCsv(t) \/ CloseCsv(t)
    <3>1. /\ pc[t] # "index" /\ UNCHANGED <<meta, indexing, missed, stamp>>
          /\ \E l \in {"check", "csv", "csv2", "meta"} : Goto(t, l)
      BY <2>4 DEF Acquire, Fetch, OpenCsv, CloseCsv, Following, files, request
    <3> QED
      BY <3>1, CallKeepsUp DEF Labels
  <2>5. CASE FetchFails(t) \/ DiskFails(t)
    <3>1. pc[t] # "index" /\ UNCHANGED <<meta, indexing, missed>> /\ Return(t, NoAnswer)
      BY <2>5 DEF FetchFails, DiskFails, files
    <3> QED
      BY <1>1, <3>1, CallKeepsUp
  <2> QED
    BY <1>2, <2>1, <2>2, <2>3, <2>4, <2>5, OpenMetaKeepsUp, CloseMetaKeepsUp, UpdateKeepsUp DEF Run
<1>3. CASE StartScan
  <2>1. /\ meta' = meta
        /\ index' = IF meta \in Metas THEN Fold(index, meta.fetched) ELSE index
    BY <1>3 DEF StartScan, files
  <2>2. meta \in Metas => index \in Int /\ meta.fetched \in Int
    BY DEF TypeOK, Metas, Times
  <2> QED
    BY <2>1, <2>2 DEF KInv, Fold
<1>4. CASE EndScan
  BY <1>4 DEF EndScan, KInv, files, threads, request
<1>5. CASE ClearMeta
  BY <1>5, NotWhole DEF ClearMeta, KInv
<1>6. CASE ClearCsv \/ Tick \/ Publish \/ UNCHANGED vars
  <2>1. UNCHANGED <<meta, indexing, missed, pc, stamp>>
    BY <1>6 DEF ClearCsv, Tick, Publish, vars, files, threads, request
  <2> QED
    BY <2>1, KeptUp
<1>7. CASE Crash
  BY <1>7 DEF Crash, KInv
<1> QED
  BY <1>2, <1>3, <1>4, <1>5, <1>6, <1>7 DEF Next

\* The screener's staleness check reads an index that is as late as the sidecar
\* says, through every interleaving of writers, of the scan that builds it, of
\* clear() and of restarts, except for a write that ended during that scan.
THEOREM IndexIsAsLate == Spec => []IndexKeepsUp
<1>1. Init => KInv
  BY DEF Init, KInv
<1>2. KInv => IndexKeepsUp
  BY DEF KInv, IndexKeepsUp
<1>3. TypeOK /\ TypeOK' /\ KInv /\ [Next]_vars => KInv'
  BY NextKInv
<1> QED
  BY <1>1, <1>2, <1>3, TypeCorrect, PTL DEF Spec

=============================================================================
