----------------------------- MODULE CdnPublish -----------------------------
(***************************************************************************)
(* Publishing the dashboard's sections to object storage (backend/app/cdn).*)
(* The snapshot scheduler is the only publisher: it builds the objects,    *)
(* reads the manifest that it wrote last, uploads what has changed, and    *)
(* writes the manifest, which tells the apps by hash what to download.     *)
(*                                                                         *)
(* A content stands for its hash; the empty content is not valid.          *)
(***************************************************************************)
EXTENDS RequestThreads, Sequences

CONSTANTS
    Keys,        \* the objects, in the order of their upload
    MaxContents  \* bound: contents of an object

ASSUME KeysAssumption == DOMAIN Keys = 1..Len(Keys) /\ MaxContents \in Nat \ {0}

VARIABLES
    sections,  \* what the snapshot service holds for each object
    objects,   \* what the storage holds for each object
    remote,    \* the manifest in the storage, or none
    ever,      \* history: contents that each object has had
    unsent     \* history: names put in a manifest for want of a previous one

cdnVars == <<sections, objects, remote, ever, unsent>>

Empty == 0
Missing == -1
NoManifest == <<>>

CdnInit ==
    /\ sections \in [DOMAIN Keys -> {Empty, 1}]
    /\ objects = [k \in DOMAIN Keys |-> Missing]
    /\ remote = NoManifest
    /\ ever = [k \in DOMAIN Keys |-> {}]
    /\ unsent = {}

\* An upload of content c to object k arrives, or not; either way it may raise.
Put(k, c) ==
    /\ objects' \in {objects, [objects EXCEPT ![k] = c]}
    /\ ever' = [ever EXCEPT ![k] = @ \cup ({objects'[k]} \ {Missing})]

\* _run_task: a section is built anew, and never becomes empty (put_guarded).
Refresh ==
    /\ \E k \in DOMAIN Keys : \E c \in 1..MaxContents \ {sections[k]} : sections' = [sections EXCEPT ![k] = c]
    /\ UNCHANGED <<pool, objects, remote, ever, unsent>>

\* tick, when a task has run; the scheduler is one thread.
StartPublish(t) ==
    /\ \A o \in Threads : frame[o].op # "publish"
    /\ Begin(t, "manifest", [op |-> "publish", content |-> sections, names |-> sections,
                             previous |-> NoManifest, key |-> 1, kept |-> {}])
    /\ UNCHANGED cdnVars

\* The storage answers, or cannot be read, which is like no manifest.
ReadManifest(t) ==
    /\ At(t, "manifest")
    /\ \E previous \in {remote, NoManifest} :
         Go(t, "upload", [frame[t] EXCEPT !.previous = previous])
    /\ UNCHANGED cdnVars

\* Fault: the manifest keeps the new hash of an object that was not uploaded.
NewName(f) == [f EXCEPT !.key = @ + 1]

\* The manifest keeps the previous name of the object, if there is one.
PreviousName(f) ==
    IF f.previous = NoManifest
    THEN [f EXCEPT !.key = @ + 1, !.kept = @ \cup {<<f.key, f.names[f.key]>>}]
    ELSE [f EXCEPT !.key = @ + 1, !.names = [@ EXCEPT ![f.key] = f.previous[f.key]]]

Unchanged(f) == f.previous # NoManifest /\ f.previous[f.key] = f.content[f.key]

\* The next object: invalid, unchanged, uploaded, or failed.
Upload(t) ==
    /\ At(t, "upload")
    /\ frame[t].key <= Len(Keys)
    /\ LET f == frame[t]
           next == [f EXCEPT !.key = @ + 1]
       IN \/ /\ f.content[f.key] = Empty
             /\ Go(t, "upload", PreviousName(f))
             /\ UNCHANGED <<objects, ever>>
          \/ /\ f.content[f.key] # Empty /\ Unchanged(f)
             /\ Go(t, "upload", next)
             /\ UNCHANGED <<objects, ever>>
          \/ /\ f.content[f.key] # Empty /\ ~Unchanged(f)
             /\ Put(f.key, f.content[f.key])
             /\ \/ objects'[f.key] = f.content[f.key] /\ Go(t, "upload", next)
                \/ Go(t, "upload", PreviousName(f))
    /\ UNCHANGED <<sections, remote, unsent>>

\* The manifest comes last; its upload fails like any other.
PutManifest(t) ==
    /\ At(t, "upload")
    /\ frame[t].key > Len(Keys)
    /\ \/ /\ remote' = frame[t].names
          /\ unsent' = unsent \cup frame[t].kept
       \/ UNCHANGED <<remote, unsent>>
    /\ Done(t)
    /\ UNCHANGED <<sections, objects, ever>>

\* A crash leaves the publish where it is (one between two publishes is like one at
\* the start of the next); a section without a file is lost.
CdnRestart ==
    /\ \E t \in Threads : ~At(t, "idle")
    /\ pc' = [t \in Threads |-> "idle"]
    /\ frame' = [t \in Threads |-> NoFrame]
    /\ sections' \in {s \in [DOMAIN Keys -> Empty..MaxContents] :
                        \A k \in DOMAIN Keys : s[k] \in {Empty, sections[k]}}
    /\ UNCHANGED <<requests, objects, remote, ever, unsent>>

CdnNext ==
    \/ Refresh
    \/ CdnRestart
    \/ \E t \in Threads : StartPublish(t) \/ ReadManifest(t) \/ Upload(t) \/ PutManifest(t)

cdnAll == <<pool, cdnVars>>
CdnSpec == PoolInit /\ CdnInit /\ [][CdnNext]_cdnAll

-----------------------------------------------------------------------------

\* Apps are never sent for what was not there: whatever uploads fail or lose their
\* answer and wherever a publish is cut off, a content that the manifest names has
\* been stored, unless its object had failed, or was empty, when there was no
\* previous manifest to read.
NamedWasStored ==
    remote # NoManifest =>
        \A k \in DOMAIN Keys : remote[k] \in ever[k] \/ <<k, remote[k]>> \in unsent

=============================================================================
