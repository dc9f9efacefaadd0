------------------------------ MODULE JsonFile ------------------------------
(***************************************************************************)
(* How the owner's ledgers are kept (momentum/ledger.py, momentum/         *)
(* sleeves.py): a JSON file that is read whole, and saved by writing a     *)
(* temporary file of a fixed name and renaming it over the old one.  The   *)
(* object that holds the lock is made anew for each request, so the lock   *)
(* excludes nobody, and two savers share the temporary file.               *)
(*                                                                         *)
(* A name and what an open handle points to are told apart: a rename moves *)
(* the file under a writer's hands.                                        *)
(***************************************************************************)
EXTENDS RequestThreads

CONSTANT Files   \* names

VARIABLES
    disk,     \* content of each file
    temp,     \* content of its temporary file
    handle,   \* where the file that a thread has open is now: temp, disk or unlinked
    shared    \* history: files that two requests have been saving at once

fileVars == <<disk, temp, handle, shared>>

Absent == [text |-> "absent"]
Torn == [text |-> "torn"]  \* empty, cut short, or one text over another: not JSON
Json(data) == [text |-> "json", data |-> data]
Closed == "closed"

FileInit ==
    /\ disk = [f \in Files |-> Absent]
    /\ temp = [f \in Files |-> Absent]
    /\ handle = [t \in Threads |-> Closed]
    /\ shared = {}

\* _load: a file that is not there, or is not JSON, is empty.
Load(f, empty) == IF disk[f] \in {Absent, Torn} THEN empty ELSE disk[f].data

Saving(t, f) == (At(t, "write") \/ At(t, "replace")) /\ frame[t].file = f

\* Fault: the file itself is written.
OpenInPlace(t) ==
    /\ At(t, "open")
    /\ LET f == frame[t].file IN
         /\ disk' = [disk EXCEPT ![f] = Torn]
         /\ temp' = [temp EXCEPT ![f] = Torn]
         /\ handle' = [handle EXCEPT ![t] = "temp"]
         /\ shared' = IF \E o \in Threads : Saving(o, f) THEN shared \cup {f} ELSE shared
    /\ Go(t, "write", frame[t])

\* open(tmp, "w") truncates the file of whoever opened it before.
OpenTemp(t) ==
    /\ At(t, "open")
    /\ LET f == frame[t].file IN
         /\ temp' = [temp EXCEPT ![f] = Torn]
         /\ handle' = [handle EXCEPT ![t] = "temp"]
         /\ shared' = IF \E o \in Threads : Saving(o, f) THEN shared \cup {f} ELSE shared
    /\ Go(t, "write", frame[t])
    /\ UNCHANGED disk

\* json.dump and close.  Over another writer's text the result may be neither's.
Written(content, data, alone) ==
    IF alone /\ content = Torn THEN {Json(data)} ELSE {Json(data), Torn}

WriteTemp(t) ==
    /\ At(t, "write")
    /\ LET f == frame[t].file
           data == frame[t].data
           alone == \A o \in Threads \ {t} : ~(Saving(o, f) /\ handle[o] = handle[t])
       IN CASE handle[t] = "temp" ->
                 /\ \E text \in Written(temp[f], data, alone) : temp' = [temp EXCEPT ![f] = text]
                 /\ UNCHANGED disk
            [] handle[t] = "disk" ->
                 /\ \E text \in Written(disk[f], data, alone) : disk' = [disk EXCEPT ![f] = text]
                 /\ UNCHANGED temp
            [] OTHER -> UNCHANGED <<disk, temp>>
    /\ handle' = [handle EXCEPT ![t] = Closed]
    /\ Go(t, "replace", frame[t])
    /\ UNCHANGED shared

\* What becomes of the handles of file f when its temporary file is renamed.
Renamed(f) ==
    [t \in Threads |-> CASE Saving(t, f) /\ handle[t] = "temp" -> "disk"
                         [] Saving(t, f) /\ handle[t] = "disk" -> "unlinked"
                         [] OTHER -> handle[t]]

\* os.replace fails when another saver has renamed the file already.
ReplaceFile(t) ==
    /\ At(t, "replace")
    /\ LET f == frame[t].file IN
         IF temp[f] = Absent THEN UNCHANGED <<disk, temp, handle>>
         ELSE /\ disk' = [disk EXCEPT ![f] = temp[f]]
              /\ temp' = [temp EXCEPT ![f] = Absent]
              /\ handle' = Renamed(f)
    /\ Done(t)
    /\ UNCHANGED shared

Save(t) == OpenTemp(t) \/ WriteTemp(t) \/ ReplaceFile(t)

-----------------------------------------------------------------------------

\* The rename keeps a file whole through a failure or a restart at any point of a
\* save: only two requests that save at once can leave it torn.
WholeUnlessShared == \A f \in Files : disk[f] = Torn => f \in shared

=============================================================================
