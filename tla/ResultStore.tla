----------------------------- MODULE ResultStore -----------------------------
(***************************************************************************)
(* The results of one schedule entry with their recordings: the rows of    *)
(* task_result and acquisitions and the data files on disk.  The scheduler *)
(* thread runs one task after the other, finalizer threads save results,   *)
(* users delete them.  A file is written and removed outside of any        *)
(* transaction, so rows and files part company where steps interleave,     *)
(* fail, or a crash falls between them.                                    *)
(***************************************************************************)
EXTENDS Integers, FiniteSets

CONSTANTS
    None,
    Recordings,      \* recordings a task of the entry makes
    Limit,           \* data files that fit below settings.MAX_DISK_USAGE
    MaxTasks,        \* bound on tasks
    MaxDeletes,      \* bound on users' requests to delete a result
    MaxCrashes,      \* bound on crashes
    MayFailEarly,    \* an action may fail before it has recorded everything
    HasCallback      \* the entry carries a callback_url

ASSUME StoreAssumption ==
    /\ None \notin Int
    /\ Recordings \in Nat \ {0} /\ Limit \in Nat
    /\ MaxTasks \in Nat /\ MaxDeletes \in Nat /\ MaxCrashes \in Nat
    /\ MayFailEarly \in BOOLEAN /\ HasCallback \in BOOLEAN

VARIABLES
    results,     \* table task_result: primary keys, which grow with the task ids
    acqs,        \* table acquisitions: an Acquisition each
    files,       \* data files, each written for one recording
    lastPk,      \* the primary key sequence of task_result
    pc,          \* where the scheduler thread is
    rec,         \* the recording it makes
    saves,       \* calls of TaskResult.save in progress
    requests,    \* users' deletions in progress
    deletes,     \* deletions by users so far
    crashes,     \* crashes so far
    torn,        \* history: results that a crash or a failing step left half done
    short        \* history: on a full disk, a new result made too little room

tables == <<results, acqs, lastPk>>
vars == <<tables, files, pc, rec, saves, requests, deletes, crashes, torn, short>>

Id   == Nat \ {0}
File == [result : Id, rec : Id]
Acquisition == [of : File, encrypted : BOOLEAN]

(* Model.delete of a result: first the acquisitions are collected, then    *)
(* their files removed (pre_delete), then the rows, by their keys, in a    *)
(* transaction.                                                            *)
Deletion == [result : Id, rows : SUBSET File]
NoDeletion == [result |-> None, rows |-> {}]

(* TaskResult.save: `own` is the row saved, None for a new one; `seen` the *)
(* result that may be the oldest.  A finalizer saves when its task has     *)
(* ended, again to report, and once more in the handler of the callback's  *)
(* exceptions.                                                             *)
Phases == {"save", "report", "except"}
Steps  == {"count", "first", "data", "has", "look", "clean", "delete", "write"}
Save   == [own : Id \cup {None}, phase : Phases, step : Steps,
           seen : Id \cup {None}, del : Deletion \cup {NoDeletion}]

NewSave(own, phase) == [own |-> own, phase |-> phase, step |-> "count",
                        seen |-> None, del |-> NoDeletion]

TypeOK ==
    /\ results \in SUBSET Id
    /\ acqs \in SUBSET Acquisition
    /\ files \in SUBSET File
    /\ lastPk \in Nat
    /\ pc \in {"idle", "creating", "acting", "insert", "flag", "dead"}
    /\ rec \in Nat
    /\ saves \subseteq Save
    /\ requests \subseteq Deletion
    /\ deletes \in 0 .. MaxDeletes
    /\ crashes \in 0 .. MaxCrashes
    /\ torn \in SUBSET Id
    /\ short \in BOOLEAN

Init ==
    /\ results = {}
    /\ acqs = {}
    /\ files = {}
    /\ lastPk = 0
    /\ pc = "idle"
    /\ rec = 0
    /\ saves = {}
    /\ requests = {}
    /\ deletes = 0
    /\ crashes = 0
    /\ torn = {}
    /\ short = FALSE
------------------------------------------------------------------------------
(* The tables and the disk. *)

IsOldest(r) == r \in results /\ \A s \in results : r <= s    \* order_by("id")[0]
AcqsOf(r) == {a \in acqs : a.of.result = r}
HasRow(f) == \E a \in acqs : a.of = f
FilesOf(d) == files \cap d.rows

(* Mutant: the limit is compared with the usage before the last task. *)
DiskFullBefore == Cardinality(files) - Recordings > Limit

(* shutil.disk_usage against MAX_DISK_USAGE: strictly more *)
DiskFull == Cardinality(files) > Limit

(* Mutant: what is collected is the rows as they read now. *)
CollectedRows(r) == [result |-> r, rows |-> AcqsOf(r)]

Collected(r) == [result |-> r, rows |-> {a.of : a \in AcqsOf(r)}]

(* The deferred foreign key is checked at the commit: it fails when a      *)
(* recording of the result was inserted after the collection.              *)
Commits(d) == \A a \in AcqsOf(d.result) : a.of \in d.rows

(* Mutant: nobody listens to pre_delete. *)
NoFilesLeft(d) == FALSE

FilesLeft(d) == FilesOf(d) # {}
------------------------------------------------------------------------------
(* TaskResult.save, by the scheduler thread for a new result and by the    *)
(* finalizers. *)

Goes(s, t) == saves' = (saves \ {s}) \cup {t}

At(s, step) == [s EXCEPT !.step = step]

(* An exception in the scheduler thread kills it, in a finalizer it ends   *)
(* the finalizer; but the report is saved in the try block of the          *)
(* callback, whose handler saves once more.                                *)
SaveFails(s) ==
    IF s.phase = "report" /\ HasCallback
    THEN Goes(s, NewSave(s.own, "except")) /\ UNCHANGED pc
    ELSE /\ saves' = saves \ {s}
         /\ pc' = IF s.own = None THEN "dead" ELSE pc

(* same_entry_results.count() *)
SaveCount(s) ==
    /\ s.step = "count"
    /\ Goes(s, At(s, IF results = {} THEN "write" ELSE "first"))
    /\ UNCHANGED <<tables, files, pc, rec, requests, deletes, crashes, torn, short>>

(* same_entry_results[0].id: an IndexError when they are gone by now *)
SaveFirst(s) ==
    /\ s.step = "first"
    /\ IF results = {}
       THEN SaveFails(s)
       ELSE Goes(s, At(s, IF IsOldest(s.own) THEN "write" ELSE "data")) /\ UNCHANGED pc
    /\ UNCHANGED <<tables, files, rec, requests, deletes, crashes, torn, short>>

(* same_entry_results[0].data: the query runs again, and what it finds is  *)
(* kept.                                                                   *)
SaveData(s) ==
    /\ s.step = "data"
    /\ IF results = {}
       THEN SaveFails(s)
       ELSE /\ \E r \in results :
                   IsOldest(r) /\ Goes(s, [At(s, "has") EXCEPT !.seen = r])
            /\ UNCHANGED pc
    /\ UNCHANGED <<tables, files, rec, requests, deletes, crashes, torn, short>>

(* acquisitions.count(): only that result is looked at, and only for       *)
(* acquisitions; without any, the save makes no room however full the disk.*)
SaveHas(s) ==
    /\ s.step = "has"
    /\ IF AcqsOf(s.seen) = {}
       THEN /\ Goes(s, [At(s, "write") EXCEPT !.seen = None])
            /\ short' = (short \/ (s.own = None /\ DiskFull))
       ELSE Goes(s, At(s, "look")) /\ UNCHANGED short
    /\ UNCHANGED <<tables, files, pc, rec, requests, deletes, crashes, torn>>

(* acquisitions.all()[0], an IndexError when they are gone by now, and the *)
(* usage of the disk it is on                                              *)
SaveLook(s) ==
    /\ s.step = "look"
    /\ IF AcqsOf(s.seen) = {}
       THEN SaveFails(s)
       ELSE /\ Goes(s, [At(s, IF DiskFull THEN "clean" ELSE "write") EXCEPT !.seen = None])
            /\ UNCHANGED pc
    /\ UNCHANGED <<tables, files, rec, requests, deletes, crashes, torn, short>>

(* same_entry_results[0].delete(): the query runs again.  The result found *)
(* may be another, or have lost its files to another deletion.             *)
SaveClean(s) ==
    /\ s.step = "clean"
    /\ IF results = {}
       THEN SaveFails(s) /\ UNCHANGED short
       ELSE /\ \E r \in results :
                   /\ IsOldest(r)
                   /\ Goes(s, [At(s, "delete") EXCEPT !.del = Collected(r)])
                   /\ short' = (short \/
                                  (s.own = None /\ Cardinality(FilesOf(Collected(r))) < Recordings))
            /\ UNCHANGED pc
    /\ UNCHANGED <<tables, files, rec, requests, deletes, crashes, torn>>

SaveRemovesFile(s, f) ==
    /\ s.step = "delete"
    /\ f \in FilesOf(s.del)
    /\ files' = files \ {f}
    /\ UNCHANGED <<tables, pc, rec, saves, requests, deletes, crashes, torn, short>>

(* Mutant: the acquisitions do not follow their result. *)
DeleteRowsUncascaded(d) ==
    results' = results \ {d.result} /\ UNCHANGED <<acqs, torn>>

DeleteRows(d) ==
    IF Commits(d)
    THEN results' = results \ {d.result} /\ acqs' = acqs \ AcqsOf(d.result) /\ UNCHANGED torn
    ELSE torn' = torn \cup {d.result} /\ UNCHANGED <<results, acqs>>

SaveDeletesRows(s) ==
    /\ s.step = "delete"
    /\ ~FilesLeft(s.del)
    /\ DeleteRows(s.del)
    /\ IF Commits(s.del)
       THEN Goes(s, [At(s, "write") EXCEPT !.del = NoDeletion]) /\ UNCHANGED pc
       ELSE SaveFails(s)
    /\ UNCHANGED <<files, lastPk, rec, requests, deletes, crashes, short>>

(* A new result is inserted; a saved one is updated, or inserted again     *)
(* when it was deleted since.  After its first save the finalizer reports; *)
(* what is raised before the report is saved goes to the handler.          *)
SaveWrites(s) ==
    /\ s.step = "write"
    /\ IF s.own = None
       THEN /\ results' = results \cup {lastPk + 1}
            /\ lastPk' = lastPk + 1
            /\ saves' = saves \ {s}
            /\ pc' = "acting"
            /\ rec' = 1
       ELSE /\ results' = results \cup {s.own}
            /\ \/ s.phase = "save" /\ Goes(s, NewSave(s.own, "report"))
               \/ s.phase = "save" /\ HasCallback /\ Goes(s, NewSave(s.own, "except"))
               \/ s.phase # "save" /\ saves' = saves \ {s}
            /\ UNCHANGED <<lastPk, pc, rec>>
    /\ UNCHANGED <<acqs, files, requests, deletes, crashes, torn, short>>
------------------------------------------------------------------------------
(* The scheduler thread: a task, and measurement_action_completed_callback *)
(* for each of its recordings.  The task's result is that of lastPk.       *)

Recording == [result |-> lastPk, rec |-> rec]

StartTask ==
    /\ pc = "idle"
    /\ lastPk < MaxTasks
    /\ pc' = "creating"
    /\ saves' = saves \cup {NewSave(None, "save")}
    /\ UNCHANGED <<tables, files, rec, requests, deletes, crashes, torn, short>>

(* The task returns or raises; a finalizer saves its result. *)
EndTask ==
    /\ pc' = "idle"
    /\ rec' = 0
    /\ saves' = saves \cup {NewSave(lastPk, "save")}

Return ==
    /\ pc = "acting"
    /\ rec > Recordings \/ MayFailEarly
    /\ EndTask
    /\ UNCHANGED <<tables, files, requests, deletes, crashes, torn, short>>

(* TaskResult.objects.get finds the result or raises; FieldFile.save       *)
(* writes the file ...                                                     *)
StoreFile ==
    /\ pc = "acting"
    /\ rec <= Recordings
    /\ IF lastPk \in results
       THEN /\ files' = files \cup {Recording}
            /\ pc' = "insert"
            /\ UNCHANGED <<rec, saves>>
       ELSE EndTask /\ UNCHANGED files
    /\ UNCHANGED <<tables, requests, deletes, crashes, torn, short>>

(* ... and inserts the row, whose foreign key may be violated by now ...   *)
InsertRow ==
    /\ pc = "insert"
    /\ IF lastPk \in results
       THEN /\ acqs' = acqs \cup {[of |-> Recording, encrypted |-> FALSE]}
            /\ pc' = "flag"
            /\ UNCHANGED <<rec, saves, torn>>
       ELSE /\ torn' = torn \cup {lastPk}
            /\ EndTask
            /\ UNCHANGED acqs
    /\ UNCHANGED <<results, lastPk, files, requests, deletes, crashes, short>>

(* Mutant: data_encrypted is set on the instance and not saved. *)
SetFlagUnsaved ==
    /\ pc = "flag"
    /\ rec' = rec + 1
    /\ pc' = "acting"
    /\ UNCHANGED <<tables, files, saves, requests, deletes, crashes, torn, short>>

(* ... which is saved once more with data_encrypted.  The save updates the *)
(* row, or inserts it when it is gone, which fails without its result.     *)
SetFlag ==
    /\ pc = "flag"
    /\ IF lastPk \in results
       THEN /\ acqs' = {a \in acqs : a.of # Recording}
                          \cup {[of |-> Recording, encrypted |-> TRUE]}
            /\ rec' = rec + 1
            /\ pc' = "acting"
            /\ UNCHANGED saves
       ELSE EndTask /\ UNCHANGED acqs
    /\ UNCHANGED <<results, lastPk, files, requests, deletes, crashes, torn, short>>
------------------------------------------------------------------------------
(* Users and crashes. *)

(* DELETE of a result *)
Request(r) ==
    /\ deletes < MaxDeletes
    /\ deletes' = deletes + 1
    /\ requests' = requests \cup {Collected(r)}
    /\ UNCHANGED <<tables, files, pc, rec, saves, crashes, torn, short>>

RequestRemovesFile(d, f) ==
    /\ f \in FilesOf(d)
    /\ files' = files \ {f}
    /\ UNCHANGED <<tables, pc, rec, saves, requests, deletes, crashes, torn, short>>

RequestDeletesRows(d) ==
    /\ ~FilesLeft(d)
    /\ DeleteRows(d)
    /\ requests' = requests \ {d}
    /\ UNCHANGED <<files, lastPk, pc, rec, saves, deletes, crashes, short>>

Deletions == requests \cup {s.del : s \in {t \in saves : t.step = "delete"}}

(* A new process: tables and files stay.  What was under way is cut off:   *)
(* a recording, and the deletions that have begun to remove files.         *)
Reboot ==
    /\ pc' = "idle"
    /\ rec' = 0
    /\ saves' = {}
    /\ requests' = {}
    /\ torn' = torn \cup {d.result : d \in Deletions}
                    \cup (IF pc \in {"insert", "flag"} THEN {lastPk} ELSE {})
    /\ UNCHANGED <<tables, files, deletes, short>>

(* After the death of the scheduler thread, or with nothing under way. *)
Restart ==
    /\ pc = "dead" \/ (pc = "idle" /\ saves = {} /\ requests = {})
    /\ Reboot
    /\ UNCHANGED crashes

Crash ==
    /\ crashes < MaxCrashes
    /\ crashes' = crashes + 1
    /\ Reboot

Saver ==
    \E s \in saves :
        \/ SaveCount(s) \/ SaveFirst(s) \/ SaveData(s) \/ SaveHas(s) \/ SaveLook(s)
        \/ SaveClean(s)
        \/ \E f \in files : SaveRemovesFile(s, f)
        \/ SaveDeletesRows(s) \/ SaveWrites(s)

Task == StartTask \/ Return \/ StoreFile \/ InsertRow \/ SetFlag

User ==
    \/ \E r \in results : Request(r)
    \/ \E d \in requests : RequestDeletesRows(d) \/ \E f \in files : RequestRemovesFile(d, f)

Next == Saver \/ Task \/ User \/ Restart \/ Crash

Spec == Init /\ [][Next]_vars
------------------------------------------------------------------------------
(* What the store promises. *)

(* An acquisition that says its data are not encrypted says the truth, but *)
(* for the moment between its two saves: the archive of a task that ran    *)
(* undisturbed is decrypted (measurement_handler.py; views.py,             *)
(* build_sigmf_archive).                                                   *)
FlagsTrue ==
    \A a \in acqs : ~a.encrypted =>
        a.of.result \in torn \/ (pc = "flag" /\ a.of = Recording)

(* An acquisition has its data file, unless a deletion is removing it, or  *)
(* was cut off or refused after the files were gone: users, finalizers and *)
(* the disk limit may delete the same result at the same time              *)
(* (acquisition.py, clean_up_data).                                        *)
RowsHaveFiles ==
    \A a \in acqs : a.of \notin files =>
        a.of.result \in torn \cup {d.result : d \in Deletions}

(* No file stays on disk that no acquisition tells of, but that of a       *)
(* recording cut off, or refused since its result was deleted meanwhile    *)
(* (measurement_handler.py).                                               *)
FilesHaveRows ==
    \A f \in files : ~HasRow(f) =>
        f.result \in torn \/ (pc = "insert" /\ f = Recording)

(* "Limit disk usage to MAX_DISK_USAGE by removing oldest result"          *)
(* (task_result.py, save).                                                 *)
DiskLimited == Cardinality(files) <= Limit + Recordings

(* The disk limit holds, up to the recordings of one task, as long as, on  *)
(* a full disk, the save of a new result finds recordings to remove and    *)
(* frees the files of a task, and no deletion of a user or crash left      *)
(* files or rows behind (task_result.py, save).                            *)
DiskLimitedWhenFull == short \/ torn # {} \/ DiskLimited
==============================================================================
