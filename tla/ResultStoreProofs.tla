--------------------------- MODULE ResultStoreProofs ---------------------------
(***************************************************************************)
(* For any number of recordings, tasks, deletions and crashes: rows, files *)
(* and flags of the result store agree but where something was cut off.    *)
(***************************************************************************)
EXTENDS ResultStore, FiniteSetTheorems, TLAPS

Acting == pc \in {"acting", "insert", "flag"}

(* Who saves what: one new result at a time, while the thread waits for    *)
(* it, and results of the tasks before.                                    *)
SavesKnown ==
    /\ \A s \in saves :
           /\ s.own = None => pc = "creating"
           /\ s.own # None => s.own <= lastPk /\ (Acting => s.own < lastPk)
           /\ s.step = "delete" => s.del \in Deletion
    /\ \A s, t \in saves : s.own = None /\ t.own = None => s = t
    /\ Acting => lastPk \in Id /\ rec \in Id

(* A deletion has collected acquisitions of its result only. *)
DeletionsKnown == \A d \in Deletions : \A f \in d.rows : f.result = d.result

SavesInv == TypeOK /\ SavesKnown /\ DeletionsKnown

(* Results that something was cut off of, or that are being deleted.       *)
Excused == torn \cup {d.result : d \in Deletions}

(* The recording under way has its file until its row is inserted, and its *)
(* row until it is flagged, unless its result is being deleted.            *)
RecordingUnderWay ==
    /\ pc = "insert" => Recording \in files \/ lastPk \in Excused \/ lastPk \notin results
    /\ pc = "flag" => lastPk \notin results \/ HasRow(Recording)

ForeignKey == \A a \in acqs : a.of.result \in results

RowsInv == ForeignKey /\ RecordingUnderWay /\ FlagsTrue /\ RowsHaveFiles /\ FilesHaveRows

StoreInv == SavesInv /\ RowsInv

Used == Cardinality(files)

(* There is room for what the task under way has still to write: the save  *)
(* of its new result went on to write only below the limit, or after the   *)
(* files of the oldest result are gone.                                    *)
Room ==
    /\ Used <= Limit + Recordings
    /\ \A s \in saves : s.own = None =>
           /\ s.step = "delete" => Cardinality(files \ FilesOf(s.del)) <= Limit
           /\ s.step = "write" => Used <= Limit
    /\ pc = "acting" => rec <= Recordings + 1 /\ Used <= Limit + rec - 1
    /\ pc \in {"insert", "flag"} => rec <= Recordings /\ Used <= Limit + rec

LimitInv == IsFiniteSet(files) /\ (short \/ torn # {} \/ Room)
------------------------------------------------------------------------------
(* Who saves and who deletes. *)

LEMMA InitStore == Init => StoreInv
<1> SUFFICES ASSUME Init PROVE StoreInv
  OBVIOUS
<1>1. TypeOK
  <2>1. deletes \in 0 .. MaxDeletes /\ crashes \in 0 .. MaxCrashes
    BY StoreAssumption DEF Init
  <2> QED
    BY <2>1 DEF Init, TypeOK
<1>2. SavesKnown /\ DeletionsKnown
  BY DEF Init, SavesKnown, DeletionsKnown, Deletions, Acting
<1>3. RowsInv
  BY DEF Init, RowsInv, ForeignKey, RecordingUnderWay, FlagsTrue, RowsHaveFiles, FilesHaveRows
<1> QED
  BY <1>1, <1>2, <1>3 DEF StoreInv, SavesInv

LEMMA CollectedIsDeletion ==
    ASSUME TypeOK, NEW r \in results
    PROVE  Collected(r) \in Deletion /\ \A f \in Collected(r).rows : f.result = Collected(r).result
  BY DEF TypeOK, Collected, AcqsOf, Deletion, Acquisition

LEMMA NewSaveIsSave ==
    ASSUME NEW own \in Id \cup {None}, NEW phase \in Phases
    PROVE  /\ NewSave(own, phase) \in Save
           /\ NewSave(own, phase).own = own /\ NewSave(own, phase).step = "count"
  BY DEF NewSave, Save, Steps

LEMMA OldestIsResult == ASSUME NEW r, IsOldest(r) PROVE r \in results
  BY DEF IsOldest

(* A save goes to another step. *)
LEMMA GoesSaves ==
    ASSUME SavesInv, NEW s \in saves, NEW t \in Save, Goes(s, t),
           t.own = s.own,
           t.step = "delete" =>
               t.del \in Deletion /\ \A f \in t.del.rows : f.result = t.del.result,
           results' \in SUBSET Id, acqs' \in SUBSET Acquisition, torn' \in SUBSET Id,
           short' \in BOOLEAN,
           UNCHANGED <<files, lastPk, pc, rec, requests, deletes, crashes>>
    PROVE  SavesInv'
<1>1. TypeOK'
  BY DEF SavesInv, TypeOK, Goes
<1>2. SavesKnown'
  <2>1. \A x \in saves' : x = t \/ (x \in saves /\ x # s)
    BY DEF Goes
  <2> QED
    BY <2>1 DEF SavesInv, SavesKnown, Acting
<1>3. DeletionsKnown'
  BY DEF SavesInv, DeletionsKnown, Deletions, Goes
<1> QED
  BY <1>1, <1>2, <1>3 DEF SavesInv

(* A save ends, by itself or with an exception. *)
LEMMA LeavesSaves ==
    ASSUME SavesInv, NEW s \in saves, saves' = saves \ {s},
           pc' = IF s.own = None THEN "dead" ELSE pc,
           results' \in SUBSET Id, acqs' \in SUBSET Acquisition, torn' \in SUBSET Id,
           short' \in BOOLEAN,
           UNCHANGED <<files, lastPk, rec, requests, deletes, crashes>>
    PROVE  SavesInv'
<1>1. TypeOK'
  BY DEF SavesInv, TypeOK
<1>2. SavesKnown'
  BY DEF SavesInv, SavesKnown, Acting
<1>3. DeletionsKnown'
  BY DEF SavesInv, DeletionsKnown, Deletions
<1> QED
  BY <1>1, <1>2, <1>3 DEF SavesInv

(* A save raises: it ends, or the handler of the callback saves again.     *)
LEMMA FailsSaves ==
    ASSUME SavesInv, NEW s \in saves, SaveFails(s),
           results' \in SUBSET Id, acqs' \in SUBSET Acquisition, torn' \in SUBSET Id,
           short' \in BOOLEAN,
           UNCHANGED <<files, lastPk, rec, requests, deletes, crashes>>
    PROVE  SavesInv'
<1>1. CASE s.phase = "report" /\ HasCallback
  <2> DEFINE t == NewSave(s.own, "except")
  <2>1. s.own \in Id \cup {None}
    BY DEF SavesInv, TypeOK, Save
  <2>2. t \in Save /\ t.own = s.own /\ t.step # "delete"
    BY <2>1, NewSaveIsSave DEF Phases
  <2>3. Goes(s, t) /\ UNCHANGED pc
    BY <1>1 DEF SaveFails
  <2> HIDE DEF t
  <2> QED
    BY <2>2, <2>3, GoesSaves
<1>2. CASE ~(s.phase = "report" /\ HasCallback)
  BY <1>2, LeavesSaves DEF SaveFails
<1> QED
  BY <1>1, <1>2

(* The thread goes on without a save. *)
LEMMA ThreadSaves ==
    ASSUME SavesInv, Acting, Acting', UNCHANGED <<saves, lastPk, requests>>, TypeOK',
           rec' \in Id
    PROVE  SavesInv'
<1>1. SavesKnown'
  BY DEF SavesInv, SavesKnown, Acting
<1>2. DeletionsKnown'
  BY DEF SavesInv, DeletionsKnown, Deletions
<1> QED
  BY <1>1, <1>2 DEF SavesInv

LEMMA EndTaskSaves ==
    ASSUME SavesInv, Acting, EndTask, torn' \in SUBSET Id,
           UNCHANGED <<tables, files, requests, deletes, crashes, short>>
    PROVE  SavesInv'
<1> DEFINE new == NewSave(lastPk, "save")
<1>1. new \in Save /\ new.own = lastPk /\ new.own # None /\ new.step # "delete"
  <2>1. lastPk \in Id /\ lastPk \in Int /\ "save" \in Phases
    BY DEF SavesInv, SavesKnown, Id, Phases
  <2>2. new \in Save /\ new.own = lastPk /\ new.step = "count"
    BY <2>1, NewSaveIsSave
  <2> QED
    BY <2>1, <2>2, StoreAssumption
<1>2. saves' = saves \cup {new} /\ pc' = "idle" /\ rec' = 0
  BY DEF EndTask
<1>3. short' \in BOOLEAN
  BY DEF SavesInv, TypeOK
<1> HIDE DEF new
<1>4. TypeOK'
  BY <1>1, <1>2, <1>3 DEF SavesInv, TypeOK, tables
<1>5. SavesKnown'
  <2>1. \A s \in saves : s.own # None
    BY DEF SavesInv, SavesKnown, Acting
  <2>2. lastPk \in Nat
    BY DEF SavesInv, TypeOK
  <2> QED
    BY <1>1, <1>2, <2>1, <2>2 DEF SavesInv, SavesKnown, Acting, tables
<1>6. DeletionsKnown'
  BY <1>1, <1>2 DEF SavesInv, DeletionsKnown, Deletions
<1> QED
  BY <1>4, <1>5, <1>6 DEF SavesInv

LEMMA DeleteRowsTypes ==
    ASSUME TypeOK, NEW d \in Deletion, DeleteRows(d)
    PROVE  results' \in SUBSET Id /\ acqs' \in SUBSET Acquisition /\ torn' \in SUBSET Id
  BY DEF TypeOK, DeleteRows, Deletion, AcqsOf

LEMMA SaverSaves == ASSUME SavesInv, Saver PROVE SavesInv'
<1> PICK s \in saves :
        \/ SaveCount(s) \/ SaveFirst(s) \/ SaveData(s) \/ SaveHas(s) \/ SaveLook(s)
        \/ SaveClean(s)
        \/ \E f \in files : SaveRemovesFile(s, f)
        \/ SaveDeletesRows(s) \/ SaveWrites(s)
  BY DEF Saver
<1> USE DEF tables
<1>0. /\ s \in Save
      /\ \A step \in Steps :
             At(s, step) \in Save /\ At(s, step).own = s.own /\ At(s, step).step = step
      /\ \A step \in Steps, r \in Id \cup {None} :
             LET t == [At(s, step) EXCEPT !.seen = r]
             IN  t \in Save /\ t.own = s.own /\ t.step = step
      /\ s.step = "delete" => s.del \in Deletion
      /\ results \in SUBSET Id /\ acqs \in SUBSET Acquisition /\ torn \in SUBSET Id
      /\ short \in BOOLEAN
  <2>1. s \in Save
    BY DEF SavesInv, TypeOK
  <2>2. \A step \in Steps :
            At(s, step) \in Save /\ At(s, step).own = s.own /\ At(s, step).step = step
    BY <2>1 DEF At, Save
  <2>3. \A step \in Steps, r \in Id \cup {None} :
            LET t == [At(s, step) EXCEPT !.seen = r]
            IN  t \in Save /\ t.own = s.own /\ t.step = step
    BY <2>1 DEF At, Save
  <2> QED
    BY <2>1, <2>2, <2>3 DEF SavesInv, TypeOK, SavesKnown
<1>1. CASE SaveCount(s)
  <2>1. PICK step \in {"first", "write"} : Goes(s, At(s, step))
    BY <1>1 DEF SaveCount
  <2> QED
    BY <1>0, <1>1, <2>1, GoesSaves DEF SaveCount, Steps
<1>2. CASE SaveFirst(s)
  <2>1. CASE SaveFails(s)
    BY <1>0, <1>2, <2>1, FailsSaves DEF SaveFirst
  <2>2. CASE \E step \in {"data", "write"} : Goes(s, At(s, step)) /\ UNCHANGED pc
    <3>1. PICK step \in {"data", "write"} : Goes(s, At(s, step)) /\ UNCHANGED pc
      BY <2>2
    <3> QED
      BY <1>0, <1>2, <3>1, GoesSaves DEF SaveFirst, Steps
  <2> QED
    BY <1>2, <2>1, <2>2 DEF SaveFirst
<1>3. CASE SaveData(s)
  <2>1. CASE SaveFails(s)
    BY <1>0, <1>3, <2>1, FailsSaves DEF SaveData
  <2>2. CASE \E r \in results : Goes(s, [At(s, "has") EXCEPT !.seen = r]) /\ UNCHANGED pc
    <3>1. PICK r \in results : Goes(s, [At(s, "has") EXCEPT !.seen = r]) /\ UNCHANGED pc
      BY <2>2
    <3>2. r \in Id \cup {None} /\ "has" \in Steps
      BY <1>0 DEF Steps
    <3> QED
      BY <1>0, <1>3, <3>1, <3>2, GoesSaves DEF SaveData
  <2> QED
    BY <1>3, <2>1, <2>2 DEF SaveData
<1>4. CASE SaveHas(s)
  <2>1. short' \in BOOLEAN
    BY <1>0, <1>4 DEF SaveHas
  <2>2. CASE Goes(s, [At(s, "write") EXCEPT !.seen = None])
    <3>1. "write" \in Steps /\ None \in Id \cup {None}
      BY DEF Steps
    <3> QED
      BY <1>0, <1>4, <2>1, <2>2, <3>1, GoesSaves DEF SaveHas
  <2>3. CASE Goes(s, At(s, "look"))
    <3>1. "look" \in Steps
      BY DEF Steps
    <3> QED
      BY <1>0, <1>4, <2>1, <2>3, <3>1, GoesSaves DEF SaveHas
  <2> QED
    BY <1>4, <2>2, <2>3 DEF SaveHas
<1>5. CASE SaveLook(s)
  <2>1. CASE SaveFails(s)
    BY <1>0, <1>5, <2>1, FailsSaves DEF SaveLook
  <2>2. CASE \E step \in {"clean", "write"} :
                 Goes(s, [At(s, step) EXCEPT !.seen = None]) /\ UNCHANGED pc
    <3>1. PICK step \in {"clean", "write"} :
              Goes(s, [At(s, step) EXCEPT !.seen = None]) /\ UNCHANGED pc
      BY <2>2
    <3>2. step \in Steps /\ None \in Id \cup {None} /\ step # "delete"
      BY DEF Steps
    <3> QED
      BY <1>0, <1>5, <3>1, <3>2, GoesSaves DEF SaveLook
  <2> QED
    BY <1>5, <2>1, <2>2 DEF SaveLook
<1>6. CASE SaveClean(s)
  <2>1. CASE SaveFails(s) /\ UNCHANGED short
    BY <1>0, <1>6, <2>1, FailsSaves DEF SaveClean
  <2>2. CASE /\ \E r \in results : Goes(s, [At(s, "delete") EXCEPT !.del = Collected(r)])
             /\ short' \in BOOLEAN /\ UNCHANGED pc
    <3>1. PICK r \in results : Goes(s, [At(s, "delete") EXCEPT !.del = Collected(r)])
      BY <2>2
    <3> DEFINE t == [At(s, "delete") EXCEPT !.del = Collected(r)]
    <3>2. t \in Save /\ t.own = s.own /\ t.del = Collected(r)
      <4>1. "delete" \in Steps
        BY DEF Steps
      <4>2. Collected(r) \in Deletion
        BY CollectedIsDeletion DEF SavesInv
      <4> QED
        BY <1>0, <4>1, <4>2 DEF Save
    <3> HIDE DEF t
    <3>3. Goes(s, t)
      BY <3>1 DEF t
    <3> QED
      BY <1>0, <1>6, <2>2, <3>2, <3>3, CollectedIsDeletion, GoesSaves DEF SaveClean, SavesInv
  <2> QED
    BY <1>0, <1>6, <2>1, <2>2, OldestIsResult DEF SaveClean
<1>7. CASE \E f \in files : SaveRemovesFile(s, f)
  BY <1>7 DEF SaveRemovesFile, SavesInv, TypeOK, SavesKnown, DeletionsKnown, Deletions,
     Acting
<1>8. CASE SaveDeletesRows(s)
  <2>1. /\ results' \in SUBSET Id /\ acqs' \in SUBSET Acquisition /\ torn' \in SUBSET Id
    BY <1>0, <1>8, DeleteRowsTypes DEF SaveDeletesRows, SavesInv
  <2>2. CASE SaveFails(s)
    BY <1>0, <1>8, <2>1, <2>2, FailsSaves DEF SaveDeletesRows
  <2>3. CASE Goes(s, [At(s, "write") EXCEPT !.del = NoDeletion]) /\ UNCHANGED pc
    <3> DEFINE t == [At(s, "write") EXCEPT !.del = NoDeletion]
    <3>1. t \in Save /\ t.own = s.own /\ t.step # "delete"
      <4>1. "write" \in Steps
        BY DEF Steps
      <4> QED
        BY <1>0, <4>1 DEF Save
    <3> HIDE DEF t
    <3>2. Goes(s, t)
      BY <2>3 DEF t
    <3> QED
      BY <1>0, <1>8, <2>1, <2>3, <3>1, <3>2, GoesSaves DEF SaveDeletesRows
  <2> QED
    BY <1>8, <2>2, <2>3 DEF SaveDeletesRows
<1>9. CASE SaveWrites(s)
  <2>1. CASE s.own = None
    <3>1. TypeOK'
      <4>1. /\ results' = results \cup {lastPk + 1} /\ lastPk' = lastPk + 1
            /\ saves' = saves \ {s} /\ pc' = "acting" /\ rec' = 1
            /\ UNCHANGED <<acqs, files, requests, deletes, crashes, torn, short>>
        BY <1>9, <2>1 DEF SaveWrites
      <4> QED
        BY <4>1 DEF SavesInv, TypeOK, Id
    <3>2. SavesKnown'
      <4>1. \A t \in saves' : t \in saves /\ t.own # None /\ t.own <= lastPk /\ t.own \in Nat
        BY <1>9, <2>1 DEF SaveWrites, SavesInv, TypeOK, SavesKnown, Save, Id
      <4>2. lastPk \in Nat /\ lastPk' = lastPk + 1 /\ rec' = 1
        BY <1>9, <2>1 DEF SaveWrites, SavesInv, TypeOK
      <4> QED
        BY <4>1, <4>2 DEF SavesInv, SavesKnown, Acting, Id
    <3>3. DeletionsKnown'
      BY <1>9, <2>1 DEF SaveWrites, SavesInv, DeletionsKnown, Deletions
    <3> QED
      BY <3>1, <3>2, <3>3 DEF SavesInv
  <2>2. CASE s.own # None
    <3>1. results' \in SUBSET Id /\ s.own \in Id
      BY <1>0, <1>9, <2>2 DEF SaveWrites, Save
    <3>2. CASE saves' = saves \ {s}
      BY <1>0, <1>9, <2>2, <3>1, <3>2, LeavesSaves DEF SaveWrites
    <3>3. CASE \E phase \in Phases : Goes(s, NewSave(s.own, phase))
      <4>1. PICK phase \in Phases : Goes(s, NewSave(s.own, phase))
        BY <3>3
      <4> DEFINE t == NewSave(s.own, phase)
      <4>2. t \in Save /\ t.own = s.own /\ t.step # "delete"
        BY <3>1, NewSaveIsSave
      <4> HIDE DEF t
      <4>3. Goes(s, t)
        BY <4>1 DEF t
      <4> QED
        BY <1>0, <1>9, <2>2, <3>1, <4>2, <4>3, GoesSaves DEF SaveWrites
    <3> QED
      BY <1>9, <2>2, <3>2, <3>3 DEF SaveWrites, Phases
  <2> QED
    BY <2>1, <2>2
<1> QED
  BY <1>1, <1>2, <1>3, <1>4, <1>5, <1>6, <1>7, <1>8, <1>9

LEMMA TaskSaves == ASSUME SavesInv, Task PROVE SavesInv'
<1> USE DEF tables
<1>0. /\ results \in SUBSET Id /\ acqs \in SUBSET Acquisition /\ torn \in SUBSET Id
      /\ Acting => lastPk \in Id /\ rec \in Id /\ Recording \in File
      /\ rec \in Nat
  BY DEF SavesInv, SavesKnown, TypeOK, Recording, File
<1>1. CASE StartTask
  <2> DEFINE new == NewSave(None, "save")
  <2>1. new \in Save /\ new.own = None /\ new.step # "delete"
    <3>1. None \in Id \cup {None} /\ "save" \in Phases
      BY DEF Phases
    <3> QED
      BY <3>1, NewSaveIsSave
  <2>2. saves' = saves \cup {new} /\ pc = "idle" /\ pc' = "creating"
    BY <1>1 DEF StartTask
  <2> HIDE DEF new
  <2>3. TypeOK'
    BY <1>1, <2>1, <2>2 DEF StartTask, SavesInv, TypeOK
  <2>4. SavesKnown'
    BY <1>1, <2>1, <2>2 DEF StartTask, SavesInv, SavesKnown, Acting
  <2>5. DeletionsKnown'
    BY <1>1, <2>1, <2>2 DEF StartTask, SavesInv, DeletionsKnown, Deletions
  <2> QED
    BY <2>3, <2>4, <2>5 DEF SavesInv
<1>2. CASE Return
  BY <1>0, <1>2, EndTaskSaves DEF Return, Acting
<1>3. CASE StoreFile
  <2>1. CASE lastPk \in results
    <3>1. TypeOK'
      BY <1>0, <1>3, <2>1 DEF StoreFile, Acting, SavesInv, TypeOK
    <3> QED
      BY <1>0, <1>3, <2>1, <3>1, ThreadSaves DEF StoreFile, Acting
  <2>2. CASE lastPk \notin results
    BY <1>0, <1>3, <2>2, EndTaskSaves DEF StoreFile, Acting
  <2> QED
    BY <2>1, <2>2
<1>4. CASE InsertRow
  <2>1. CASE lastPk \in results
    <3>1. TypeOK'
      <4>1. [of |-> Recording, encrypted |-> FALSE] \in Acquisition
        BY <1>0, <1>4 DEF InsertRow, Acting, Acquisition
      <4>2. acqs' \in SUBSET Acquisition /\ rec' \in Nat
        BY <1>0, <1>4, <2>1, <4>1 DEF InsertRow
      <4> QED
        BY <1>4, <2>1, <4>2 DEF InsertRow, SavesInv, TypeOK
    <3>2. rec' \in Id
      BY <1>0, <1>4, <2>1 DEF InsertRow, Acting, Id
    <3> QED
      BY <1>4, <2>1, <3>1, <3>2, ThreadSaves DEF InsertRow, Acting
  <2>2. CASE lastPk \notin results
    BY <1>0, <1>4, <2>2, EndTaskSaves DEF InsertRow, Acting
  <2> QED
    BY <2>1, <2>2
<1>5. CASE SetFlag
  <2>1. CASE lastPk \in results
    <3>1. TypeOK'
      <4>1. [of |-> Recording, encrypted |-> TRUE] \in Acquisition
        BY <1>0, <1>5 DEF SetFlag, Acting, Acquisition
      <4>2. acqs' \in SUBSET Acquisition /\ rec' \in Nat
        <5> DEFINE new == [of |-> Recording, encrypted |-> TRUE]
        <5>1. acqs' = {a \in acqs : a.of # Recording} \cup {new} /\ rec' = rec + 1
          BY <1>5, <2>1 DEF SetFlag
        <5>2. new \in Acquisition
          BY <4>1
        <5> HIDE DEF new
        <5> QED
          BY <1>0, <5>1, <5>2
      <4> QED
        BY <1>5, <2>1, <4>2 DEF SetFlag, SavesInv, TypeOK
    <3>2. rec' \in Id
      BY <1>0, <1>5, <2>1 DEF SetFlag, Acting, Id
    <3> QED
      BY <1>5, <2>1, <3>1, <3>2, ThreadSaves DEF SetFlag, Acting
  <2>2. CASE lastPk \notin results
    BY <1>0, <1>5, <2>2, EndTaskSaves DEF SetFlag, Acting
  <2> QED
    BY <2>1, <2>2
<1> QED
  BY <1>1, <1>2, <1>3, <1>4, <1>5 DEF Task

LEMMA UserSaves == ASSUME SavesInv, User PROVE SavesInv'
<1> USE DEF tables
<1>1. ASSUME NEW r \in results, Request(r) PROVE SavesInv'
  <2>1. TypeOK'
    BY <1>1, CollectedIsDeletion, StoreAssumption DEF Request, SavesInv, TypeOK
  <2>2. SavesKnown'
    BY <1>1 DEF Request, SavesInv, SavesKnown, Acting
  <2>3. DeletionsKnown'
    BY <1>1, CollectedIsDeletion DEF Request, SavesInv, DeletionsKnown, Deletions
  <2> QED
    BY <2>1, <2>2, <2>3 DEF SavesInv
<1>2. ASSUME NEW d \in requests, RequestDeletesRows(d) PROVE SavesInv'
  <2>1. d \in Deletion
    BY DEF SavesInv, TypeOK
  <2>2. TypeOK'
    BY <1>2, <2>1, DeleteRowsTypes DEF RequestDeletesRows, SavesInv, TypeOK
  <2> QED
    BY <1>2, <2>2 DEF RequestDeletesRows, SavesInv, SavesKnown, DeletionsKnown, Deletions, Acting
<1>3. ASSUME NEW d \in requests, NEW f, RequestRemovesFile(d, f) PROVE SavesInv'
  BY <1>3 DEF RequestRemovesFile, SavesInv, TypeOK, SavesKnown, DeletionsKnown, Deletions,
     Acting
<1> QED
  BY <1>1, <1>2, <1>3 DEF User

LEMMA RebootSaves ==
    ASSUME SavesInv, Reboot, crashes' \in 0 .. MaxCrashes
    PROVE  SavesInv'
<1>1. torn' \in SUBSET Id
  BY DEF Reboot, SavesInv, TypeOK, SavesKnown, Deletions, Deletion, Acting
<1>2. TypeOK'
  BY <1>1 DEF Reboot, SavesInv, TypeOK, tables
<1> QED
  BY <1>2 DEF Reboot, SavesInv, SavesKnown, DeletionsKnown, Deletions, Acting

LEMMA NextSaves == ASSUME SavesInv, [Next]_vars PROVE SavesInv'
<1>1. CASE UNCHANGED vars
  BY <1>1 DEF vars, tables, SavesInv, TypeOK, SavesKnown, DeletionsKnown, Deletions, Acting
<1>2. CASE Restart
  BY <1>2, RebootSaves DEF Restart, SavesInv, TypeOK
<1>3. CASE Crash
  <2>1. crashes' \in 0 .. MaxCrashes
    BY <1>3, StoreAssumption DEF Crash, SavesInv, TypeOK
  <2> QED
    BY <1>3, <2>1, RebootSaves DEF Crash
<1> QED
  BY <1>1, <1>2, <1>3, SaverSaves, TaskSaves, UserSaves DEF Next
------------------------------------------------------------------------------
(* Rows, files and flags. *)

(* Steps that leave acquisitions and files alone.  A save writes a result  *)
(* again, but never that of the recording under way.                       *)
LEMMA QuietRows ==
    ASSUME SavesInv, RowsInv, results \subseteq results', UNCHANGED <<acqs, files, torn>>,
           Deletions \subseteq Deletions',
           \/ UNCHANGED <<pc, rec, lastPk>> /\ (Acting /\ lastPk \in results' => lastPk \in results)
           \/ pc \notin {"insert", "flag"} /\ pc' \notin {"insert", "flag"}
    PROVE  RowsInv'
<1>1. Excused \subseteq Excused'
  BY DEF Excused
<1>2. \A f : HasRow(f)' = HasRow(f)
  BY DEF HasRow
<1>3. ForeignKey'
  BY DEF RowsInv, ForeignKey
<1>4. FlagsTrue' /\ FilesHaveRows'
  BY <1>2 DEF RowsInv, FlagsTrue, FilesHaveRows, Recording
<1>5. RowsHaveFiles'
  BY <1>1 DEF RowsInv, RowsHaveFiles, Excused
<1>6. RecordingUnderWay'
  BY <1>1, <1>2 DEF RowsInv, RecordingUnderWay, Recording, Acting
<1> QED
  BY <1>3, <1>4, <1>5, <1>6 DEF RowsInv

(* A deletion removes files of its own result only. *)
LEMMA RemovesFileRows ==
    ASSUME SavesInv, RowsInv, NEW d \in Deletions, NEW f \in FilesOf(d), files' = files \ {f},
           UNCHANGED <<tables, pc, rec, saves, requests, torn>>
    PROVE  RowsInv'
<1> USE DEF tables
<1>1. f.result \in Excused
  BY DEF SavesInv, DeletionsKnown, FilesOf, Excused
<1>2. Excused' = Excused
  BY DEF Excused, Deletions
<1>3. \A g : HasRow(g)' = HasRow(g)
  BY DEF HasRow
<1>4. ForeignKey' /\ FlagsTrue' /\ FilesHaveRows'
  BY <1>3 DEF RowsInv, ForeignKey, FlagsTrue, FilesHaveRows, Recording
<1>5. RowsHaveFiles'
  BY <1>1, <1>2 DEF RowsInv, RowsHaveFiles, Excused
<1>6. RecordingUnderWay'
  BY <1>1, <1>2, <1>3 DEF RowsInv, RecordingUnderWay, Recording
<1> QED
  BY <1>4, <1>5, <1>6 DEF RowsInv

(* The rows go when no file is left; or the transaction is rolled back.    *)
LEMMA DeleteRowsRows ==
    ASSUME SavesInv, RowsInv, NEW d \in Deletions, ~FilesLeft(d), DeleteRows(d),
           \A e \in Deletions : e = d \/ e \in Deletions',
           UNCHANGED <<files, lastPk, rec>>,
           UNCHANGED pc \/ (pc \notin {"insert", "flag"} /\ pc' \notin {"insert", "flag"})
    PROVE  RowsInv'
<1>1. Excused \subseteq Excused' \cup {d.result}
  BY DEF Excused, DeleteRows
<1>2. CASE Commits(d)
  <2>1. /\ results' = results \ {d.result} /\ torn' = torn
        /\ acqs' = {a \in acqs : a.of.result # d.result}
    BY <1>2 DEF DeleteRows, AcqsOf
  <2>2. \A f \in files, a \in acqs : a.of = f => a.of.result # d.result
    BY <1>2 DEF Commits, AcqsOf, FilesLeft, FilesOf
  <2>3. ForeignKey' /\ FlagsTrue'
    BY <2>1 DEF RowsInv, ForeignKey, FlagsTrue, Recording
  <2>4. FilesHaveRows'
    BY <2>1, <2>2 DEF RowsInv, FilesHaveRows, HasRow, Recording
  <2>5. RowsHaveFiles'
    BY <1>1, <2>1 DEF RowsInv, RowsHaveFiles, Excused
  <2>6. RecordingUnderWay'
    BY <1>1, <2>1 DEF RowsInv, RecordingUnderWay, Recording, HasRow
  <2> QED
    BY <2>3, <2>4, <2>5, <2>6 DEF RowsInv
<1>3. CASE ~Commits(d)
  <2>1. torn' = torn \cup {d.result} /\ UNCHANGED <<results, acqs>>
    BY <1>3 DEF DeleteRows
  <2>2. Excused \subseteq Excused'
    BY <1>1, <2>1 DEF Excused
  <2>3. \A f : HasRow(f)' = HasRow(f)
    BY <2>1 DEF HasRow
  <2>4. ForeignKey' /\ FlagsTrue' /\ FilesHaveRows'
    BY <2>1, <2>3 DEF RowsInv, ForeignKey, FlagsTrue, FilesHaveRows, Recording
  <2>5. RowsHaveFiles'
    BY <2>1, <2>2 DEF RowsInv, RowsHaveFiles, Excused
  <2>6. RecordingUnderWay'
    BY <2>1, <2>2, <2>3 DEF RowsInv, RecordingUnderWay, Recording
  <2> QED
    BY <2>4, <2>5, <2>6 DEF RowsInv
<1> QED
  BY <1>2, <1>3

LEMMA SaverRows == ASSUME SavesInv, RowsInv, Saver PROVE RowsInv'
<1> PICK s \in saves :
        \/ SaveCount(s) \/ SaveFirst(s) \/ SaveData(s) \/ SaveHas(s) \/ SaveLook(s)
        \/ SaveClean(s)
        \/ \E f \in files : SaveRemovesFile(s, f)
        \/ SaveDeletesRows(s) \/ SaveWrites(s)
  BY DEF Saver
<1> USE DEF tables
<1>0. /\ s.own = None => pc = "creating"
      /\ s.own # None => (Acting => s.own # lastPk)
      /\ s.step = "delete" => s.del \in Deletions
      /\ pc \in {"insert", "flag"} => Acting
  <2>1. s.own # None => s.own \in Nat
    BY DEF SavesInv, TypeOK, Save, Id
  <2>2. lastPk \in Nat
    BY DEF SavesInv, TypeOK
  <2> QED
    BY <2>1, <2>2 DEF SavesInv, SavesKnown, Deletions, Acting
<1>1. ASSUME s.step # "delete",
             saves' = saves \ {s} \/ \E t : Goes(s, t),
             UNCHANGED <<results, acqs, files, lastPk, rec, requests, torn>>,
             UNCHANGED pc \/ SaveFails(s)
      PROVE  RowsInv'
  <2>1. Deletions \subseteq Deletions'
    BY <1>1 DEF Goes, Deletions
  <2> QED
    BY <1>0, <1>1, <2>1, QuietRows DEF SaveFails
<1>2. CASE SaveCount(s)
  BY <1>1, <1>2 DEF SaveCount
<1>3. CASE SaveFirst(s) \/ SaveData(s) \/ SaveLook(s) \/ SaveClean(s)
  <2>1. SaveFails(s) => saves' = saves \ {s} \/ \E t : Goes(s, t)
    BY DEF SaveFails
  <2>2. CASE SaveFirst(s)
    BY <1>1, <2>1, <2>2 DEF SaveFirst
  <2>3. CASE SaveData(s)
    BY <1>1, <2>1, <2>3 DEF SaveData
  <2>4. CASE SaveLook(s)
    BY <1>1, <2>1, <2>4 DEF SaveLook
  <2>5. CASE SaveClean(s)
    BY <1>1, <2>1, <2>5 DEF SaveClean
  <2> QED
    BY <1>3, <2>2, <2>3, <2>4, <2>5
<1>4. CASE SaveHas(s)
  BY <1>1, <1>4 DEF SaveHas
<1>5. CASE \E f \in files : SaveRemovesFile(s, f)
  BY <1>0, <1>5, RemovesFileRows DEF SaveRemovesFile
<1>6. CASE SaveDeletesRows(s)
  <2>1. /\ s.step = "delete" /\ ~FilesLeft(s.del) /\ DeleteRows(s.del)
        /\ UNCHANGED <<files, lastPk, rec, requests>>
        /\ UNCHANGED pc \/ (pc = "creating" /\ pc' = "dead")
        /\ \A t \in saves : t = s \/ t \in saves'
    BY <1>0, <1>6 DEF SaveDeletesRows, SaveFails, Goes
  <2>2. \A e \in Deletions : e = s.del \/ e \in Deletions'
    BY <2>1 DEF Deletions
  <2> QED
    BY <1>0, <2>1, <2>2, DeleteRowsRows
<1>7. CASE SaveWrites(s)
  <2>1. Deletions \subseteq Deletions'
    BY <1>7 DEF SaveWrites, Goes, Deletions
  <2>2. UNCHANGED <<acqs, files, torn>>
    BY <1>7 DEF SaveWrites
  <2>3. CASE s.own = None
    BY <1>0, <1>7, <2>1, <2>2, <2>3, QuietRows DEF SaveWrites
  <2>4. CASE s.own # None
    BY <1>0, <1>7, <2>1, <2>2, <2>4, QuietRows DEF SaveWrites
  <2> QED
    BY <2>3, <2>4
<1> QED
  BY <1>2, <1>3, <1>4, <1>5, <1>6, <1>7

(* The task ends, by itself or at a step that finds its result gone.       *)
LEMMA EndTaskRows ==
    ASSUME SavesInv, RowsInv, EndTask, UNCHANGED <<tables, files, requests>>,
           \/ UNCHANGED torn /\ (pc = "acting" \/ (pc = "flag" /\ lastPk \notin results))
           \/ torn' = torn \cup {lastPk} /\ pc = "insert"
    PROVE  RowsInv'
<1> USE DEF tables
<1>1. Deletions \subseteq Deletions'
  BY DEF EndTask, Deletions
<1>2. Excused \subseteq Excused'
  BY <1>1 DEF Excused
<1>3. \A f : HasRow(f)' = HasRow(f)
  BY DEF HasRow
<1>4. ForeignKey' /\ RecordingUnderWay' /\ RowsHaveFiles'
  BY <1>2 DEF EndTask, RowsInv, ForeignKey, RecordingUnderWay, RowsHaveFiles, Excused
<1>5. FlagsTrue'
  BY DEF RowsInv, FlagsTrue, ForeignKey, Recording
<1>6. FilesHaveRows'
  BY <1>3 DEF RowsInv, FilesHaveRows, Recording
<1> QED
  BY <1>4, <1>5, <1>6 DEF RowsInv

LEMMA StoreFileRows ==
    ASSUME SavesInv, RowsInv, StoreFile, lastPk \in results
    PROVE  RowsInv'
<1>1. /\ pc = "acting" /\ pc' = "insert" /\ files' = files \cup {Recording}
      /\ UNCHANGED <<results, acqs, lastPk, rec, torn, saves, requests>>
  BY DEF StoreFile, tables
<1>2. Recording' = Recording /\ Excused' = Excused /\ \A f : HasRow(f)' = HasRow(f)
  BY <1>1 DEF Recording, Excused, Deletions, HasRow
<1> HIDE DEF Recording
<1>3. ForeignKey' /\ FlagsTrue'
  BY <1>1 DEF RowsInv, ForeignKey, FlagsTrue
<1>4. RecordingUnderWay'
  BY <1>1, <1>2 DEF RecordingUnderWay
<1>5. RowsHaveFiles'
  BY <1>1, <1>2 DEF RowsInv, RowsHaveFiles, Excused
<1>6. FilesHaveRows'
  BY <1>1, <1>2 DEF RowsInv, FilesHaveRows
<1> QED
  BY <1>3, <1>4, <1>5, <1>6 DEF RowsInv

LEMMA InsertRowRows ==
    ASSUME SavesInv, RowsInv, InsertRow, lastPk \in results
    PROVE  RowsInv'
<1> DEFINE new == [of |-> Recording, encrypted |-> FALSE]
<1>1. /\ pc = "insert" /\ pc' = "flag" /\ acqs' = acqs \cup {new}
      /\ UNCHANGED <<results, files, lastPk, rec, torn, saves, requests>>
  BY DEF InsertRow, tables
<1>2. new.of = Recording /\ Recording.result = lastPk
  BY DEF Recording
<1>3. Recording' = Recording /\ Excused' = Excused
  BY <1>1 DEF Recording, Excused, Deletions
<1> HIDE DEF new, Recording
<1>4. \A f : HasRow(f)' <=> HasRow(f) \/ f = Recording
  BY <1>1, <1>2 DEF HasRow
<1>5. ForeignKey'
  BY <1>1, <1>2 DEF RowsInv, ForeignKey
<1>6. FlagsTrue'
  BY <1>1, <1>2, <1>3 DEF RowsInv, FlagsTrue
<1>7. RecordingUnderWay'
  BY <1>1, <1>3, <1>4 DEF RecordingUnderWay
<1>8. RowsHaveFiles'
  BY <1>1, <1>2, <1>3 DEF RowsInv, RecordingUnderWay, RowsHaveFiles, Excused
<1>9. FilesHaveRows'
  BY <1>1, <1>3, <1>4 DEF RowsInv, FilesHaveRows
<1> QED
  BY <1>5, <1>6, <1>7, <1>8, <1>9 DEF RowsInv

LEMMA SetFlagRows ==
    ASSUME SavesInv, RowsInv, SetFlag, lastPk \in results
    PROVE  RowsInv'
<1> DEFINE new == [of |-> Recording, encrypted |-> TRUE]
<1>1. /\ pc = "flag" /\ pc' = "acting"
      /\ acqs' = {a \in acqs : a.of # Recording} \cup {new}
      /\ UNCHANGED <<results, files, lastPk, torn, saves, requests>>
  BY DEF SetFlag, tables
<1>2. /\ new.of = Recording /\ new.encrypted /\ Recording.result = lastPk
      /\ HasRow(Recording)
  BY <1>1 DEF Recording, RowsInv, RecordingUnderWay
<1>3. Excused' = Excused
  BY <1>1 DEF Excused, Deletions
<1> HIDE DEF new, Recording
<1>4. \A f : HasRow(f)' <=> HasRow(f)
  BY <1>1, <1>2 DEF HasRow
<1>5. ForeignKey'
  BY <1>1, <1>2 DEF RowsInv, ForeignKey
<1>6. FlagsTrue'
  BY <1>1, <1>2 DEF RowsInv, FlagsTrue
<1>7. RecordingUnderWay'
  BY <1>1 DEF RecordingUnderWay
<1>8. RowsHaveFiles'
  BY <1>1, <1>2, <1>3 DEF RowsInv, RowsHaveFiles, Excused, HasRow
<1>9. FilesHaveRows'
  BY <1>1, <1>4 DEF RowsInv, FilesHaveRows
<1> QED
  BY <1>5, <1>6, <1>7, <1>8, <1>9 DEF RowsInv

LEMMA TaskRows == ASSUME SavesInv, RowsInv, Task PROVE RowsInv'
<1>1. CASE StartTask
  <2>1. Deletions \subseteq Deletions'
    BY <1>1 DEF StartTask, Deletions
  <2> QED
    BY <1>1, <2>1, QuietRows DEF StartTask, tables
<1>2. CASE Return
  BY <1>2, EndTaskRows DEF Return
<1>3. CASE StoreFile
  BY <1>3, StoreFileRows, EndTaskRows DEF StoreFile
<1>4. CASE InsertRow
  BY <1>4, InsertRowRows, EndTaskRows DEF InsertRow, tables
<1>5. CASE SetFlag
  BY <1>5, SetFlagRows, EndTaskRows DEF SetFlag, tables
<1> QED
  BY <1>1, <1>2, <1>3, <1>4, <1>5 DEF Task

LEMMA UserRows == ASSUME SavesInv, RowsInv, User PROVE RowsInv'
<1>1. ASSUME NEW r \in results, Request(r) PROVE RowsInv'
  <2>1. Deletions \subseteq Deletions'
    BY <1>1 DEF Request, Deletions
  <2> QED
    BY <1>1, <2>1, QuietRows DEF Request, tables
<1>2. ASSUME NEW d \in requests, RequestDeletesRows(d) PROVE RowsInv'
  <2>1. d \in Deletions /\ \A e \in Deletions : e = d \/ e \in Deletions'
    BY <1>2 DEF RequestDeletesRows, Deletions
  <2> QED
    BY <1>2, <2>1, DeleteRowsRows DEF RequestDeletesRows
<1>3. ASSUME NEW d \in requests, NEW f, RequestRemovesFile(d, f) PROVE RowsInv'
  <2>1. d \in Deletions
    BY DEF Deletions
  <2> QED
    BY <1>3, <2>1, RemovesFileRows DEF RequestRemovesFile
<1> QED
  BY <1>1, <1>2, <1>3 DEF User

(* What is cut off at a reboot is remembered as torn. *)
LEMMA RebootRows == ASSUME SavesInv, RowsInv, Reboot PROVE RowsInv'
<1>1. /\ Excused \subseteq torn' /\ torn \subseteq torn'
      /\ pc \in {"insert", "flag"} => lastPk \in torn'
      /\ pc' = "idle" /\ UNCHANGED <<results, acqs, files>>
  BY DEF Reboot, Excused, tables
<1>2. \A f : HasRow(f)' = HasRow(f)
  BY <1>1 DEF HasRow
<1>3. ForeignKey' /\ RecordingUnderWay' /\ RowsHaveFiles'
  BY <1>1 DEF RowsInv, ForeignKey, RecordingUnderWay, RowsHaveFiles, Excused
<1>4. FlagsTrue' /\ FilesHaveRows'
  BY <1>1, <1>2 DEF RowsInv, FlagsTrue, FilesHaveRows, Recording
<1> QED
  BY <1>3, <1>4 DEF RowsInv

LEMMA NextRows == ASSUME SavesInv, RowsInv, [Next]_vars PROVE RowsInv'
<1>1. CASE UNCHANGED vars
  BY <1>1, QuietRows DEF vars, tables, Deletions
<1>2. CASE Restart \/ Crash
  BY <1>2, RebootRows DEF Restart, Crash
<1> QED
  BY <1>1, <1>2, SaverRows, TaskRows, UserRows DEF Next

------------------------------------------------------------------------------
(* The disk limit. *)

LEMMA FilesStayFinite == ASSUME IsFiniteSet(files), [Next]_vars PROVE IsFiniteSet(files')
<1>1. \/ files' = files
      \/ \E f : files' = files \ {f} \/ files' = files \cup {f}
  <2>1. CASE Saver
    BY <2>1 DEF Saver, SaveCount, SaveFirst, SaveData, SaveHas, SaveLook, SaveClean,
       SaveRemovesFile, SaveDeletesRows, SaveWrites
  <2>2. CASE Task
    BY <2>2 DEF Task, StartTask, Return, StoreFile, InsertRow, SetFlag
  <2>3. CASE User
    BY <2>3 DEF User, Request, RequestRemovesFile, RequestDeletesRows
  <2>4. CASE Restart \/ Crash \/ UNCHANGED vars
    BY <2>4 DEF Restart, Crash, Reboot, vars
  <2> QED
    BY <2>1, <2>2, <2>3, <2>4 DEF Next
<1> QED
  BY <1>1, FS_AddElement, FS_RemoveElement

(* What once fell short or was torn stays so. *)
LEMMA HistoryStays ==
    ASSUME [Next]_vars
    PROVE  (short => short') /\ torn \subseteq torn'
<1>1. CASE Saver
  <2>1. PICK s \in saves :
            \/ SaveCount(s) \/ SaveFirst(s) \/ SaveData(s) \/ SaveHas(s) \/ SaveLook(s)
            \/ SaveClean(s)
            \/ \E f \in files : SaveRemovesFile(s, f)
            \/ SaveDeletesRows(s) \/ SaveWrites(s)
    BY <1>1 DEF Saver
  <2>2. CASE SaveHas(s)
    BY <2>2 DEF SaveHas
  <2>3. CASE SaveClean(s)
    BY <2>3 DEF SaveClean
  <2>4. CASE SaveDeletesRows(s)
    BY <2>4 DEF SaveDeletesRows, DeleteRows
  <2>5. CASE SaveCount(s) \/ SaveFirst(s) \/ SaveData(s) \/ SaveLook(s)
    BY <2>5 DEF SaveCount, SaveFirst, SaveData, SaveLook
  <2>6. CASE SaveWrites(s) \/ \E f \in files : SaveRemovesFile(s, f)
    BY <2>6 DEF SaveWrites, SaveRemovesFile
  <2> QED
    BY <2>1, <2>2, <2>3, <2>4, <2>5, <2>6
<1>2. CASE Task
  BY <1>2 DEF Task, StartTask, Return, StoreFile, InsertRow, SetFlag, EndTask
<1>3. CASE User
  BY <1>3 DEF User, Request, RequestRemovesFile, RequestDeletesRows, DeleteRows
<1>4. CASE Reboot
  BY <1>4 DEF Reboot
<1>5. CASE UNCHANGED vars
  BY <1>5 DEF vars
<1> QED
  BY <1>1, <1>2, <1>3, <1>4, <1>5 DEF Next, Restart, Crash

(* Files only go, and every save of a new result that has passed the check *)
(* had room.                                                               *)
LEMMA RoomStays ==
    ASSUME SavesInv, IsFiniteSet(files), Room, files' \subseteq files,
           UNCHANGED <<pc, rec>> \/ ~Acting',
           \A t \in saves' : t.own = None =>
               \/ t \in saves
               \/ t.step \in {"count", "first", "data", "has", "look", "clean"}
               \/ t.step = "delete" /\ Cardinality(files' \ FilesOf(t.del)') <= Limit
               \/ t.step = "write" /\ Cardinality(files') <= Limit
    PROVE  Room'
<1>1. /\ IsFiniteSet(files') /\ Used \in Nat /\ Used' \in Nat /\ Used' <= Used
  BY FS_Subset, FS_CardinalityType DEF Used
<1>2. ASSUME NEW t \in saves, t.own = None, t.step = "delete"
      PROVE  Cardinality(files' \ FilesOf(t.del)') <= Limit
  <2>1. files' \ FilesOf(t.del)' \subseteq files \ FilesOf(t.del)
    BY DEF FilesOf
  <2>2. IsFiniteSet(files \ FilesOf(t.del)) /\ IsFiniteSet(files' \ FilesOf(t.del)')
    BY <1>1, FS_Difference
  <2>3. Cardinality(files \ FilesOf(t.del)) <= Limit
    BY <1>2 DEF Room
  <2>4. Cardinality(files' \ FilesOf(t.del)') <= Cardinality(files \ FilesOf(t.del))
    BY <2>1, <2>2, FS_Subset
  <2> QED
    BY <2>2, <2>3, <2>4, FS_CardinalityType, StoreAssumption
<1>3. Used' <= Limit + Recordings
  BY <1>1, StoreAssumption DEF Room
<1>4. ASSUME NEW t \in saves', t.own = None
      PROVE  /\ t.step = "delete" => Cardinality(files' \ FilesOf(t.del)') <= Limit
             /\ t.step = "write" => Used' <= Limit
  <2>1. CASE t \in saves
    <3>1. t.step = "write" => Used <= Limit
      BY <1>4, <2>1 DEF Room
    <3>2. Limit \in Nat
      BY StoreAssumption
    <3>3. t.step = "write" => Used' <= Limit
      BY <1>1, <3>1, <3>2
    <3> QED
      BY <1>2, <1>4, <2>1, <3>3
  <2>2. CASE t \notin saves
    BY <1>4, <2>2 DEF Used
  <2> QED
    BY <2>1, <2>2
<1>5. ASSUME UNCHANGED <<pc, rec>>
      PROVE  /\ pc' = "acting" => rec' <= Recordings + 1 /\ Used' <= Limit + rec' - 1
             /\ pc' \in {"insert", "flag"} => rec' <= Recordings /\ Used' <= Limit + rec'
  <2>1. rec \in Nat
    BY DEF SavesInv, TypeOK
  <2> QED
    BY <1>1, <1>5, <2>1, StoreAssumption DEF Room
<1> QED
  BY <1>3, <1>4, <1>5 DEF Room, Acting

(* Nothing is on disk when there is no result, unless something was torn.  *)
LEMMA NoResultNoFile ==
    ASSUME RowsInv, results = {}, torn = {}, pc = "creating"
    PROVE  files = {}
  BY DEF RowsInv, ForeignKey, FilesHaveRows, HasRow

LEMMA SaverLimit ==
    ASSUME StoreInv, IsFiniteSet(files), Room, Saver, ~short', torn = {}
    PROVE  Room'
<1> PICK s \in saves :
        \/ SaveCount(s) \/ SaveFirst(s) \/ SaveData(s) \/ SaveHas(s) \/ SaveLook(s)
        \/ SaveClean(s)
        \/ \E f \in files : SaveRemovesFile(s, f)
        \/ SaveDeletesRows(s) \/ SaveWrites(s)
  BY DEF Saver
<1> USE DEF tables
<1>0. /\ SavesInv /\ RowsInv /\ s \in Save
      /\ s.own = None => pc = "creating"
      /\ \A step : At(s, step) = [s EXCEPT !.step = step]
      /\ Used \in Nat /\ Limit \in Nat /\ Recordings \in Nat
  BY FS_CardinalityType, StoreAssumption
  DEF StoreInv, SavesInv, TypeOK, SavesKnown, At, Used
<1>1. ASSUME NEW t, saves' = saves \ {s} \/ Goes(s, t), t.own = s.own,
             \/ t.step \in {"count", "first", "data", "has", "look", "clean"}
             \/ t.step = "delete" /\ (s.own = None => Cardinality(files \ FilesOf(t.del)) <= Limit)
             \/ t.step = "write" /\ (s.own = None => Used <= Limit),
             UNCHANGED <<files, rec>>,
             UNCHANGED pc \/ pc' = "dead"
      PROVE  Room'
  <2>1. \A x \in saves' : x \in saves \/ x = t
    BY <1>1 DEF Goes
  <2>2. FilesOf(t.del)' = FilesOf(t.del) /\ Used' = Used
    BY <1>1 DEF FilesOf, Used
  <2> QED
    BY <1>0, <1>1, <2>1, <2>2, RoomStays DEF Acting, Used
<1>2. ASSUME SaveFails(s), UNCHANGED <<files, rec>> PROVE Room'
  <2>1. NewSave(s.own, "except").own = s.own /\ NewSave(s.own, "except").step = "count"
    BY DEF NewSave
  <2> QED
    BY <1>1, <1>2, <2>1 DEF SaveFails
<1>3. CASE SaveCount(s)
  <2>1. results = {} /\ s.own = None => Used <= Limit
    BY <1>0, NoResultNoFile, FS_EmptySet DEF Used
  <2>2. PICK step \in {"first", "write"} :
            Goes(s, At(s, step)) /\ (step = "write" => results = {})
    BY <1>3 DEF SaveCount
  <2>3. At(s, step).own = s.own /\ At(s, step).step = step
    BY <1>0 DEF Save
  <2> QED
    BY <1>1, <1>3, <2>1, <2>2, <2>3 DEF SaveCount
<1>4. CASE SaveFirst(s)
  <2>1. CASE results = {}
    BY <1>2, <1>4, <2>1 DEF SaveFirst
  <2>2. CASE results # {}
    <3>1. PICK step \in {"data", "write"} :
              Goes(s, At(s, step)) /\ (step = "write" => IsOldest(s.own))
      BY <1>4, <2>2 DEF SaveFirst
    <3>2. At(s, step).own = s.own /\ At(s, step).step = step
      BY <1>0 DEF Save
    <3>3. IsOldest(s.own) => s.own # None
      BY <1>0, StoreAssumption DEF IsOldest, SavesInv, TypeOK, Id
    <3> QED
      BY <1>1, <1>4, <2>2, <3>1, <3>2, <3>3 DEF SaveFirst
  <2> QED
    BY <2>1, <2>2
<1>5. CASE SaveData(s)
  <2>1. CASE results = {}
    BY <1>2, <1>5, <2>1 DEF SaveData
  <2>2. CASE results # {}
    <3>1. PICK r : Goes(s, [At(s, "has") EXCEPT !.seen = r])
      BY <1>5, <2>2 DEF SaveData
    <3>2. PICK t : t = [At(s, "has") EXCEPT !.seen = r]
      OBVIOUS
    <3>3. t.own = s.own /\ t.step = "has" /\ Goes(s, t)
      BY <1>0, <3>1, <3>2 DEF Save
    <3> QED
      BY <1>1, <1>5, <2>2, <3>3 DEF SaveData
  <2> QED
    BY <2>1, <2>2
<1>6. CASE SaveHas(s)
  <2>1. CASE AcqsOf(s.seen) = {}
    <3>1. PICK t : t = [At(s, "write") EXCEPT !.seen = None]
      OBVIOUS
    <3>2. t.own = s.own /\ t.step = "write" /\ Goes(s, t)
      BY <1>0, <1>6, <2>1, <3>1 DEF SaveHas, Save
    <3>3. s.own = None => Used <= Limit
      <4>1. short' = (short \/ (s.own = None /\ DiskFull))
        BY <1>6, <2>1 DEF SaveHas
      <4>2. s.own = None => ~DiskFull
        BY <4>1
      <4> QED
        BY <1>0, <4>2 DEF DiskFull, Used
    <3> QED
      BY <1>1, <1>6, <3>2, <3>3 DEF SaveHas
  <2>2. CASE AcqsOf(s.seen) # {}
    <3>1. At(s, "look").own = s.own /\ At(s, "look").step = "look"
      BY <1>0 DEF Save
    <3> QED
      BY <1>1, <1>6, <2>2, <3>1 DEF SaveHas
  <2> QED
    BY <2>1, <2>2
<1>7. CASE SaveLook(s)
  <2>1. CASE AcqsOf(s.seen) = {}
    BY <1>2, <1>7, <2>1 DEF SaveLook
  <2>2. CASE AcqsOf(s.seen) # {}
    <3>1. PICK step \in {"clean", "write"} :
              /\ Goes(s, [At(s, step) EXCEPT !.seen = None])
              /\ step = "write" => ~DiskFull
      BY <1>7, <2>2 DEF SaveLook
    <3>2. PICK t : t = [At(s, step) EXCEPT !.seen = None]
      OBVIOUS
    <3>3. t.own = s.own /\ t.step = step /\ Goes(s, t)
      BY <1>0, <3>1, <3>2 DEF Save
    <3>4. step = "write" => Used <= Limit
      BY <1>0, <3>1 DEF DiskFull, Used
    <3> QED
      BY <1>1, <1>7, <2>2, <3>3, <3>4 DEF SaveLook
  <2> QED
    BY <2>1, <2>2
<1>8. CASE SaveClean(s)
  <2>1. CASE results = {}
    BY <1>2, <1>8, <2>1 DEF SaveClean
  <2>2. CASE results # {}
    <3>1. PICK r \in results :
              /\ Goes(s, [At(s, "delete") EXCEPT !.del = Collected(r)])
              /\ s.own = None => ~(Cardinality(FilesOf(Collected(r))) < Recordings)
      BY <1>8, <2>2 DEF SaveClean
    <3>2. PICK t : t = [At(s, "delete") EXCEPT !.del = Collected(r)]
      OBVIOUS
    <3>3. t.own = s.own /\ t.step = "delete" /\ t.del = Collected(r) /\ Goes(s, t)
      BY <1>0, <3>1, <3>2 DEF Save
    <3> DEFINE gone == FilesOf(t.del)
    <3>4. ASSUME s.own = None PROVE Cardinality(files \ gone) <= Limit
      <4>1. gone \subseteq files
        BY DEF FilesOf
      <4>2. IsFiniteSet(gone) /\ files \cap gone = gone
        BY <4>1, FS_Subset
      <4>3. Cardinality(files \ gone) = Used - Cardinality(gone)
        BY <4>2, FS_Difference DEF Used
      <4>4. Cardinality(gone) \in Nat
        BY <4>2, FS_CardinalityType
      <4>5. Used <= Limit + Recordings
        BY DEF Room
      <4>6. ~(Cardinality(gone) < Recordings)
        BY <3>1, <3>3, <3>4
      <4> HIDE DEF gone
      <4> QED
        BY <1>0, <4>3, <4>4, <4>5, <4>6
    <3> QED
      BY <1>1, <1>8, <2>2, <3>3, <3>4 DEF SaveClean
  <2> QED
    BY <2>1, <2>2
<1>9. ASSUME NEW f \in files, SaveRemovesFile(s, f) PROVE Room'
  BY <1>0, <1>9, RoomStays DEF SaveRemovesFile
<1>10. CASE SaveDeletesRows(s)
  <2>1. CASE SaveFails(s)
    BY <1>2, <1>10, <2>1 DEF SaveDeletesRows
  <2>2. CASE Goes(s, [At(s, "write") EXCEPT !.del = NoDeletion]) /\ UNCHANGED pc
    <3>1. PICK t : t = [At(s, "write") EXCEPT !.del = NoDeletion]
      OBVIOUS
    <3>2. t.own = s.own /\ t.step = "write" /\ Goes(s, t)
      BY <1>0, <2>2, <3>1 DEF Save
    <3>3. s.step = "delete" /\ files \ FilesOf(s.del) = files
      BY <1>10 DEF SaveDeletesRows, FilesLeft
    <3>4. s.own = None => Used <= Limit
      BY <3>3 DEF Room, Used
    <3> QED
      BY <1>1, <1>10, <2>2, <3>2, <3>4 DEF SaveDeletesRows
  <2> QED
    BY <1>10, <2>1, <2>2 DEF SaveDeletesRows
<1>11. CASE SaveWrites(s) /\ s.own = None
  <2>1. /\ s.step = "write" /\ saves' = saves \ {s} /\ pc' = "acting" /\ rec' = 1
        /\ UNCHANGED files
    BY <1>11 DEF SaveWrites
  <2>2. \A t \in saves' : t.own # None
    BY <1>0, <1>11, <2>1 DEF SavesInv, SavesKnown
  <2>3. Used' = Used /\ Used <= Limit
    BY <1>11, <2>1 DEF Room, Used
  <2>4. 1 <= Recordings
    BY StoreAssumption
  <2> QED
    BY <1>0, <2>1, <2>2, <2>3, <2>4 DEF Room
<1>12. CASE SaveWrites(s) /\ s.own # None
  <2>1. UNCHANGED <<pc, rec, files>>
    BY <1>12 DEF SaveWrites
  <2>2. \A t \in saves' : t \in saves \/ t.own = s.own
    BY <1>12 DEF SaveWrites, Goes, NewSave
  <2> QED
    BY <1>0, <1>12, <2>1, <2>2, RoomStays
<1> QED
  BY <1>3, <1>4, <1>5, <1>6, <1>7, <1>8, <1>9, <1>10, <1>11, <1>12

LEMMA EndTaskLimit ==
    ASSUME StoreInv, IsFiniteSet(files), Room, EndTask, UNCHANGED files
    PROVE  Room'
<1>1. \A t \in saves' : t \in saves \/ t.step = "count"
  BY DEF EndTask, NewSave
<1> QED
  BY <1>1, RoomStays DEF EndTask, StoreInv, Acting

(* The task writes one file after the other, up to Recordings.             *)
LEMMA TaskLimit == ASSUME StoreInv, IsFiniteSet(files), Room, Task PROVE Room'
<1> USE DEF tables
<1>0. /\ SavesInv
      /\ Acting => \A s \in saves : s.own # None
      /\ Used \in Nat /\ Limit \in Nat /\ Recordings \in Nat /\ rec \in Nat
  BY FS_CardinalityType, StoreAssumption DEF StoreInv, SavesInv, SavesKnown, TypeOK, Acting, Used
<1>1. CASE StartTask
  <2>1. \A t \in saves' : t \in saves \/ t.step = "count"
    BY <1>1 DEF StartTask, NewSave
  <2> QED
    BY <1>0, <1>1, <2>1, RoomStays DEF StartTask, Acting
<1>2. CASE Return
  BY <1>2, EndTaskLimit DEF Return
<1>3. CASE StoreFile /\ lastPk \in results
  <2>1. /\ pc = "acting" /\ pc' = "insert" /\ rec <= Recordings
        /\ files' = files \cup {Recording} /\ UNCHANGED <<lastPk, rec, saves>>
    BY <1>3 DEF StoreFile
  <2>2. Used' \in Nat /\ Used' <= Used + 1
    BY <1>0, <2>1, FS_AddElement DEF Used
  <2>3. Used <= Limit + rec - 1
    BY <2>1 DEF Room
  <2>4. Used' <= Limit + rec /\ Used' <= Limit + Recordings
    BY <1>0, <2>1, <2>2, <2>3
  <2>5. \A t \in saves' : t.own # None
    BY <1>0, <2>1 DEF Acting
  <2> QED
    BY <2>1, <2>4, <2>5 DEF Room
<1>4. CASE (InsertRow \/ SetFlag) /\ lastPk \in results
  <2>1. /\ pc \in {"insert", "flag"} /\ UNCHANGED <<files, saves>>
        /\ \/ pc' = "flag" /\ rec' = rec
           \/ pc' = "acting" /\ rec' = rec + 1
    BY <1>4 DEF InsertRow, SetFlag
  <2>2. \A t \in saves' : t.own # None
    BY <1>0, <2>1 DEF Acting
  <2>3. rec <= Recordings /\ Used <= Limit + rec /\ Used' = Used /\ Used <= Limit + Recordings
    BY <2>1 DEF Room, Used
  <2> QED
    BY <1>0, <2>1, <2>2, <2>3 DEF Room
<1>5. CASE (StoreFile \/ InsertRow \/ SetFlag) /\ lastPk \notin results
  BY <1>5, EndTaskLimit DEF StoreFile, InsertRow, SetFlag
<1> QED
  BY <1>1, <1>2, <1>3, <1>4, <1>5 DEF Task

LEMMA UserLimit == ASSUME StoreInv, IsFiniteSet(files), Room, User PROVE Room'
<1>1. files' \subseteq files /\ UNCHANGED <<pc, rec, saves>>
  BY DEF User, Request, RequestDeletesRows, RequestRemovesFile
<1> QED
  BY <1>1, RoomStays DEF StoreInv

LEMMA RebootLimit == ASSUME StoreInv, IsFiniteSet(files), Room, Reboot PROVE Room'
  BY RoomStays DEF Reboot, StoreInv, Acting

LEMMA NextLimit == ASSUME StoreInv, LimitInv, [Next]_vars PROVE LimitInv'
<1>1. IsFiniteSet(files) /\ IsFiniteSet(files')
  BY FilesStayFinite DEF LimitInv
<1>2. ASSUME ~short', torn' = {} PROVE Room'
  <2>1. ~short /\ torn = {}
    BY <1>2, HistoryStays
  <2>2. Room
    BY <2>1 DEF LimitInv
  <2>3. CASE UNCHANGED vars
    BY <2>2, <2>3 DEF vars, Room, Used, FilesOf
  <2>4. CASE Restart \/ Crash
    BY <1>1, <2>2, <2>4, RebootLimit DEF Restart, Crash
  <2> QED
    BY <1>1, <1>2, <2>1, <2>2, <2>3, <2>4, SaverLimit, TaskLimit, UserLimit DEF Next
<1> QED
  BY <1>1, <1>2 DEF LimitInv

LEMMA InitLimit == Init => LimitInv
<1> SUFFICES ASSUME Init PROVE LimitInv
  OBVIOUS
<1>1. IsFiniteSet(files) /\ Used = 0
  BY FS_EmptySet DEF Init, Used
<1>2. Room
  BY <1>1, StoreAssumption DEF Init, Room
<1> QED
  BY <1>1, <1>2 DEF LimitInv

LEMMA StoreInvariant == Spec => []StoreInv
<1>1. StoreInv /\ [Next]_vars => StoreInv'
  BY NextSaves, NextRows DEF StoreInv
<1> QED
  BY InitStore, <1>1, PTL DEF Spec
------------------------------------------------------------------------------
(* Rows, files, deletions and saves keep their types. *)
THEOREM StoreTypes == Spec => []TypeOK
<1>1. StoreInv => TypeOK
  BY DEF StoreInv, SavesInv
<1> QED
  BY StoreInvariant, <1>1, PTL

(* For any number of recordings, deletions and crashes, no acquisition     *)
(* says that its data are not encrypted once the task went on              *)
(* (measurement_handler.py, measurement_action_completed_callback).        *)
THEOREM FlagsAreTrue == Spec => []FlagsTrue
<1>1. StoreInv => FlagsTrue
  BY DEF StoreInv, RowsInv
<1> QED
  BY StoreInvariant, <1>1, PTL

(* Whoever deletes a result while others delete it or record for it, an    *)
(* acquisition without its file belongs to a deletion that is under way,   *)
(* was cut off or was refused (acquisition.py, clean_up_data).             *)
THEOREM FilesOfRows == Spec => []RowsHaveFiles
<1>1. StoreInv => RowsHaveFiles
  BY DEF StoreInv, RowsInv
<1> QED
  BY StoreInvariant, <1>1, PTL

(* A file that no acquisition tells of is the one just written, or was     *)
(* left by a recording cut off or refused (measurement_handler.py).        *)
THEOREM RowsOfFiles == Spec => []FilesHaveRows
<1>1. StoreInv => FilesHaveRows
  BY DEF StoreInv, RowsInv
<1> QED
  BY StoreInvariant, <1>1, PTL

(* For any limit and any number of recordings, tasks, deletions and        *)
(* crashes: before a task starts to record there is room below the limit,  *)
(* and it writes no more than its recordings (task_result.py, save).       *)
THEOREM DiskStaysLimited == Spec => []DiskLimitedWhenFull
<1>1. LimitInv => DiskLimitedWhenFull
  BY DEF LimitInv, Room, Used, DiskLimitedWhenFull, DiskLimited
<1>2. StoreInv /\ LimitInv /\ [Next]_vars => LimitInv'
  BY NextLimit
<1> QED
  BY StoreInvariant, InitLimit, <1>1, <1>2, PTL DEF Spec
==============================================================================
