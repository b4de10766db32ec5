--------------------------- MODULE SchedulerProofs ---------------------------
(* Theorems about the scheduler for every value of the constants. *)
EXTENDS SchedulerInvariants, ScheduleTimesProofs, FiniteSetTheorems
------------------------------------------------------------------------------
(* Part 1: type correctness and referential integrity. *)

LEMMA InitConsistent == Init => Consistent
<1> SUFFICES ASSUME Init PROVE Consistent
  OBVIOUS
<1>1. IsFiniteSet(results)
  BY FS_EmptySet DEF Init
<1>2. TypeOK
  BY ConstantsAssumption DEF Init, TypeOK, PCs
<1>3. LocalsOK /\ KeysOK /\ ResultsHaveEntries
  BY DEF Init, LocalsOK, KeysOK, ResultsHaveEntries, InTask, Recording, Visiting, Resetting
<1> QED
  BY <1>1, <1>2, <1>3 DEF Consistent

LEMMA BeginConsistent == Consistent /\ Begin => Consistent'
<1> SUFFICES ASSUME Consistent, Begin PROVE Consistent'
  OBVIOUS
<1> USE DEF Consistent, Begin, dbVars, finVars, envVars
<1>1. TypeOK'
  BY DEF TypeOK, PCs, ActiveNames, Files
<1>2. LocalsOK'
  BY DEF TypeOK, ActiveNames, LocalsOK, InTask, Recording, Visiting, Resetting
<1>3. KeysOK' /\ ResultsHaveEntries' /\ IsFiniteSet(results)'
  BY DEF KeysOK, ResultsHaveEntries
<1> QED
  BY <1>1, <1>2, <1>3

LEMMA ResetCountConsistent ==
    ASSUME Consistent, NEW n \in Names, ResetCount(n) PROVE Consistent'
<1> USE DEF Consistent, ResetCount, dbVars, finVars, envVars
<1>1. TypeOK'
  <2>1. Cardinality(ResultsOf(n)) \in Nat
    BY FS_Subset, FS_CardinalityType DEF ResultsOf
  <2> QED
    BY <2>1 DEF TypeOK, PCs
<1>2. LocalsOK'
  BY DEF TypeOK, ActiveNames, LocalsOK, InTask, Recording, Visiting, Resetting
<1>3. KeysOK' /\ ResultsHaveEntries' /\ IsFiniteSet(results)'
  BY DEF KeysOK, ResultsHaveEntries
<1> QED
  BY <1>1, <1>2, <1>3

(* Dying keeps everything consistent, whatever it takes from the results   *)
(* and the finalizers on the way.                                          *)
LEMMA DieConsistent ==
    ASSUME Consistent, Die, results' \subseteq results, fin' \subseteq fin,
           task' \in Task \cup {None}, oldest' \in Id \cup {None},
           UNCHANGED <<async, now, rows, lastPk, fresh, interrupt, failures, envVars, ran>>
    PROVE  Consistent'
<1> USE DEF Consistent, Die, envVars
<1>1. TypeOK'
  BY DEF TypeOK, PCs, Files
<1>2. LocalsOK' /\ KeysOK' /\ ResultsHaveEntries'
  BY DEF LocalsOK, KeysOK, ResultsHaveEntries, InTask, Recording, Visiting, Resetting
<1>3. IsFiniteSet(results)'
  BY FS_Subset
<1> QED
  BY <1>1, <1>2, <1>3

LEMMA ResetIdConsistent == Consistent /\ ResetId => Consistent'
<1> SUFFICES ASSUME Consistent, ResetId PROVE Consistent'
  OBVIOUS
<1>1. CASE Die
  BY <1>1, DieConsistent DEF ResetId, Consistent, TypeOK, dbVars, finVars
<1>2. ASSUME NEW last \in IdsInPlace(cur, count - 1),
             snap' = [snap EXCEPT ![cur].id = last + 1],
             pc' \in {"reset", "resetSave"}, count' = 0,
             UNCHANGED <<health, todo, cur, taken, pending>>
      PROVE  Consistent'
  <2> USE DEF Consistent, ResetId, dbVars, finVars, envVars
  <2>1. PICK r \in results : r.name = cur /\ r.id = last
    BY DEF IdsInPlace, IdsOf, ResultsOf
  <2>2. last \in Id /\ cur \in Names /\ snap[cur] \in Entry
    BY <2>1 DEF TypeOK, LocalsOK, Resetting, Result
  <2>3. [snap[cur] EXCEPT !.id = last + 1] \in Entry
    BY <2>2 DEF Entry, Id
  <2>4. /\ snap' \in [Names -> Entry \cup {None}]
        /\ snap'[cur] \in Entry
        /\ \A n \in Names \ {cur} : snap'[n] = snap[n]
    BY <1>2, <2>2, <2>3 DEF TypeOK
  <2>5. TypeOK'
    BY <1>2, <2>4 DEF TypeOK, PCs
  <2>6. LocalsOK'
    BY <1>2, <2>2, <2>4 DEF TypeOK, LocalsOK, InTask, Recording, Visiting, Resetting
  <2>7. KeysOK' /\ ResultsHaveEntries' /\ IsFiniteSet(results)'
    BY <1>2 DEF KeysOK, ResultsHaveEntries
  <2> QED
    BY <2>5, <2>6, <2>7
<1> QED
  BY <1>1, <1>2 DEF ResetId

LEMMA ResetSaveConsistent == Consistent /\ ResetSave => Consistent'
<1> SUFFICES ASSUME Consistent, ResetSave PROVE Consistent'
  OBVIOUS
<1>1. CASE Die /\ UNCHANGED rows
  BY <1>1, DieConsistent DEF ResetSave, Consistent, TypeOK, finVars
<1>2. CASE /\ rows[cur] # None
           /\ rows' = [rows EXCEPT ![cur].id = snap[cur].id]
           /\ pc' = "reset"
           /\ UNCHANGED <<health, passVars, pending>>
  <2> USE DEF Consistent, ResetSave, passVars, finVars, envVars
  <2>1. cur \in Names /\ rows[cur] \in Entry /\ snap[cur].id \in Id
    BY <1>2 DEF TypeOK, LocalsOK, Resetting, Entry, Id
  <2>2. [rows[cur] EXCEPT !.id = snap[cur].id] \in Entry
    BY <2>1 DEF Entry, Id
  <2>3. rows' \in [Names -> Entry \cup {None}]
    BY <1>2, <2>1, <2>2 DEF TypeOK
  <2>4. TypeOK'
    BY <1>2, <2>3 DEF TypeOK, PCs
  <2>5. LocalsOK'
    BY <1>2 DEF LocalsOK, InTask, Recording, Visiting, Resetting
  <2>6. ResultsHaveEntries'
    BY <1>2, <2>1, <2>2, NoneIsNoEntry DEF TypeOK, ResultsHaveEntries
  <2>7. KeysOK' /\ IsFiniteSet(results)'
    BY <1>2 DEF KeysOK
  <2> QED
    BY <2>4, <2>5, <2>6, <2>7
<1> QED
  BY <1>1, <1>2 DEF ResetSave

LEMMA PassStepsConsistent ==
    Consistent /\ (ResetDone \/ Check \/ Snapshot \/ QueueDone \/ PassDone \/ Pace \/ Idle)
        => Consistent'
<1> SUFFICES ASSUME Consistent,
                    ResetDone \/ Check \/ Snapshot \/ QueueDone \/ PassDone \/ Pace \/ Idle
             PROVE  Consistent'
  OBVIOUS
<1> USE DEF Consistent, dbVars, passVars, finVars, envVars
<1>1. CASE ResetDone
  BY <1>1 DEF ResetDone, TypeOK, PCs, LocalsOK, InTask, Recording, Visiting, Resetting, KeysOK,
     ResultsHaveEntries
<1>2. CASE Check
  BY <1>2 DEF Check, TypeOK, PCs, LocalsOK, InTask, Recording, Visiting, Resetting, KeysOK,
     ResultsHaveEntries
<1>3. CASE Snapshot
  <2>1. TypeOK'
    BY <1>3 DEF Snapshot, TypeOK, PCs, ActiveNames
  <2>2. LocalsOK'
    BY <1>3 DEF Snapshot, TypeOK, LocalsOK, InTask, Recording, Visiting, Resetting, ActiveNames
  <2> QED
    BY <1>3, <2>1, <2>2 DEF Snapshot, KeysOK, ResultsHaveEntries
<1>4. CASE QueueDone
  BY <1>4 DEF QueueDone, TypeOK, PCs, LocalsOK, InTask, Recording, Visiting, Resetting, KeysOK,
     ResultsHaveEntries
<1>5. CASE PassDone
  BY <1>5 DEF PassDone, TypeOK, PCs, LocalsOK, InTask, Recording, Visiting, Resetting, KeysOK,
     ResultsHaveEntries
<1>6. CASE Pace
  BY <1>6 DEF Pace, TypeOK, PCs, LocalsOK, InTask, Recording, Visiting, Resetting, KeysOK,
     ResultsHaveEntries
<1>7. CASE Idle
  <2>1. pc' \in {"stopped", "check"} /\ fresh' \in SUBSET {"inner", "outer"}
    BY <1>7 DEF Idle, TypeOK
  <2> QED
    BY <1>7, <2>1 DEF Idle, TypeOK, PCs, LocalsOK, InTask, Recording, Visiting, Resetting, KeysOK,
       ResultsHaveEntries
<1> QED
  BY <1>1, <1>2, <1>3, <1>4, <1>5, <1>6, <1>7

LEMMA TakeTimeConsistent ==
    ASSUME Consistent, NEW n \in Names, TakeTime(n) PROVE Consistent'
<1> DEFINE e == TakeUntil(snap[n], now + 1)
           t == IF Due(snap[n], now + 1) THEN LastDue(snap[n], now + 1) ELSE None
<1>1. CASE Die /\ UNCHANGED rows
  BY <1>1, DieConsistent DEF TakeTime, Consistent, TypeOK, finVars
<1>2. CASE rows[n] # None
  <2> USE DEF Consistent, TakeTime, finVars, envVars
  <2>1. snap[n] \in Entry /\ now + 1 \in Int /\ rows[n] \in Entry
    BY <1>2 DEF LocalsOK, Resetting, TypeOK
  <2>2. e \in Entry /\ t \in Int \cup {None}
    BY <2>1, TakeUntilType, LastDueIsDue
  <2>3. t # None => t \in Int
    BY <2>2
  <2>4. /\ rows' = [rows EXCEPT ![n].next = e.next, ![n].active = e.active]
        /\ snap' = [snap EXCEPT ![n] = e] /\ todo' = todo \ {n} /\ cur' = n
        /\ taken' = t
        /\ pc' \in {"cancel", "assign", "queue"}
        /\ pc' = "assign" => t # None
        /\ UNCHANGED <<health, count, pending>>
    BY <1>2
  <2> HIDE DEF e, t
  <2>5. [rows[n] EXCEPT !.next = e.next, !.active = e.active] \in Entry
    BY <2>1, <2>2 DEF Entry
  <2>6. rows' \in [Names -> Entry \cup {None}]
    BY <2>4, <2>5 DEF TypeOK
  <2>7. snap' \in [Names -> Entry \cup {None}]
    BY <2>2, <2>4 DEF TypeOK
  <2>8. TypeOK'
    BY <2>2, <2>4, <2>6, <2>7 DEF TypeOK, PCs
  <2>9. LocalsOK'
    BY <2>2, <2>3, <2>4, <2>8 DEF TypeOK, LocalsOK, InTask, Recording, Visiting, Resetting
  <2>10. \A m \in Names : rows[m] # None => rows'[m] # None
    BY <2>4, <2>5, NoneIsNoEntry DEF TypeOK
  <2>11. ResultsHaveEntries'
    BY <2>10 DEF TypeOK, Result, ResultsHaveEntries
  <2>12. KeysOK' /\ IsFiniteSet(results)'
    BY <2>4 DEF KeysOK
  <2> QED
    BY <2>8, <2>9, <2>11, <2>12
<1> QED
  BY <1>1, <1>2 DEF TakeTime

LEMMA CancelConsistent == Consistent /\ Cancel => Consistent'
<1> SUFFICES ASSUME Consistent, Cancel PROVE Consistent'
  OBVIOUS
<1>1. CASE Die /\ UNCHANGED rows
  BY <1>1, DieConsistent DEF Cancel, Consistent, TypeOK, finVars
<1>2. CASE rows[cur] # None
  <2> USE DEF Consistent, Cancel, finVars, envVars
  <2>1. snap[cur] \in Entry /\ cur \in Names /\ rows[cur] \in Entry
    BY <1>2 DEF LocalsOK, Resetting, TypeOK, Visiting
  <2>2. /\ [rows[cur] EXCEPT !.active = FALSE] \in Entry
        /\ [snap[cur] EXCEPT !.active = FALSE] \in Entry
    BY <2>1 DEF Entry
  <2>3. rows' \in [Names -> Entry \cup {None}] /\ snap' \in [Names -> Entry \cup {None}]
    BY <1>2, <2>1, <2>2 DEF TypeOK
  <2>4. TypeOK'
    BY <1>2, <2>3 DEF TypeOK, PCs
  <2>5. \A m \in Names : snap[m] \in Entry => snap'[m] \in Entry
    BY <1>2, <2>1, <2>2 DEF TypeOK
  <2>6. taken # None => taken \in Int
    BY DEF TypeOK
  <2>7. LocalsOK'
    BY <1>2, <2>1, <2>5, <2>6 DEF TypeOK, LocalsOK, InTask, Recording, Visiting, Resetting
  <2>8. \A m \in Names : rows[m] # None => rows'[m] # None
    BY <1>2, <2>1, <2>2, NoneIsNoEntry DEF TypeOK
  <2>9. ResultsHaveEntries'
    BY <2>8 DEF TypeOK, Result, ResultsHaveEntries
  <2>10. KeysOK' /\ IsFiniteSet(results)'
    BY <1>2 DEF KeysOK
  <2> QED
    BY <2>4, <2>7, <2>9, <2>10
<1> QED
  BY <1>1, <1>2 DEF Cancel

LEMMA AssignIdConsistent == Consistent /\ AssignId => Consistent'
<1> SUFFICES ASSUME Consistent, AssignId PROVE Consistent'
  OBVIOUS
<1>1. CASE Die /\ UNCHANGED rows
  BY <1>1, DieConsistent DEF AssignId, Consistent, TypeOK, finVars
<1>2. CASE rows[cur] # None
  <2> USE DEF Consistent, AssignId, finVars, envVars
  <2>1. /\ snap[cur] \in Entry /\ cur \in Names /\ rows[cur] \in Entry
        /\ taken \in Int
    BY <1>2 DEF LocalsOK, Resetting, TypeOK, Visiting
  <2>2. snap[cur].id \in Id /\ snap[cur].id + 1 \in Id /\ snap[cur].prio \in Int
    BY <2>1 DEF Entry, Id
  <2>3. /\ [rows[cur] EXCEPT !.id = snap[cur].id + 1] \in Entry
        /\ [snap[cur] EXCEPT !.id = @ + 1] \in Entry
    BY <2>1, <2>2 DEF Entry, Id
  <2>4. rows' \in [Names -> Entry \cup {None}] /\ snap' \in [Names -> Entry \cup {None}]
    BY <1>2, <2>1, <2>3 DEF TypeOK
  <2>5. pending' \in SUBSET Task
    BY <1>2, <2>1, <2>2 DEF TypeOK, Task
  <2>6. TypeOK'
    BY <1>2, <2>4, <2>5 DEF TypeOK, PCs
  <2>7. \A m \in Names : snap[m] \in Entry => snap'[m] \in Entry
    BY <1>2, <2>1, <2>3 DEF TypeOK
  <2>8. LocalsOK'
    BY <1>2, <2>1, <2>7 DEF TypeOK, LocalsOK, InTask, Recording, Visiting, Resetting
  <2>9. \A m \in Names : rows[m] # None => rows'[m] # None
    BY <1>2, <2>1, <2>3, NoneIsNoEntry DEF TypeOK
  <2>10. ResultsHaveEntries'
    BY <2>9 DEF TypeOK, Result, ResultsHaveEntries
  <2>11. KeysOK' /\ IsFiniteSet(results)'
    BY <1>2 DEF KeysOK
  <2> QED
    BY <2>6, <2>8, <2>10, <2>11
<1> QED
  BY <1>1, <1>2 DEF AssignId

LEMMA StartTaskConsistent ==
    ASSUME Consistent, NEW t \in pending, StartTask(t) PROVE Consistent'
<1>0. t \in Task
  BY DEF Consistent, TypeOK
<1>1. CASE Die /\ UNCHANGED task
  BY <1>1, DieConsistent DEF StartTask, Consistent, TypeOK, dbVars, finVars, envVars
<1>2. CASE rows[t.name] # None
  BY <1>0, <1>2 DEF StartTask, Consistent, TypeOK, PCs, LocalsOK, Resetting, InTask, Recording,
     Visiting,
     KeysOK, ResultsHaveEntries, dbVars, passVars, finVars, envVars
<1> QED
  BY <1>1, <1>2 DEF StartTask

LEMMA InsertConsistent ==
    ASSUME Consistent, InTask, pc \notin {"call", "acting"}, Insert,
           UNCHANGED <<async, now, rows, fresh, task, interrupt, finVars, envVars, ran>>
    PROVE  Consistent'
<1> USE DEF Consistent
<1> DEFINE new == [name |-> task.name, id |-> task.id,
                   pk |-> lastPk + 1, status |-> "in-progress"]
<1>1. CASE Die /\ UNCHANGED <<results, lastPk>>
  BY <1>1, DieConsistent DEF TypeOK, finVars
<1>2. CASE /\ rows[task.name] # None
           /\ lastPk' = lastPk + 1
           /\ results' = results \cup {new}
           /\ pc' = "call"
           /\ UNCHANGED <<health, passVars, pending>>
  <2> USE DEF passVars, finVars, envVars
  <2>1. task \in Task /\ lastPk \in Nat
    BY DEF LocalsOK, Resetting, TypeOK
  <2>2. new \in Result /\ new.pk = lastPk + 1 /\ new.name = task.name /\ new.id = task.id
    BY <2>1 DEF Task, Result, Id, Status
  <2> HIDE DEF new
  <2>3. TypeOK'
    BY <1>2, <2>1, <2>2 DEF TypeOK, PCs
  <2>4. LocalsOK'
    BY <1>2, <2>1 DEF LocalsOK, InTask, Recording, Visiting, Resetting
  <2>5. IsFiniteSet(results)'
    BY <1>2, FS_AddElement
  <2>6. ResultsHaveEntries'
    BY <1>2, <2>2 DEF ResultsHaveEntries
  <2>7. \A r \in results : r.pk \in Nat /\ r.pk <= lastPk
    BY DEF KeysOK, TypeOK, Result, Id
  <2>8. \A f \in fin : f.pk \in Nat /\ f.pk <= lastPk
    BY DEF KeysOK, TypeOK, Final, Id
  <2>9. KeysOK'
    BY <1>2, <2>1, <2>2, <2>7, <2>8 DEF KeysOK, Id
  <2> QED
    BY <2>3, <2>4, <2>5, <2>6, <2>9
<1> QED
  BY <1>1, <1>2 DEF Insert

(* A step within the save of a new result, which may remove others.        *)
LEMMA RecordingConsistent ==
    ASSUME Consistent, Recording, pc' \in {"first", "clean", "create"},
           oldest' \in Id \cup {None}, results' \subseteq results,
           UNCHANGED <<async, now, rows, lastPk, health, fresh, passVars, pending, task,
                       interrupt, fin, failures, envVars, ran>>
    PROVE  Consistent'
<1> USE DEF Consistent, passVars, envVars
<1>1. TypeOK'
  BY DEF TypeOK, PCs
<1>2. LocalsOK' /\ KeysOK' /\ ResultsHaveEntries'
  BY DEF LocalsOK, InTask, Recording, Visiting, Resetting, KeysOK, ResultsHaveEntries
<1>3. IsFiniteSet(results)'
  BY FS_Subset
<1> QED
  BY <1>1, <1>2, <1>3

LEMMA RemovableKeys ==
    ASSUME Consistent, NEW n, NEW pk, NEW r \in Removable(n, pk) PROVE r.pk \in Id
  BY DEF Removable, Oldest, ResultsOf, Consistent, TypeOK, Result

LEMMA CreateResultConsistent ==
    Consistent /\ (CountResults \/ FirstResult \/ CleanUp \/ CreateResult) => Consistent'
<1> SUFFICES ASSUME Consistent, CountResults \/ FirstResult \/ CleanUp \/ CreateResult
             PROVE  Consistent'
  OBVIOUS
<1> USE DEF finVars
<1>1. oldest \in Id \cup {None} /\ task \in Task \cup {None}
  BY DEF Consistent, TypeOK
<1>2. CASE CountResults
  <2>1. CASE Insert
    BY <1>2, <2>1, InsertConsistent DEF CountResults, InTask, Recording
  <2>2. CASE pc' = "first" /\ UNCHANGED <<results, lastPk, health, passVars, pending>>
    BY <1>1, <1>2, <2>2, RecordingConsistent DEF CountResults, Recording
  <2> QED
    BY <1>2, <2>1, <2>2 DEF CountResults
<1>3. CASE FirstResult
  <2>1. CASE Die /\ UNCHANGED <<results, lastPk, oldest>>
    BY <1>1, <1>3, <2>1, DieConsistent DEF FirstResult
  <2>2. CASE Insert /\ UNCHANGED oldest
    BY <1>3, <2>2, InsertConsistent DEF FirstResult, InTask, Recording
  <2>3. ASSUME NEW r \in Removable(task.name, None), oldest' = r.pk, pc' = "clean",
               UNCHANGED <<results, lastPk, health, passVars, pending>>
        PROVE  Consistent'
    BY <1>3, <2>3, RemovableKeys, RecordingConsistent DEF FirstResult, Recording
  <2> QED
    BY <1>3, <2>1, <2>2, <2>3 DEF FirstResult
<1>4. CASE CleanUp
  <2>1. CASE Die /\ UNCHANGED results
    BY <1>1, <1>4, <2>1, DieConsistent DEF CleanUp
  <2>2. ASSUME NEW r \in Oldest(task.name), results' = results \ {r}, pc' = "create",
               UNCHANGED <<health, passVars, pending>>
        PROVE  Consistent'
    BY <1>4, <2>2, RecordingConsistent DEF CleanUp, Recording
  <2> QED
    BY <1>4, <2>1, <2>2 DEF CleanUp
<1>5. CASE CreateResult
  BY <1>5, InsertConsistent DEF CreateResult, InTask, Recording
<1> QED
  BY <1>2, <1>3, <1>4, <1>5

LEMMA CallActionConsistent == Consistent /\ CallAction => Consistent'
<1> SUFFICES ASSUME Consistent, CallAction PROVE Consistent'
  OBVIOUS
<1>1. CASE Die /\ UNCHANGED ran
  BY <1>1, DieConsistent DEF CallAction, Consistent, TypeOK, dbVars, finVars
<1>2. CASE rows[task.name] # None
  <2> USE DEF Consistent, CallAction, dbVars, passVars, finVars, envVars
  <2>1. task \in Task
    BY DEF LocalsOK, Resetting, InTask, Recording
  <2>2. [name |-> task.name, time |-> task.time, id |-> task.id, pk |-> lastPk] \in Ran
    BY <2>1 DEF KeysOK, Task, Ran
  <2>3. TypeOK'
    BY <1>2, <2>2 DEF TypeOK, PCs
  <2> QED
    BY <1>2, <2>3 DEF LocalsOK, InTask, Recording, Visiting, Resetting, KeysOK, ResultsHaveEntries
<1> QED
  BY <1>1, <1>2 DEF CallAction

LEMMA ReturnActionConsistent ==
    ASSUME Consistent, NEW o \in Outcomes, ReturnAction(o) PROVE Consistent'
<1> USE DEF Consistent, ReturnAction, dbVars, passVars, envVars
<1> DEFINE f0 == NewFinal(o)
<1>1. task \in Task /\ lastPk \in Id /\ o \in {"success", "failure"}
  BY ConstantsAssumption DEF LocalsOK, Resetting, InTask, Recording, KeysOK
<1>2. f0 \in Final /\ f0.pk = lastPk /\ f0.task = task
  BY <1>1 DEF NewFinal, Final, Phases, Steps
<1>3. fin' = fin \cup {f0} /\ pc' = IF async THEN "run" ELSE "finalizing"
  OBVIOUS
<1> HIDE DEF f0
<1>4. TypeOK'
  BY <1>2, <1>3 DEF TypeOK, PCs
<1>5. LocalsOK'
  BY <1>1, <1>3 DEF TypeOK, LocalsOK, InTask, Recording, Visiting, Resetting
<1>6. KeysOK'
  BY <1>1, <1>2, <1>3 DEF KeysOK, Id
<1>7. ResultsHaveEntries' /\ IsFiniteSet(results)'
  BY DEF ResultsHaveEntries
<1> QED
  BY <1>4, <1>5, <1>6, <1>7

(* Where a finalizer goes, it keeps its task and its key.                  *)
LEMMA GoesType ==
    ASSUME Consistent, NEW f \in fin, NEW phase \in Phases, NEW step \in Steps,
           NEW pk \in Id \cup {None}, Goes(f, phase, step, pk)
    PROVE  /\ fin' \subseteq Final
           /\ \A h \in fin' : \E h0 \in fin : h.pk = h0.pk /\ h.task = h0.task
<1> DEFINE g == [f EXCEPT !.phase = phase, !.step = step, !.oldest = pk]
<1>1. f \in Final /\ fin \subseteq Final
  BY DEF Consistent, TypeOK
<1>2. g \in Final /\ g.task = f.task /\ g.pk = f.pk
  BY <1>1 DEF Final
<1>3. fin' = (fin \ {f}) \cup {g}
  BY DEF Goes
<1> HIDE DEF g
<1> QED
  BY <1>1, <1>2, <1>3

(* A step within a finalizer, which may remove results.                    *)
LEMMA FinalizerStepConsistent ==
    ASSUME Consistent, results' \subseteq results, fin' \subseteq Final,
           \A h \in fin' : \E h0 \in fin : h.pk = h0.pk /\ h.task = h0.task,
           UNCHANGED <<async, now, rows, lastPk, health, threadVars, oldest, interrupt,
                       failures, envVars, ran>>
    PROVE  Consistent'
<1> USE DEF Consistent, threadVars, passVars, envVars
<1>1. TypeOK'
  BY DEF TypeOK
<1>2. LocalsOK' /\ ResultsHaveEntries'
  BY DEF LocalsOK, InTask, Recording, Visiting, Resetting, ResultsHaveEntries
<1>3. KeysOK'
  BY DEF KeysOK
<1>4. IsFiniteSet(results)'
  BY FS_Subset
<1> QED
  BY <1>1, <1>2, <1>3, <1>4

LEMMA FinalizerFailsConsistent ==
    ASSUME Consistent, NEW f \in fin, FinalizerFails(f), results' \subseteq results,
           UNCHANGED <<async, now, rows, lastPk, fresh, task, oldest, interrupt, failures,
                       envVars, ran>>
    PROVE  Consistent'
<1>1. CASE Goes(f, "except", "query", None) /\ UNCHANGED <<pc, health, passVars, pending>>
  <2>1. "except" \in Phases /\ "query" \in Steps
    BY DEF Phases, Steps
  <2>2. /\ fin' \subseteq Final
        /\ \A h \in fin' : \E h0 \in fin : h.pk = h0.pk /\ h.task = h0.task
    BY <1>1, <2>1, GoesType
  <2> QED
    BY <1>1, <2>2, FinalizerStepConsistent DEF threadVars
<1>2. CASE fin' = fin \ {f} /\ UNCHANGED <<pc, health, passVars, pending>>
  <2>1. fin' \subseteq Final
    BY <1>2 DEF Consistent, TypeOK
  <2> QED
    BY <1>2, <2>1, FinalizerStepConsistent DEF threadVars
<1>3. CASE fin' = fin \ {f} /\ Die
  BY <1>3, DieConsistent DEF Consistent, TypeOK
<1> QED
  BY <1>1, <1>2, <1>3 DEF FinalizerFails

LEMMA PhaseAfterType == ASSUME NEW f PROVE PhaseAfter(f) \in Phases
  BY DEF PhaseAfter, Phases

LEMMA WriteConsistent ==
    ASSUME Consistent, NEW f \in fin, Write(f),
           f.phase \in {"save", "report", "except"},
           UNCHANGED <<async, now, rows, lastPk, fresh, task, oldest, interrupt, failures,
                       envVars, ran>>
    PROVE  Consistent'
<1> USE DEF Consistent, envVars
<1>0. f \in Final
  BY DEF TypeOK
<1>1. CASE FinalizerFails(f) /\ UNCHANGED results
  BY <1>1, FinalizerFailsConsistent
<1>2. ASSUME CanSave(f), NEW status \in StatusToSave(f),
             results' = Saved(f, status),
             Goes(f, PhaseAfter(f), "query", None),
             UNCHANGED <<pc, health, passVars, pending>>
      PROVE  Consistent'
  <2> DEFINE new == [name |-> f.task.name, id |-> f.task.id, pk |-> f.pk, status |-> status]
  <2> USE DEF passVars
  <2>1. status \in Status
    <3>1. f.outcome \in {"success", "failure"}
      BY <1>0 DEF Final
    <3> QED
      BY <3>1 DEF StatusToSave, Status
  <2>2. /\ fin' \subseteq Final
        /\ \A h \in fin' : \E h0 \in fin : h.pk = h0.pk /\ h.task = h0.task
    BY <1>2, PhaseAfterType, GoesType DEF Steps
  <2>3. /\ new \in Result
        /\ new.name = f.task.name /\ new.id = f.task.id /\ new.pk = f.pk
    BY <1>0, <2>1 DEF Final, Task, Result
  <2>4. results' = {r \in results : r.pk # f.pk} \cup {new}
    BY <1>2 DEF Saved
  <2>5. rows[f.task.name] # None
    BY <1>2 DEF CanSave, Vanished, KeysOK, ResultsHaveEntries
  <2> HIDE DEF new
  <2>6. TypeOK'
    BY <1>2, <2>2, <2>3, <2>4 DEF TypeOK
  <2>7. LocalsOK'
    BY <1>2 DEF LocalsOK, InTask, Recording, Visiting, Resetting
  <2>8. IsFiniteSet(results)'
    BY <2>4, FS_Subset, FS_AddElement
  <2>9. ResultsHaveEntries'
    BY <2>3, <2>4, <2>5 DEF ResultsHaveEntries
  <2>10. \A h \in fin' : \E h0 \in fin : h.pk = h0.pk /\ h.task = h0.task
    BY <2>2
  <2>11. \A r \in results' : r \in results \/ (r.pk = f.pk /\ r.name = f.task.name
                                                         /\ r.id = f.task.id)
    BY <2>3, <2>4
  <2>12. f.pk \in Nat /\ lastPk \in Nat
    BY <1>0 DEF TypeOK, Final, Id
  <2>13. /\ (\A r \in results : r.pk <= lastPk)'
         /\ (\A h \in fin : h.pk <= lastPk)'
         /\ (\A h, i \in fin : h.pk = i.pk => h.task = i.task)'
    BY <2>10, <2>11 DEF KeysOK
  <2>14. ASSUME NEW h \in fin', NEW r \in results', r.pk = h.pk
         PROVE  r.name = h.task.name /\ r.id = h.task.id
    <3>1. PICK h0 \in fin : h.pk = h0.pk /\ h.task = h0.task
      BY <2>10
    <3>2. r.pk = f.pk => h0.task = f.task
      BY <2>14, <3>1 DEF KeysOK
    <3>3. CASE r \in results
      BY <2>14, <3>1, <3>3 DEF KeysOK
    <3>4. CASE r.pk = f.pk /\ r.name = f.task.name /\ r.id = f.task.id
      BY <3>1, <3>2, <3>4
    <3> QED
      BY <2>11, <3>3, <3>4
  <2>15. (pc \in {"call", "acting"} =>
            /\ lastPk \in Id
            /\ \A r \in results :
                   r.pk = lastPk => r.name = task.name /\ r.id = task.id
            /\ \A h \in fin : h.pk < lastPk)'
    <3>1. CASE pc \in {"call", "acting"}
      <4>1. f.pk < lastPk /\ f.pk # lastPk
        BY <2>12, <3>1 DEF KeysOK
      <4>2. \A r \in results' : r.pk = lastPk => r \in results
        BY <2>11, <4>1
      <4> QED
        BY <1>2, <2>10, <3>1, <4>2 DEF KeysOK
    <3> QED
      BY <1>2, <3>1
  <2>16. KeysOK'
    BY <2>13, <2>14, <2>15 DEF KeysOK
  <2> QED
    BY <2>6, <2>7, <2>8, <2>9, <2>16
<1> QED
  BY <1>1, <1>2 DEF Write

LEMMA SaveConsistent ==
    ASSUME Consistent, NEW f \in fin,
           SaveCount(f) \/ SaveFirst(f) \/ SaveClean(f) \/ SaveWrite(f)
    PROVE  Consistent'
<1>1. f.phase \in {"save", "report", "except"} /\ f.phase \in Phases
  BY DEF SaveCount, SaveFirst, SaveClean, SaveWrite, Saving, Phases
<1>2. /\ UNCHANGED <<async, now, rows, lastPk, fresh, task, oldest, interrupt, failures,
                     envVars, ran>>
      /\ \/ Write(f)
         \/ FinalizerFails(f) /\ UNCHANGED results
         \/ /\ \E step \in Steps, pk \in Id \cup {None} : Goes(f, f.phase, step, pk)
            /\ results' \subseteq results
            /\ UNCHANGED <<pc, health, passVars, pending>>
  <2>1. CASE SaveCount(f)
    BY <2>1 DEF SaveCount, Steps
  <2>2. CASE SaveFirst(f)
    BY <2>2, RemovableKeys DEF SaveFirst, Steps
  <2>3. CASE SaveClean(f)
    BY <2>3 DEF SaveClean, Steps
  <2>4. CASE SaveWrite(f)
    BY <2>4 DEF SaveWrite
  <2> QED
    BY <2>1, <2>2, <2>3, <2>4
<1>3. CASE Write(f)
  BY <1>1, <1>2, <1>3, WriteConsistent
<1>4. CASE FinalizerFails(f) /\ UNCHANGED results
  BY <1>2, <1>4, FinalizerFailsConsistent
<1>5. ASSUME NEW step \in Steps, NEW pk \in Id \cup {None}, Goes(f, f.phase, step, pk),
             results' \subseteq results, UNCHANGED <<pc, health, passVars, pending>>
      PROVE  Consistent'
  <2>1. /\ fin' \subseteq Final
        /\ \A h \in fin' : \E h0 \in fin : h.pk = h0.pk /\ h.task = h0.task
    BY <1>1, <1>5, GoesType
  <2> QED
    BY <1>2, <1>5, <2>1, FinalizerStepConsistent DEF threadVars
<1> QED
  BY <1>2, <1>3, <1>4, <1>5

LEMMA CallbackConsistent ==
    ASSUME Consistent, NEW f \in fin, Callback(f) PROVE Consistent'
<1>1. PICK phase \in Phases : Goes(f, phase, "query", None)
  BY DEF Callback, Phases
<1>2. /\ fin' \subseteq Final
      /\ \A h \in fin' : \E h0 \in fin : h.pk = h0.pk /\ h.task = h0.task
  BY <1>1, GoesType DEF Steps
<1> QED
  BY <1>2, FinalizerStepConsistent DEF Callback, dbVars

LEMMA CountConsistent ==
    ASSUME Consistent, NEW f \in fin, Count(f) PROVE Consistent'
<1> USE DEF Consistent, Count, dbVars, passVars, envVars
<1>1. /\ fin' \subseteq Final
      /\ \A h \in fin' : \E h0 \in fin : h.pk = h0.pk /\ h.task = h0.task
  <2>1. CASE Goes(f, "restart", "query", None)
    BY <2>1, GoesType DEF Phases, Steps
  <2>2. CASE FinalizerEnds(f)
    BY <2>2 DEF FinalizerEnds, TypeOK
  <2> QED
    BY <2>1, <2>2
<1>2. /\ failures' \in Nat
      /\ health' \in SUBSET Files /\ pc' \in {pc, "run"}
  <2>1. failures' \in Nat
    BY DEF TypeOK
  <2>2. /\ health' = health \/ health' = health \cup {"sdr_unhealthy"}
        /\ pc' \in {pc, "run"}
    BY DEF FinalizerEnds
  <2> QED
    BY <2>1, <2>2 DEF TypeOK, Files
<1>3. TypeOK'
  BY <1>1, <1>2 DEF TypeOK, PCs
<1>4. LocalsOK' /\ ResultsHaveEntries' /\ IsFiniteSet(results)'
  BY <1>2 DEF LocalsOK, InTask, Recording, Visiting, Resetting, ResultsHaveEntries
<1>5. KeysOK'
  BY <1>1, <1>2 DEF KeysOK
<1> QED
  BY <1>3, <1>4, <1>5

LEMMA StopThreadConsistent ==
    ASSUME Consistent, NEW f \in fin, StopThread(f) PROVE Consistent'
<1> USE DEF Consistent, StopThread, FinalizerEnds, dbVars, passVars, envVars
<1>1. TypeOK'
  BY DEF TypeOK, PCs
<1>2. LocalsOK' /\ KeysOK' /\ ResultsHaveEntries' /\ IsFiniteSet(results)'
  BY DEF LocalsOK, InTask, Recording, Visiting, Resetting, KeysOK, ResultsHaveEntries
<1> QED
  BY <1>1, <1>2
------------------------------------------------------------------------------
LEMMA CreateEntryConsistent ==
    ASSUME Consistent, NEW n \in Names, NEW t \in Templates, CreateEntry(n, t)
    PROVE  Consistent'
<1> USE DEF Consistent, CreateEntry, ApiOp, threadVars, passVars, finVars
<1>1. /\ now + t.delay \in Int /\ t.span \in (Nat \ {0}) \cup {None}
      /\ t.interval \in (Nat \ {0}) \cup {None} /\ t.prio \in Int
  BY ConstantsAssumption DEF TypeOK
<1> DEFINE e == NewEntry(now + t.delay, t.span, t.interval, t.prio)
<1>2. e \in Entry
  BY <1>1, NewEntryType
<1>3. rows' = [rows EXCEPT ![n] = e]
  OBVIOUS
<1> HIDE DEF e
<1>4. TypeOK'
  BY <1>2, <1>3 DEF TypeOK
<1>5. LocalsOK' /\ KeysOK' /\ IsFiniteSet(results)'
  BY DEF LocalsOK, InTask, Recording, Visiting, Resetting, KeysOK
<1>6. ResultsHaveEntries'
  BY <1>2, <1>3, NoneIsNoEntry DEF TypeOK, Result, ResultsHaveEntries
<1> QED
  BY <1>4, <1>5, <1>6

LEMMA PatchedType ==
    ASSUME NEW row \in Entry, NEW patch \in Patches
    PROVE  Patched(row, patch) \in Entry
<1>1. /\ patch.active \in BOOLEAN \cup {Keep}
      /\ patch.start \in Int \cup {Keep}
      /\ patch.stop \in Int \cup {None, Keep}
      /\ patch.interval \in (Nat \ {0}) \cup {None, Keep}
  BY ConstantsAssumption
<1> QED
  BY <1>1 DEF Patched, Entry

LEMMA LoadForUpdateConsistent ==
    ASSUME Consistent, NEW c \in Clients, NEW n \in Names, NEW p \in Patches,
           LoadForUpdate(c, n, p)
    PROVE  Consistent'
<1> USE DEF Consistent, LoadForUpdate, ApiOp, dbVars, threadVars, passVars, finVars
<1>1. [name |-> n, row |-> rows[n], patch |-> p] \in Update
  BY DEF TypeOK, Update
<1>2. TypeOK'
  BY <1>1 DEF TypeOK
<1> QED
  BY <1>2 DEF LocalsOK, InTask, Recording, Visiting, Resetting, KeysOK, ResultsHaveEntries

LEMMA SaveUpdateConsistent ==
    ASSUME Consistent, NEW c \in Clients, SaveUpdate(c)
    PROVE  Consistent'
<1> USE DEF Consistent, SaveUpdate, threadVars, passVars, finVars
<1> DEFINE e == OnSave(req[c].row, Patched(req[c].row, req[c].patch), now)
<1>1. req[c] \in Update
  BY DEF TypeOK
<1>2. req[c].name \in Names /\ req[c].row \in Entry /\ req[c].patch \in Patches
  BY <1>1 DEF Update
<1>3. e \in Entry
  <2>1. Patched(req[c].row, req[c].patch) \in Entry /\ now \in Int
    BY <1>2, PatchedType DEF TypeOK
  <2> QED
    BY <1>2, <2>1, OnSaveType
<1>4. rows' = [rows EXCEPT ![req[c].name] = e]
  OBVIOUS
<1> HIDE DEF e
<1>5. TypeOK'
  BY <1>2, <1>3, <1>4 DEF TypeOK
<1>6. LocalsOK' /\ KeysOK' /\ IsFiniteSet(results)'
  BY DEF LocalsOK, InTask, Recording, Visiting, Resetting, KeysOK
<1>7. ResultsHaveEntries'
  BY <1>2, <1>3, <1>4, NoneIsNoEntry DEF TypeOK, Result, ResultsHaveEntries
<1> QED
  BY <1>5, <1>6, <1>7

LEMMA DeleteEntryConsistent ==
    ASSUME Consistent, NEW n \in Names, DeleteEntry(n)
    PROVE  Consistent'
<1> USE DEF Consistent, DeleteEntry, ApiOp, threadVars, passVars, finVars
<1>1. TypeOK'
  BY DEF TypeOK
<1>2. ResultsHaveEntries'
  BY DEF TypeOK, Result, ResultsHaveEntries, ResultsOf
<1> QED
  BY <1>1, <1>2 DEF LocalsOK, InTask, Recording, Visiting, Resetting, KeysOK

LEMMA DeleteResultsConsistent ==
    ASSUME Consistent, NEW gone, DeleteResults(gone)
    PROVE  Consistent'
<1> USE DEF Consistent, DeleteResults, ApiOp, threadVars, passVars, finVars
<1>1. TypeOK'
  BY DEF TypeOK
<1>2. IsFiniteSet(results)'
  BY FS_Subset
<1> QED
  BY <1>1, <1>2 DEF LocalsOK, InTask, Recording, Visiting, Resetting, KeysOK, ResultsHaveEntries

LEMMA StopConsistent == Consistent /\ Stop => Consistent'
  BY DEF Consistent, Stop, ApiOp, dbVars, threadVars, passVars, finVars,
         TypeOK, LocalsOK, InTask, Recording, Visiting, Resetting, KeysOK, ResultsHaveEntries

LEMMA RebootConsistent ==
    ASSUME Consistent, Reboot, crashes' \in Nat
    PROVE  Consistent'
<1> USE DEF Consistent, Reboot, dbVars
<1>1. TypeOK'
  BY DEF TypeOK, PCs, Files
<1> QED
  BY <1>1 DEF LocalsOK, InTask, Recording, Visiting, Resetting, KeysOK, ResultsHaveEntries

LEMMA TickConsistent == Consistent /\ Tick => Consistent'
<1> SUFFICES ASSUME Consistent, Tick PROVE Consistent'
  OBVIOUS
<1> USE DEF Consistent, Tick, dbVars, passVars, finVars, envVars
<1>1. TypeOK'
  BY DEF TypeOK
<1> QED
  BY <1>1 DEF LocalsOK, InTask, Recording, Visiting, Resetting, KeysOK, ResultsHaveEntries
------------------------------------------------------------------------------
LEMMA ThreadConsistent == Consistent /\ Thread => Consistent'
<1> SUFFICES ASSUME Consistent, Thread PROVE Consistent'
  OBVIOUS
<1>1. CASE \/ Begin \/ ResetId \/ ResetSave \/ Cancel \/ AssignId
           \/ CountResults \/ FirstResult \/ CleanUp \/ CreateResult \/ CallAction
  BY <1>1, BeginConsistent, ResetIdConsistent, ResetSaveConsistent, CancelConsistent,
     AssignIdConsistent,
     CreateResultConsistent, CallActionConsistent
<1>2. CASE ResetDone \/ Check \/ Snapshot \/ QueueDone \/ PassDone \/ Pace \/ Idle
  BY <1>2, PassStepsConsistent
<1>3. CASE \E n \in Names : ResetCount(n) \/ TakeTime(n)
  BY <1>3, ResetCountConsistent, TakeTimeConsistent
<1>4. CASE \E t \in pending : StartTask(t)
  BY <1>4, StartTaskConsistent
<1>5. CASE \E o \in Outcomes : ReturnAction(o)
  BY <1>5, ReturnActionConsistent
<1> QED
  BY <1>1, <1>2, <1>3, <1>4, <1>5 DEF Thread

LEMMA FinalizerConsistent == Consistent /\ Finalizer => Consistent'
  BY SaveConsistent, CallbackConsistent, CountConsistent, StopThreadConsistent
     DEF Finalizer

LEMMA ApiConsistent == Consistent /\ Api => Consistent'
  BY CreateEntryConsistent, LoadForUpdateConsistent, SaveUpdateConsistent,
     DeleteEntryConsistent, DeleteResultsConsistent, StopConsistent
     DEF Api

LEMMA NextConsistent == Consistent /\ [Next]_vars => Consistent'
<1> SUFFICES ASSUME Consistent, [Next]_vars PROVE Consistent'
  OBVIOUS
<1>1. CASE Thread
  BY <1>1, ThreadConsistent
<1>2. CASE Finalizer
  BY <1>2, FinalizerConsistent
<1>3. CASE Api
  BY <1>3, ApiConsistent
<1>4. CASE Restart \/ Crash
  <2>1. crashes' \in Nat
    BY <1>4 DEF Restart, Crash, Consistent, TypeOK
  <2> QED
    BY <1>4, <2>1, RebootConsistent DEF Restart, Crash
<1>5. CASE Tick
  BY <1>5, TickConsistent
<1>6. CASE UNCHANGED vars
  BY <1>6 DEF Consistent, TypeOK, LocalsOK, InTask, Recording, Visiting, Resetting, KeysOK,
     ResultsHaveEntries,
     vars, dbVars, threadVars, passVars, finVars, envVars
<1> QED
  BY <1>1, <1>2, <1>3, <1>4, <1>5, <1>6 DEF Next

(* The inductive invariant holds of every behaviour of the scheduler, with *)
(* any number of entries, requests, crashes and failures.                  *)
THEOREM AlwaysConsistent == Spec => []Consistent
<1>1. Init => Consistent
  BY InitConsistent
<1>2. Consistent /\ [Next]_vars => Consistent'
  BY NextConsistent
<1> QED
  BY <1>1, <1>2, PTL DEF Spec

(* Every variable keeps the shape the code gives it.                       *)
THEOREM TypeCorrect == Spec => []TypeOK
<1>1. Consistent => TypeOK
  BY DEF Consistent
<1> QED
  BY <1>1, AlwaysConsistent, PTL

(* No edit, deletion or late save of a finalizer leaves a result without   *)
(* its entry (task_result.py, on_delete=PROTECT; scheduler.py,             *)
(* _finalize_task_result).                                                 *)
THEOREM ReferentialIntegrity == Spec => []ResultsHaveEntries
<1>1. Consistent => ResultsHaveEntries
  BY DEF Consistent
<1> QED
  BY <1>1, AlwaysConsistent, PTL
------------------------------------------------------------------------------
(* Part 2: recorded outcomes stay, whatever requests, finalizers and       *)
(* crashes do; a result in progress keeps somebody who settles it; and a   *)
(* thread that stopped by itself has left the file that makes the          *)
(* container unhealthy.                                                    *)

(* What a step does to the outcomes recorded. *)
OutcomesStay ==
    \A r \in results, s \in results' :
        r.pk = s.pk /\ r.status # "in-progress" =>
            s.status \in {r.status, "notification_failed"}

LEMMA InitOutcomes == Init => OutcomesInv /\ FileFirst
  BY DEF Init, OutcomesInv, OneKey, StatusKnown, FileFirst

(* Steps that write no result and move no finalizer. *)
LEMMA QuietOutcomes ==
    ASSUME OutcomesInv, results' \subseteq results, fin' \subseteq fin, UNCHANGED lastPk,
           pc' \in {"call", "acting"} => pc \in {"call", "acting"}
    PROVE  OutcomesInv' /\ OutcomesStay
<1>1. OneKey'
  BY DEF OutcomesInv, OneKey
<1>2. StatusKnown'
  BY DEF OutcomesInv, StatusKnown
<1>3. OutcomesStay
  BY DEF OutcomesInv, OneKey, OutcomesStay
<1> QED
  BY <1>1, <1>2, <1>3 DEF OutcomesInv

(* A new result has a new key. *)
LEMMA InsertOutcomes ==
    ASSUME Consistent, OutcomesInv, Insert, UNCHANGED fin
    PROVE  OutcomesInv' /\ OutcomesStay
<1>1. CASE Die /\ UNCHANGED <<results, lastPk>>
  BY <1>1, QuietOutcomes DEF Die
<1>2. ASSUME NEW new, new.pk = lastPk + 1, new.status = "in-progress",
             lastPk' = lastPk + 1, results' = results \cup {new}, pc' = "call"
      PROVE  OutcomesInv' /\ OutcomesStay
  <2>1. /\ lastPk \in Nat
        /\ \A r \in results : r.pk \in Nat /\ r.pk < new.pk
        /\ \A f \in fin : f.pk \in Nat /\ f.pk < new.pk
    BY <1>2 DEF Consistent, TypeOK, KeysOK, Result, Final, Id
  <2>2. OneKey'
    BY <1>2, <2>1 DEF OutcomesInv, OneKey
  <2>3. StatusKnown'
    BY <1>2, <2>1 DEF OutcomesInv, StatusKnown
  <2>4. OutcomesStay
    BY <1>2, <2>1 DEF OutcomesInv, OneKey, OutcomesStay
  <2> QED
    BY <2>2, <2>3, <2>4 DEF OutcomesInv
<1> QED
  BY <1>1, <1>2 DEF Insert

(* The new finalizer takes over the key that the thread holds. *)
LEMMA ReturnActionOutcomes ==
    ASSUME Consistent, OutcomesInv, NEW o \in Outcomes, ReturnAction(o)
    PROVE  OutcomesInv' /\ OutcomesStay
<1> DEFINE new == NewFinal(o)
<1>1. /\ new.pk = lastPk /\ new.phase = "save"
      /\ fin' = fin \cup {new} /\ UNCHANGED <<results, lastPk>>
      /\ pc = "acting" /\ pc' \notin {"call", "acting"}
  BY DEF ReturnAction, NewFinal, dbVars
<1> HIDE DEF new
<1>2. \A f \in fin : f.pk # lastPk
  BY <1>1 DEF Consistent, TypeOK, KeysOK, Final, Id
<1>3. OneKey'
  BY <1>1, <1>2 DEF OutcomesInv, OneKey
<1>4. StatusKnown'
  BY <1>1 DEF OutcomesInv, StatusKnown
<1>5. OutcomesStay
  BY <1>1 DEF OutcomesInv, OneKey, OutcomesStay
<1> QED
  BY <1>3, <1>4, <1>5 DEF OutcomesInv

LEMMA ThreadOutcomes ==
    ASSUME Consistent, OutcomesInv, Thread PROVE OutcomesInv' /\ OutcomesStay
<1>1. CASE \/ Begin \/ ResetId \/ ResetSave \/ ResetDone \/ Check \/ Snapshot \/ Cancel \/ AssignId
           \/ QueueDone \/ CallAction \/ PassDone \/ Pace \/ Idle
           \/ \E n \in Names : ResetCount(n) \/ TakeTime(n)
           \/ \E t \in pending : StartTask(t)
  <2>1. /\ UNCHANGED <<results, fin, lastPk>>
        /\ pc' \in {"call", "acting"} => pc \in {"call", "acting"}
    BY <1>1 DEF Begin, ResetId, ResetSave, ResetDone, Check, Snapshot, Cancel, AssignId, QueueDone,
           CallAction, PassDone, Pace, Idle, ResetCount, TakeTime, StartTask, Die,
           dbVars, finVars
  <2> QED
    BY <2>1, QuietOutcomes
<1>2. CASE CountResults \/ FirstResult \/ CleanUp \/ CreateResult
  <2>1. \/ Insert /\ UNCHANGED fin
        \/ /\ results' \subseteq results /\ UNCHANGED <<fin, lastPk>>
           /\ pc' \notin {"call", "acting"}
    BY <1>2 DEF CountResults, FirstResult, CleanUp, CreateResult, Die, finVars
  <2> QED
    BY <2>1, InsertOutcomes, QuietOutcomes
<1>3. CASE \E o \in Outcomes : ReturnAction(o)
  BY <1>3, ReturnActionOutcomes
<1> QED
  BY <1>1, <1>2, <1>3 DEF Thread
------------------------------------------------------------------------------
(* Where a finalizer may go without writing. *)
Forward(from, to) ==
    \/ to = from
    \/ from \in {"callback", "report", "except"} /\ to \in {"report", "except"}
    \/ to \in {"count", "restart"}

LEMMA GoesOutcomes ==
    ASSUME Consistent, OutcomesInv, NEW f \in fin, NEW phase, NEW step, NEW pk,
           Goes(f, phase, step, pk), Forward(f.phase, phase),
           results' \subseteq results, UNCHANGED <<lastPk, pc>>
    PROVE  OutcomesInv' /\ OutcomesStay
<1> DEFINE g == [f EXCEPT !.phase = phase, !.step = step, !.oldest = pk]
<1>1. g.pk = f.pk /\ g.phase = phase /\ g.outcome = f.outcome
  BY DEF Consistent, TypeOK, Final
<1>2. fin' = (fin \ {f}) \cup {g}
  BY DEF Goes
<1> HIDE DEF g
<1>3. OneKey'
  BY <1>1, <1>2 DEF OutcomesInv, OneKey
<1>4. StatusKnown'
  BY <1>1, <1>2 DEF OutcomesInv, StatusKnown, Forward
<1>5. OutcomesStay
  BY DEF OutcomesInv, OneKey, OutcomesStay
<1> QED
  BY <1>3, <1>4, <1>5 DEF OutcomesInv

LEMMA FailsOutcomes ==
    ASSUME Consistent, OutcomesInv, NEW f \in fin, FinalizerFails(f),
           results' \subseteq results, UNCHANGED lastPk
    PROVE  OutcomesInv' /\ OutcomesStay
<1>1. CASE f.phase = "report" /\ HasCallback
  BY <1>1, GoesOutcomes DEF FinalizerFails, Forward
<1>2. CASE ~(f.phase = "report" /\ HasCallback)
  BY <1>2, QuietOutcomes DEF FinalizerFails, Die
<1> QED
  BY <1>1, <1>2

(* Only the finalizer of a result writes it: the outcome once, then the    *)
(* outcome or that the notification failed.                                *)
LEMMA WriteOutcomes ==
    ASSUME Consistent, OutcomesInv, NEW f \in fin, Write(f),
           f.phase \in {"save", "report", "except"}, UNCHANGED lastPk
    PROVE  OutcomesInv' /\ OutcomesStay
<1>1. CASE FinalizerFails(f) /\ UNCHANGED results
  BY <1>1, FailsOutcomes
<1>2. ASSUME NEW status \in StatusToSave(f), results' = Saved(f, status),
             Goes(f, PhaseAfter(f), "query", None), UNCHANGED pc
      PROVE  OutcomesInv' /\ OutcomesStay
  <2> DEFINE g == [f EXCEPT !.phase = PhaseAfter(f), !.step = "query", !.oldest = None]
             new == [name |-> f.task.name, id |-> f.task.id, pk |-> f.pk,
                     status |-> status]
  <2>1. g.pk = f.pk /\ g.phase = PhaseAfter(f) /\ g.outcome = f.outcome
    BY DEF Consistent, TypeOK, Final
  <2>2. fin' = (fin \ {f}) \cup {g}
    BY <1>2 DEF Goes
  <2>3. /\ new.pk = f.pk /\ new.status = status
        /\ results' = {r \in results : r.pk # f.pk} \cup {new}
    BY <1>2 DEF Saved
  <2> HIDE DEF g, new
  <2>4. /\ f.phase = "save" => status = f.outcome
        /\ f.phase # "save" => status \in {f.outcome, "notification_failed"}
    BY <1>2 DEF StatusToSave
  <2>5. \/ f.phase = "save" /\ g.phase \in {"callback", "report"}
        \/ f.phase # "save" /\ g.phase = "count"
    BY <2>1 DEF PhaseAfter
  <2>6. pc \in {"call", "acting"} => f.pk # lastPk
    BY DEF Consistent, TypeOK, KeysOK, Final, Id
  <2>7. OneKey'
    BY <2>1, <2>2, <2>3 DEF OutcomesInv, OneKey
  <2>8. StatusKnown'
    BY <1>2, <2>1, <2>2, <2>3, <2>4, <2>5, <2>6 DEF OutcomesInv, OneKey, StatusKnown
  <2>9. OutcomesStay
    BY <2>3, <2>4 DEF OutcomesInv, OneKey, StatusKnown, OutcomesStay
  <2> QED
    BY <2>7, <2>8, <2>9 DEF OutcomesInv
<1> QED
  BY <1>1, <1>2 DEF Write

LEMMA FinalizerOutcomes ==
    ASSUME Consistent, OutcomesInv, Finalizer PROVE OutcomesInv' /\ OutcomesStay
<1> SUFFICES ASSUME NEW f \in fin,
                    \/ SaveCount(f) \/ SaveFirst(f) \/ SaveClean(f) \/ SaveWrite(f)
                    \/ Callback(f) \/ Count(f) \/ StopThread(f)
             PROVE  OutcomesInv' /\ OutcomesStay
  BY DEF Finalizer
<1>1. CASE SaveCount(f)
  BY <1>1, WriteOutcomes, GoesOutcomes DEF SaveCount, Saving, Forward
<1>2. CASE SaveFirst(f)
  BY <1>2, WriteOutcomes, GoesOutcomes, FailsOutcomes DEF SaveFirst, Saving, Forward
<1>3. CASE SaveClean(f)
  BY <1>3, GoesOutcomes, FailsOutcomes DEF SaveClean, Forward
<1>4. CASE SaveWrite(f)
  BY <1>4, WriteOutcomes DEF SaveWrite, Saving
<1>5. CASE Callback(f)
  BY <1>5, GoesOutcomes DEF Callback, Forward, dbVars, threadVars
<1>6. CASE Count(f)
  <2>1. \/ Goes(f, "restart", "query", None) /\ UNCHANGED pc
        \/ FinalizerEnds(f)
    BY <1>6 DEF Count
  <2>2. UNCHANGED <<results, lastPk>>
    BY <1>6 DEF Count, dbVars
  <2> QED
    BY <2>1, <2>2, GoesOutcomes, QuietOutcomes DEF Forward, FinalizerEnds
<1>7. CASE StopThread(f)
  BY <1>7, QuietOutcomes DEF StopThread, FinalizerEnds, dbVars
<1> QED
  BY <1>1, <1>2, <1>3, <1>4, <1>5, <1>6, <1>7

LEMMA NextOutcomes ==
    Consistent /\ OutcomesInv /\ [Next]_vars => OutcomesInv' /\ OutcomesStay
<1> SUFFICES ASSUME Consistent, OutcomesInv, [Next]_vars
             PROVE  OutcomesInv' /\ OutcomesStay
  OBVIOUS
<1>1. CASE Thread
  BY <1>1, ThreadOutcomes
<1>2. CASE Finalizer
  BY <1>2, FinalizerOutcomes
<1>3. CASE Api
  <2>1. results' \subseteq results /\ UNCHANGED <<fin, lastPk, pc>>
    BY <1>3 DEF Api, CreateEntry, LoadForUpdate, SaveUpdate, DeleteEntry, DeleteResults,
           Stop, dbVars, threadVars, finVars
  <2> QED
    BY <2>1, QuietOutcomes
<1>4. CASE Restart \/ Crash
  <2>1. fin' \subseteq fin /\ pc' = "start" /\ UNCHANGED <<results, lastPk>>
    BY <1>4 DEF Restart, Crash, Reboot, dbVars
  <2> QED
    BY <2>1, QuietOutcomes
<1>5. CASE Tick \/ UNCHANGED vars
  <2>1. UNCHANGED <<results, fin, lastPk, pc>>
    BY <1>5 DEF Tick, vars, dbVars, threadVars, finVars
  <2> QED
    BY <2>1, QuietOutcomes
<1> QED
  BY <1>1, <1>2, <1>3, <1>4, <1>5 DEF Next

(* A recorded outcome stays, whatever users edit and delete, finalizers    *)
(* insert again, and crashes interrupt; only a failed notification takes   *)
(* its place (scheduler.py, _finalize_task_result).                        *)
THEOREM OutcomesAreFinal == Spec => OutcomeIsFinal
<1>1. Init => OutcomesInv
  BY InitOutcomes
<1>2. Consistent /\ OutcomesInv /\ [Next]_vars => OutcomesInv' /\ OutcomesStay
  BY NextOutcomes
<1>3. OutcomesStay =>
          \A r \in results, s \in results' :
              r.pk = s.pk /\ r.status # "in-progress" =>
                  s.status \in {r.status, "notification_failed"}
  BY DEF OutcomesStay
<1> QED
  BY <1>1, <1>2, <1>3, AlwaysConsistent, PTL DEF Spec, OutcomeIsFinal
------------------------------------------------------------------------------
(* Where results are finalized inline, the thread waits for the finalizer. *)
LEMMA NextInline ==
    ASSUME InlineFinalizer, [Next]_vars PROVE InlineFinalizer'
<1> USE DEF InlineFinalizer
<1>1. CASE Finalizer
  <2>1. PICK f \in fin :
            \/ SaveCount(f) \/ SaveFirst(f) \/ SaveClean(f) \/ SaveWrite(f)
            \/ Callback(f) \/ Count(f) \/ StopThread(f)
    BY <1>1 DEF Finalizer
  <2>2. UNCHANGED async
    BY <2>1 DEF SaveCount, SaveFirst, SaveClean, SaveWrite, Callback, Count, StopThread
  <2>3. \/ UNCHANGED pc /\ \E g : fin' = (fin \ {f}) \cup {g}
        \/ fin' = fin \ {f}
    BY <2>1 DEF SaveCount, SaveFirst, SaveClean, SaveWrite, Callback, Count, StopThread,
           Write, FinalizerFails, FinalizerEnds, Goes, threadVars
  <2> QED
    BY <2>2, <2>3
<1>2. CASE Thread /\ UNCHANGED fin
  <2>1. UNCHANGED async /\ pc # "finalizing"
    BY <1>2 DEF Thread, Begin, ResetId, ResetSave, ResetDone, Check, Snapshot, Cancel, AssignId,
           QueueDone, CountResults, FirstResult, CleanUp, CreateResult, CallAction, PassDone,
           Pace, Idle, ResetCount, TakeTime, StartTask, ReturnAction
  <2> QED
    BY <1>2, <2>1
<1>3. CASE \E o \in Outcomes : ReturnAction(o)
  BY <1>3 DEF ReturnAction
<1>4. CASE Thread /\ ~UNCHANGED fin
  BY <1>3, <1>4 DEF Thread, Begin, ResetId, ResetSave, ResetDone, Check, Snapshot, Cancel, AssignId,
         QueueDone, CountResults, FirstResult, CleanUp, CreateResult, CallAction, PassDone,
         Pace, Idle, ResetCount, TakeTime, StartTask, finVars
<1>5. CASE Restart \/ Crash
  BY <1>5 DEF Restart, Crash, Reboot
<1>6. CASE Api \/ Tick \/ UNCHANGED vars
  <2>1. UNCHANGED <<async, pc, fin>>
    BY <1>6 DEF Api, CreateEntry, LoadForUpdate, SaveUpdate, DeleteEntry, DeleteResults, Stop,
           Tick, vars, threadVars, finVars
  <2> QED
    BY <2>1
<1> QED
  BY <1>1, <1>2, <1>4, <1>5, <1>6 DEF Next

(* What a step may do to the results in progress. *)
Forgetting ==
    \A r \in Forgotten' \ Forgotten :
        \/ pc' = "start"
        \/ \E f \in fin : f.pk = r.pk /\ f.step = "clean" /\ Vanished(f.oldest)

(* Steps that bring no result in progress and keep those who settle one.   *)
LEMMA KeptSettlers ==
    ASSUME \A r \in results' : r.status = "in-progress" => r \in results,
           \A r \in results' : r.status = "in-progress" /\ Owned(r.pk) => Owned(r.pk)'
    PROVE  Forgetting
  BY DEF Forgetting, Forgotten

(* A new result is that of the thread. *)
LEMMA InsertForgetting ==
    ASSUME pc \notin {"call", "acting"}, Insert, UNCHANGED fin PROVE Forgetting
<1>1. CASE Die /\ UNCHANGED <<results, lastPk>>
  BY <1>1, KeptSettlers DEF Owned
<1>2. ASSUME NEW new, new.pk = lastPk + 1, lastPk' = lastPk + 1,
             results' = results \cup {new}, pc' = "call"
      PROVE  Forgetting
  BY <1>2 DEF Forgetting, Forgotten, Owned
<1> QED
  BY <1>1, <1>2 DEF Insert

(* The thread keeps the result of its task until a finalizer has it; if it *)
(* dies before its action, the entry is gone, and the result with it.      *)
LEMMA ThreadForgetting ==
    ASSUME Consistent, Thread PROVE Forgetting
<1>1. CASE \/ Begin \/ ResetId \/ ResetSave \/ ResetDone \/ Check \/ Snapshot \/ Cancel \/ AssignId
           \/ QueueDone \/ PassDone \/ Pace \/ Idle
           \/ \E n \in Names : ResetCount(n) \/ TakeTime(n)
           \/ \E t \in pending : StartTask(t)
  <2>1. UNCHANGED <<results, fin>> /\ pc \notin {"call", "acting"}
    BY <1>1 DEF Begin, ResetId, ResetSave, ResetDone, Check, Snapshot, Cancel, AssignId, QueueDone,
           PassDone, Pace, Idle, ResetCount, TakeTime, StartTask, dbVars, finVars
  <2> QED
    BY <2>1, KeptSettlers DEF Owned
<1>2. CASE CountResults \/ FirstResult \/ CleanUp \/ CreateResult
  <2>1. /\ pc \notin {"call", "acting"} /\ UNCHANGED fin
        /\ Insert \/ results' \subseteq results
    BY <1>2 DEF CountResults, FirstResult, CleanUp, CreateResult, finVars
  <2> QED
    BY <2>1, KeptSettlers, InsertForgetting DEF Owned
<1>3. CASE CallAction
  <2>1. pc = "call" /\ UNCHANGED <<results, lastPk, fin>>
    BY <1>3 DEF CallAction, dbVars, finVars
  <2>2. CASE pc' = "acting"
    BY <2>1, <2>2, KeptSettlers DEF Owned
  <2>3. CASE rows[task.name] = None
    <3>1. \A r \in results : r.pk # lastPk
      BY <2>1, <2>3 DEF Consistent, KeysOK, ResultsHaveEntries
    <3> QED
      BY <2>1, <3>1, KeptSettlers DEF Owned
  <2> QED
    BY <1>3, <2>2, <2>3 DEF CallAction
<1>4. CASE \E o \in Outcomes : ReturnAction(o)
  <2>1. \E new : new.pk = lastPk /\ new.phase = "save" /\ fin' = fin \cup {new}
    BY <1>4 DEF ReturnAction, NewFinal
  <2>2. UNCHANGED <<results, lastPk>>
    BY <1>4 DEF ReturnAction, dbVars
  <2> QED
    BY <2>1, <2>2, KeptSettlers DEF Owned
<1> QED
  BY <1>1, <1>2, <1>3, <1>4 DEF Thread

(* A step of the finalizer f leaves what the others settle to them, and    *)
(* either keeps its own result in its hands or settles it.                 *)
LEMMA StepForgetting ==
    ASSUME NEW f \in fin, UNCHANGED lastPk,
           pc \in {"call", "acting"} => pc' = pc,
           \A g \in fin : g # f => g \in fin',
           \A r \in results' : r.status = "in-progress" => r \in results,
           \/ f.phase # "save"
           \/ \E g \in fin' : g.pk = f.pk /\ g.phase = "save"
           \/ \A r \in results' : r.pk = f.pk => r.status # "in-progress"
    PROVE  Forgetting
<1> SUFFICES ASSUME NEW r \in results', r.status = "in-progress", Owned(r.pk)
             PROVE  Owned(r.pk)'
  BY KeptSettlers
<1> QED
  BY DEF Owned

LEMMA GoesForgetting ==
    ASSUME Consistent, NEW f \in fin, NEW phase, NEW step, NEW pk,
           Goes(f, phase, step, pk), f.phase = "save" => phase = "save",
           results' \subseteq results, UNCHANGED <<lastPk, pc>>
    PROVE  Forgetting
<1> DEFINE g == [f EXCEPT !.phase = phase, !.step = step, !.oldest = pk]
<1>1. g.pk = f.pk /\ g.phase = phase
  BY DEF Consistent, TypeOK, Final
<1>2. fin' = (fin \ {f}) \cup {g}
  BY DEF Goes
<1> HIDE DEF g
<1> QED
  BY <1>1, <1>2, StepForgetting

(* A finalizer that fails has nothing to settle, but for the case told.    *)
LEMMA FailsForgetting ==
    ASSUME Consistent, InlineFinalizer, NEW f \in fin, FinalizerFails(f),
           UNCHANGED <<results, lastPk>>,
           \/ Vanished(f.pk)
           \/ f.step = "clean" /\ Vanished(f.oldest)
    PROVE  Forgetting
<1>1. CASE f.phase = "report" /\ HasCallback
  BY <1>1, GoesForgetting DEF FinalizerFails
<1>2. CASE fin' = fin \ {f} /\ (UNCHANGED pc \/ ~async)
  <2>1. pc \in {"call", "acting"} => pc' = pc
    BY <1>2 DEF InlineFinalizer
  <2>2. CASE Vanished(f.pk)
    BY <1>2, <2>1, <2>2, StepForgetting DEF Vanished
  <2>3. CASE f.step = "clean" /\ Vanished(f.oldest)
    <3>1. \A r \in Forgotten' \ Forgotten : r.pk = f.pk
      BY <1>2, <2>1 DEF Forgotten, Owned
    <3> QED
      BY <2>3, <3>1 DEF Forgetting
  <2> QED
    BY <2>2, <2>3
<1> QED
  BY <1>1, <1>2 DEF FinalizerFails

(* A write settles the result, and fails only if the result is gone.       *)
LEMMA WriteForgetting ==
    ASSUME Consistent, InlineFinalizer, NEW f \in fin, Write(f),
           f.phase \in {"save", "report", "except"}, UNCHANGED lastPk
    PROVE  Forgetting
<1>1. CASE ~CanSave(f)
  BY <1>1, FailsForgetting DEF Write, CanSave
<1>2. ASSUME NEW status \in StatusToSave(f), results' = Saved(f, status),
             Goes(f, PhaseAfter(f), "query", None), UNCHANGED pc
      PROVE  Forgetting
  <2> DEFINE new == [name |-> f.task.name, id |-> f.task.id, pk |-> f.pk,
                     status |-> status]
  <2>1. f.outcome # "in-progress"
    BY DEF Consistent, TypeOK, Final
  <2>2. new.pk = f.pk /\ new.status # "in-progress"
    BY <2>1 DEF StatusToSave
  <2>3. results' = {r \in results : r.pk # f.pk} \cup {new}
    BY <1>2 DEF Saved
  <2>4. \A g \in fin : g # f => g \in fin'
    BY <1>2 DEF Goes
  <2> HIDE DEF new
  <2> QED
    BY <1>2, <2>2, <2>3, <2>4, StepForgetting
<1> QED
  BY <1>1, <1>2 DEF Write

LEMMA FinalizerForgetting ==
    ASSUME Consistent, InlineFinalizer, Finalizer PROVE Forgetting
<1> SUFFICES ASSUME NEW f \in fin,
                    \/ SaveCount(f) \/ SaveFirst(f) \/ SaveClean(f) \/ SaveWrite(f)
                    \/ Callback(f) \/ Count(f) \/ StopThread(f)
             PROVE  Forgetting
  BY DEF Finalizer
<1>1. CASE SaveCount(f)
  BY <1>1, WriteForgetting, GoesForgetting DEF SaveCount, Saving
<1>2. CASE SaveFirst(f)
  <2>1. ResultsOf(f.task.name) = {} => Vanished(f.pk)
    BY DEF ResultsOf, Vanished, Consistent, KeysOK
  <2> QED
    BY <1>2, <2>1, WriteForgetting, GoesForgetting, FailsForgetting DEF SaveFirst, Saving
<1>3. CASE SaveClean(f)
  BY <1>3, GoesForgetting, FailsForgetting DEF SaveClean, Saving
<1>4. CASE SaveWrite(f)
  BY <1>4, WriteForgetting DEF SaveWrite, Saving
<1>5. CASE Callback(f)
  BY <1>5, GoesForgetting DEF Callback, dbVars, threadVars
<1>6. CASE Count(f)
  <2>1. \/ Goes(f, "restart", "query", None) /\ UNCHANGED pc
        \/ FinalizerEnds(f)
    BY <1>6 DEF Count
  <2>2. UNCHANGED <<results, lastPk>> /\ f.phase = "count"
    BY <1>6 DEF Count, dbVars
  <2> QED
    BY <2>1, <2>2, GoesForgetting, StepForgetting DEF FinalizerEnds, InlineFinalizer
<1>7. CASE StopThread(f)
  BY <1>7, StepForgetting DEF StopThread, FinalizerEnds, InlineFinalizer, dbVars
<1> QED
  BY <1>1, <1>2, <1>3, <1>4, <1>5, <1>6, <1>7

LEMMA NextForgetting ==
    Consistent /\ InlineFinalizer /\ [Next]_vars => Forgetting
<1> SUFFICES ASSUME Consistent, InlineFinalizer, [Next]_vars PROVE Forgetting
  OBVIOUS
<1>1. CASE Thread
  BY <1>1, ThreadForgetting
<1>2. CASE Finalizer
  BY <1>2, FinalizerForgetting
<1>3. CASE Api
  <2>1. results' \subseteq results /\ UNCHANGED <<fin, lastPk, pc>>
    BY <1>3 DEF Api, CreateEntry, LoadForUpdate, SaveUpdate, DeleteEntry, DeleteResults,
           Stop, dbVars, threadVars, finVars
  <2> QED
    BY <2>1, KeptSettlers DEF Owned
<1>4. CASE Restart \/ Crash
  BY <1>4 DEF Restart, Crash, Reboot, Forgetting
<1>5. CASE Tick \/ UNCHANGED vars
  <2>1. UNCHANGED <<results, fin, lastPk, pc>>
    BY <1>5 DEF Tick, vars, dbVars, threadVars, finVars
  <2> QED
    BY <2>1, KeptSettlers DEF Owned
<1> QED
  BY <1>1, <1>2, <1>3, <1>4, <1>5 DEF Next

(* However entries and results are edited and deleted and whatever fails,  *)
(* a result is left in progress with nobody to settle it only when the     *)
(* process is replaced, or when the save of its outcome finds the oldest   *)
(* result gone that it was about to remove (scheduler.py,                  *)
(* _finalize_task_result; task_result.py, save).                           *)
THEOREM ResultsNotForgotten == Spec => NoneForgotten
<1>1. Init => InlineFinalizer
  BY DEF Init, InlineFinalizer
<1>2. InlineFinalizer /\ [Next]_vars => InlineFinalizer'
  BY NextInline
<1>3. Consistent /\ InlineFinalizer /\ [Next]_vars => Forgetting
  BY NextForgetting
<1>4. Forgetting =>
          \A r \in Forgotten' \ Forgotten :
              \/ pc' = "start"
              \/ \E f \in fin : f.pk = r.pk /\ f.step = "clean" /\ Vanished(f.oldest)
  BY DEF Forgetting
<1> QED
  BY <1>1, <1>2, <1>3, <1>4, AlwaysConsistent, PTL DEF Spec, NoneForgotten
------------------------------------------------------------------------------
LEMMA NextFile ==
    NoShutdown /\ Consistent /\ FileFirst /\ [Next]_vars => FileFirst'
<1> SUFFICES ASSUME NoShutdown, Consistent, FileFirst, [Next]_vars PROVE FileFirst'
  OBVIOUS
<1>1. CASE Thread
  <2>1. /\ UNCHANGED interrupt
        /\ "sdr_unhealthy" \in health => "sdr_unhealthy" \in health'
        /\ pc' = "stopped" => interrupt
    BY <1>1 DEF Thread, Begin, ResetId, ResetSave, ResetDone, Check, Snapshot, Cancel, AssignId,
           QueueDone, CountResults, FirstResult, CleanUp, CreateResult, Insert, CallAction,
           PassDone, Pace, Idle, ResetCount, TakeTime, StartTask, ReturnAction, Die
  <2>2. \A f \in fin' \ fin : f.phase = "save"
    <3>1. CASE \E o \in Outcomes : ReturnAction(o)
      BY <3>1 DEF ReturnAction, NewFinal
    <3>2. CASE ~\E o \in Outcomes : ReturnAction(o)
      <4>1. UNCHANGED fin
        BY <1>1, <3>2 DEF Thread, Begin, ResetId, ResetSave, ResetDone, Check, Snapshot, Cancel,
               AssignId, QueueDone, CountResults, FirstResult, CleanUp, CreateResult,
               CallAction, PassDone, Pace, Idle, ResetCount, TakeTime, StartTask, finVars
      <4> QED
        BY <4>1
    <3> QED
      BY <3>1, <3>2
  <2> QED
    BY <2>1, <2>2 DEF FileFirst
<1>2. ASSUME NEW f \in fin,
             \/ SaveCount(f) \/ SaveFirst(f) \/ SaveClean(f) \/ SaveWrite(f)
             \/ Callback(f) \/ Count(f) \/ StopThread(f)
      PROVE  FileFirst'
  <2>1. /\ health \subseteq health'
        /\ pc' = "stopped" => pc = "stopped"
    BY <1>2 DEF SaveCount, SaveFirst, SaveClean, SaveWrite, Callback, Count, StopThread,
           Write, FinalizerFails, FinalizerEnds, Die, threadVars
  <2>2. interrupt' => interrupt \/ f.phase = "restart"
    BY <1>2 DEF SaveCount, SaveFirst, SaveClean, SaveWrite, Callback, Count, StopThread
  <2>3. ASSUME NEW g \in fin', g \notin fin, g.phase = "restart"
        PROVE  "sdr_unhealthy" \in health'
    <3>1. ASSUME NEW phase, NEW step, NEW pk, Goes(f, phase, step, pk)
          PROVE  g.phase = phase
      <4>1. f \in Final
        BY DEF Consistent, TypeOK
      <4>2. g = [f EXCEPT !.phase = phase, !.step = step, !.oldest = pk]
        BY <2>3, <3>1 DEF Goes
      <4> QED
        BY <4>1, <4>2 DEF Final
    <3>2. PhaseAfter(f) # "restart"
      BY DEF PhaseAfter
    <3>3. ~Callback(f)
      BY <2>3, <3>1 DEF Callback
    <3>4. ~(SaveCount(f) \/ SaveFirst(f) \/ SaveClean(f) \/ SaveWrite(f))
      BY <2>3, <3>1, <3>2 DEF SaveCount, SaveFirst, SaveClean, SaveWrite, Saving, Write,
             FinalizerFails
    <3>5. ~StopThread(f)
      BY <2>3 DEF StopThread, FinalizerEnds
    <3> QED
      BY <1>2, <2>3, <3>3, <3>4, <3>5 DEF Count, FinalizerEnds
  <2>4. interrupt => interrupt'
    BY <1>2 DEF SaveCount, SaveFirst, SaveClean, SaveWrite, Callback, Count, StopThread
  <2> QED
    BY <2>1, <2>2, <2>3, <2>4 DEF FileFirst
<1>3. CASE Api
  <2>1. UNCHANGED <<interrupt, health, fin, pc>>
    BY <1>3 DEF Api, CreateEntry, LoadForUpdate, SaveUpdate, DeleteEntry, DeleteResults,
           Stop, ApiOp, NoShutdown, threadVars, finVars
  <2> QED
    BY <2>1 DEF FileFirst
<1>4. CASE Restart \/ Crash
  BY <1>4 DEF Restart, Crash, Reboot, FileFirst
<1>5. CASE Tick \/ UNCHANGED vars
  <2>1. UNCHANGED <<interrupt, health, fin, pc>>
    BY <1>5 DEF Tick, vars, threadVars, finVars
  <2> QED
    BY <2>1 DEF FileFirst
<1> QED
  BY <1>1, <1>2, <1>3, <1>4, <1>5 DEF Next, Finalizer

(* Unless the server shuts its worker down, a thread that stopped has been *)
(* reported unhealthy, so the supervisor comes for it (scheduler.py,       *)
(* _finalize_task_result; health_check_handler.py).                        *)
THEOREM StoppedReported ==
    ASSUME NoShutdown PROVE Spec => []StoppedIsUnhealthy
<1>1. Init => FileFirst
  BY InitOutcomes
<1>2. Consistent /\ FileFirst /\ [Next]_vars => FileFirst'
  BY NextFile
<1>3. FileFirst => StoppedIsUnhealthy
  BY DEF FileFirst, StoppedIsUnhealthy
<1> QED
  BY <1>1, <1>2, <1>3, AlwaysConsistent, PTL DEF Spec
==============================================================================
