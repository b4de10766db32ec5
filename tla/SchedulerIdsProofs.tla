-------------------------- MODULE SchedulerIdsProofs --------------------------
(***************************************************************************)
(* While no request edits or deletes an entry, task ids stay unique: the   *)
(* next id of an entry is above the ids of all its results, and so neither *)
(* the queueing, the running nor the recording of a task can fail.         *)
(***************************************************************************)
EXTENDS SchedulerProofs
------------------------------------------------------------------------------
(* The ids of an entry are no more than its results. *)
LEMMA IdsCardinality ==
    ASSUME IsFiniteSet(results), NEW n
    PROVE  /\ IsFiniteSet(IdsOf(n))
           /\ Cardinality(IdsOf(n)) \in Nat
           /\ Cardinality(IdsOf(n)) <= Cardinality(ResultsOf(n))
<1> DEFINE f == [r \in ResultsOf(n) |-> r.id]
<1>1. IsFiniteSet(ResultsOf(n))
  BY FS_Subset DEF ResultsOf
<1>2. f \in Surjection(ResultsOf(n), IdsOf(n))
  BY DEF Surjection, IdsOf
<1> HIDE DEF f
<1>3. IsFiniteSet(IdsOf(n)) /\ Cardinality(IdsOf(n)) <= Cardinality(ResultsOf(n))
  BY <1>1, <1>2, FS_Surjection
<1> QED
  BY <1>3, FS_CardinalityType

(* The member of a finite set of numbers with at least all the others but  *)
(* itself below it is the largest: order_by("task_id")[count - 1].         *)
LEMMA InLastPlace ==
    ASSUME NEW S \in SUBSET Nat, IsFiniteSet(S), NEW k \in Nat, Cardinality(S) <= k,
           NEW i \in S, Cardinality({j \in S : j < i}) = k - 1
    PROVE  \A j \in S : j <= i
<1> SUFFICES ASSUME NEW j \in S, i < j PROVE FALSE
  OBVIOUS
<1> DEFINE below == {m \in S : m < i}
           rest  == (S \ {i}) \ {j}
<1>1. IsFiniteSet(S \ {i}) /\ Cardinality(S \ {i}) = Cardinality(S) - 1
  BY FS_RemoveElement
<1>2. IsFiniteSet(rest) /\ Cardinality(rest) = Cardinality(S \ {i}) - 1
  <2>1. j \in S \ {i}
    OBVIOUS
  <2> QED
    BY <1>1, <2>1, FS_RemoveElement
<1>3. below \subseteq rest
  OBVIOUS
<1>4. Cardinality(below) <= Cardinality(rest)
  BY <1>2, <1>3, FS_Subset
<1>5. Cardinality(S) \in Nat
  BY FS_CardinalityType
<1>6. Cardinality(below) = k - 1
  OBVIOUS
<1> HIDE DEF below, rest
<1> QED
  BY <1>1, <1>2, <1>4, <1>5, <1>6
------------------------------------------------------------------------------
LEMMA InitIds == Init => IdsInv
  BY DEF Init, IdsInv, IdsAhead, NoRequests, Quiet, PendingIds, TaskId, FinalIds,
         SnapshotIds, ResetOK, InTask, Recording, Visiting, Resetting, Unvisited

LEMMA BeginIds == IdsInv /\ Begin => IdsInv'
  BY DEF Begin, dbVars, finVars, envVars,
         IdsInv, IdsAhead, NoRequests, Quiet, PendingIds, TaskId, FinalIds,
         SnapshotIds, ResetOK, InTask, Recording, Visiting, Resetting, Unvisited

LEMMA ResetCountIds ==
    ASSUME Consistent, IdsInv, NEW n \in Names, ResetCount(n) PROVE IdsInv'
<1> USE DEF ResetCount, dbVars, finVars, envVars
<1>1. ResetOK'
  <2>1. Cardinality(IdsOf(n)) <= Cardinality(ResultsOf(n))
    BY IdsCardinality DEF Consistent
  <2>2. IdsOf(n)' = IdsOf(n)
    BY DEF IdsOf, ResultsOf
  <2> QED
    BY <2>1, <2>2 DEF ResetOK, Resetting, Consistent, ResultsHaveEntries, ResultsOf
<1> QED
  BY <1>1 DEF IdsInv, IdsAhead, NoRequests, Quiet, PendingIds, TaskId, FinalIds,
         SnapshotIds, InTask, Recording, Visiting, Resetting, Unvisited, Used, Above

LEMMA ResetIdIds == Consistent /\ IdsInv /\ ResetId => IdsInv'
<1> SUFFICES ASSUME Consistent, IdsInv, ResetId PROVE IdsInv'
  OBVIOUS
<1> USE DEF ResetId, dbVars, finVars, envVars
<1>1. pending = {} /\ fin = {} /\ rows[cur] # None /\ cur \in Names
  BY DEF IdsInv, Quiet, ResetOK, Resetting, Consistent, LocalsOK
<1>2. CASE Die
  BY <1>1, <1>2 DEF Die, IdsInv, IdsAhead, NoRequests, Quiet, PendingIds, TaskId, FinalIds,
         SnapshotIds, ResetOK, InTask, Recording, Visiting, Resetting, Unvisited
<1>3. ASSUME NEW last \in IdsInPlace(cur, count - 1),
             snap' = [snap EXCEPT ![cur].id = last + 1],
             pc' \in {"reset", "resetSave"},
             UNCHANGED <<health, todo, cur, taken, pending>>
      PROVE  IdsInv'
  <2>1. IdsOf(cur) \in SUBSET Nat /\ count \in Nat
    BY DEF Consistent, TypeOK, IdsOf, ResultsOf, Result, Id
  <2>2. IsFiniteSet(IdsOf(cur))
    BY IdsCardinality DEF Consistent
  <2>3. /\ last \in IdsOf(cur)
        /\ Cardinality({j \in IdsOf(cur) : j < last}) = count - 1
    BY <1>3 DEF IdsInPlace
  <2>4. Cardinality(IdsOf(cur)) <= count
    BY DEF IdsInv, ResetOK, Resetting
  <2>5. \A j \in IdsOf(cur) : j <= last
    BY <2>1, <2>2, <2>3, <2>4, InLastPlace
  <2>6. \A r \in results : r.name = cur => r.id < last + 1
    <3>1. \A r \in results : r.name = cur => r.id \in IdsOf(cur)
      BY DEF IdsOf, ResultsOf
    <3>2. \A j \in IdsOf(cur) : j < last + 1
      BY <2>1, <2>3, <2>5
    <3> QED
      BY <3>1, <3>2
  <2>7. snap'[cur].id = last + 1
    <3>1. snap \in [Names -> Entry \cup {None}] /\ snap[cur] \in Entry
      BY DEF Consistent, TypeOK, LocalsOK, Resetting
    <3> QED
      BY <1>1, <1>3, <3>1 DEF Entry
  <2>8. ResetOK'
    BY <1>1, <1>3, <2>6, <2>7 DEF ResetOK, Resetting
  <2> QED
    BY <1>1, <1>3, <2>8 DEF IdsInv, IdsAhead, NoRequests, Quiet, PendingIds, TaskId,
         FinalIds, SnapshotIds, InTask, Recording, Visiting, Resetting, Unvisited
<1> QED
  BY <1>2, <1>3

LEMMA ResetSaveIds == Consistent /\ IdsInv /\ ResetSave => IdsInv'
<1> SUFFICES ASSUME Consistent, IdsInv, ResetSave PROVE IdsInv'
  OBVIOUS
<1> USE DEF ResetSave, passVars, finVars, envVars
<1>1. pending = {} /\ fin = {} /\ rows[cur] # None /\ cur \in Names
  BY DEF IdsInv, Quiet, ResetOK, Resetting, Consistent, LocalsOK
<1>2. rows[cur] \in Entry /\ snap[cur].id \in Id
  BY <1>1 DEF Consistent, TypeOK, LocalsOK, Resetting, Entry, Id
<1>3. /\ rows'[cur] = [rows[cur] EXCEPT !.id = snap[cur].id]
      /\ rows'[cur] \in Entry /\ rows'[cur].id = snap[cur].id
      /\ \A n \in Names \ {cur} : rows'[n] = rows[n]
  BY <1>1, <1>2 DEF Consistent, TypeOK, Entry, Id
<1>4. \A r \in results : r.name \in Names /\ (r.name = cur => r.id < snap[cur].id)
  BY DEF IdsInv, ResetOK, Resetting, Consistent, TypeOK, Result
<1>5. IdsAhead'
  BY <1>1, <1>3, <1>4, NoneIsNoEntry DEF IdsInv, IdsAhead
<1> QED
  BY <1>1, <1>5 DEF IdsInv, NoRequests, Quiet, PendingIds, TaskId,
         FinalIds, SnapshotIds, ResetOK, InTask, Recording, Visiting, Resetting, Unvisited

LEMMA PassStepsIds ==
    IdsInv /\ (ResetDone \/ Check \/ Snapshot \/ QueueDone \/ PassDone \/ Pace \/ Idle)
        => IdsInv'
<1> SUFFICES ASSUME IdsInv,
                    ResetDone \/ Check \/ Snapshot \/ QueueDone \/ PassDone \/ Pace \/ Idle
             PROVE  IdsInv'
  OBVIOUS
<1> USE DEF IdsInv, dbVars, passVars, finVars, envVars
<1>1. /\ UNCHANGED <<rows, results, lastPk, fin, req, pending, task>>
      /\ pc' \in {"check", "idle", "snapshot", "queue", "run", "paced", "stopped"}
      /\ pc' \notin {"queue", "run"} => pending = {}
      /\ pc' = "queue" => /\ pending = {}
                          /\ todo' = ActiveNames
                          /\ snap' = [n \in Names |-> IF n \in ActiveNames THEN rows[n]
                                                      ELSE None]
  BY DEF ResetDone, Check, Snapshot, QueueDone, PassDone, Pace, Idle, Quiet, Resetting
<1>2. IdsAhead' /\ NoRequests' /\ PendingIds' /\ FinalIds'
  BY <1>1 DEF IdsAhead, NoRequests, PendingIds, FinalIds, Used, Above
<1>3. Quiet' /\ TaskId' /\ ResetOK'
  BY <1>1 DEF Quiet, Resetting, TaskId, ResetOK, InTask, Recording
<1>4. SnapshotIds'
  BY <1>1 DEF SnapshotIds, Unvisited, Visiting, ActiveNames
<1> QED
  BY <1>2, <1>3, <1>4

LEMMA TakeTimeIds ==
    ASSUME Consistent, IdsInv, NEW n \in Names, TakeTime(n) PROVE IdsInv'
<1> DEFINE e == TakeUntil(snap[n], now + 1)
<1> USE DEF TakeTime, finVars, envVars
<1>1. n \in Unvisited /\ n \in todo /\ Unvisited = todo
  BY DEF Unvisited, Visiting
<1>2. rows[n] # None /\ snap[n].id = rows[n].id
  BY <1>1 DEF IdsInv, SnapshotIds
<1>3. snap[n] \in Entry /\ rows[n] \in Entry /\ now + 1 \in Int
  BY <1>1, <1>2 DEF Consistent, LocalsOK, Resetting, TypeOK
<1>4. e \in Entry /\ e.id = snap[n].id
  BY <1>3, TakeUntilType
<1>5. /\ rows' = [rows EXCEPT ![n].next = e.next, ![n].active = e.active]
      /\ snap' = [snap EXCEPT ![n] = e] /\ todo' = todo \ {n} /\ cur' = n
      /\ pc' \in {"cancel", "assign", "queue"}
      /\ UNCHANGED <<results, lastPk, fin, req, pending, task>>
  BY <1>2
<1> HIDE DEF e, TakeTime
<1>6. [rows[n] EXCEPT !.next = e.next, !.active = e.active].id = rows[n].id
  BY <1>3 DEF Entry
<1>7. rows' = [rows EXCEPT ![n] = [rows[n] EXCEPT !.next = e.next, !.active = e.active]]
      /\ [rows[n] EXCEPT !.next = e.next, !.active = e.active] \in Entry
  BY <1>3, <1>4, <1>5 DEF Entry
<1>8. \A m \in Names : rows[m] # None => rows'[m] # None /\ rows'[m].id = rows[m].id
  BY <1>3, <1>6, <1>7, NoneIsNoEntry DEF Consistent, TypeOK
<1>9. \A m \in Names : m # n => snap'[m] = snap[m]
  BY <1>5 DEF Consistent, TypeOK
<1>10. snap'[n] = e
  BY <1>5 DEF Consistent, TypeOK
<1>11. \A i : \A m \in Names : Used(m, i) => Used(m, i)'
  BY <1>8 DEF Used
<1>12. IdsAhead' /\ NoRequests' /\ Quiet'
  BY <1>5, <1>8 DEF IdsInv, IdsAhead, NoRequests, Quiet, Resetting, Consistent, TypeOK, Result
<1>13. PendingIds'
  BY <1>5, <1>11 DEF IdsInv, PendingIds, Above, Consistent, TypeOK, Task
<1>14. FinalIds' /\ TaskId' /\ ResetOK'
  BY <1>5, <1>11 DEF IdsInv, FinalIds, TaskId, ResetOK, Resetting, InTask, Recording, Consistent,
     TypeOK, Task, Final
<1>15. SnapshotIds'
  <2>1. Unvisited' \subseteq todo /\ todo \subseteq Names
    BY <1>1, <1>5 DEF Unvisited, Visiting, Consistent, TypeOK
  <2>2. (Visiting => cur \notin todo)'
    BY <1>5 DEF Visiting
  <2>3. ASSUME NEW m \in Unvisited'
        PROVE  /\ rows'[m] # None
               /\ snap'[m].id = rows'[m].id
               /\ \A t \in pending' : t.name # m
    <3>1. m \in Unvisited /\ m \in Names
      BY <1>1, <2>1, <2>3
    <3>2. rows[m] # None /\ snap[m].id = rows[m].id /\ \A t \in pending : t.name # m
      BY <3>1 DEF IdsInv, SnapshotIds
    <3>3. snap'[m].id = snap[m].id
      BY <1>4, <1>9, <1>10, <3>1
    <3> QED
      BY <1>5, <1>8, <3>1, <3>2, <3>3
  <2> QED
    BY <2>2, <2>3 DEF SnapshotIds
<1> QED
  BY <1>12, <1>13, <1>14, <1>15 DEF IdsInv

LEMMA CancelIds == Consistent /\ IdsInv /\ Cancel => IdsInv'
<1> SUFFICES ASSUME Consistent, IdsInv, Cancel PROVE IdsInv'
  OBVIOUS
<1> USE DEF Cancel, finVars, envVars
<1>1. cur \in Unvisited /\ Unvisited = todo \cup {cur}
  BY DEF Unvisited, Visiting
<1>2. rows[cur] # None /\ snap[cur].id = rows[cur].id /\ cur \notin todo
  BY <1>1 DEF IdsInv, SnapshotIds, Visiting
<1>3. snap[cur] \in Entry /\ rows[cur] \in Entry /\ cur \in Names
  BY <1>2 DEF Consistent, LocalsOK, Resetting, Visiting, TypeOK
<1>4. /\ rows' = [rows EXCEPT ![cur].active = FALSE]
      /\ snap' = [snap EXCEPT ![cur].active = FALSE]
      /\ pc' \in {"queue", "assign"}
      /\ UNCHANGED <<todo, cur, results, lastPk, fin, req, pending, task>>
  BY <1>2
<1> HIDE DEF Cancel
<1>5. /\ [rows[cur] EXCEPT !.active = FALSE] \in Entry
      /\ [rows[cur] EXCEPT !.active = FALSE].id = rows[cur].id
      /\ [snap[cur] EXCEPT !.active = FALSE].id = snap[cur].id
  BY <1>3 DEF Entry
<1>6. \A m \in Names : rows[m] # None => rows'[m] # None /\ rows'[m].id = rows[m].id
  BY <1>3, <1>4, <1>5, NoneIsNoEntry DEF Consistent, TypeOK
<1>7. \A m \in Names : snap'[m].id = snap[m].id
  BY <1>3, <1>4, <1>5 DEF Consistent, TypeOK
<1>8. \A i : \A m \in Names : Used(m, i) => Used(m, i)'
  BY <1>6 DEF Used
<1>9. IdsAhead' /\ NoRequests' /\ Quiet'
  BY <1>4, <1>6 DEF IdsInv, IdsAhead, NoRequests, Quiet, Resetting, Consistent, TypeOK, Result
<1>10. PendingIds'
  BY <1>4, <1>8 DEF IdsInv, PendingIds, Above, Consistent, TypeOK, Task
<1>11. FinalIds' /\ TaskId' /\ ResetOK'
  BY <1>4, <1>8 DEF IdsInv, FinalIds, TaskId, ResetOK, Resetting, InTask, Recording, Consistent,
     TypeOK, Task, Final
<1>12. SnapshotIds'
  <2>1. Unvisited' \subseteq Unvisited /\ Unvisited \subseteq Names
    BY <1>1, <1>3, <1>4 DEF Unvisited, Visiting, Consistent, TypeOK
  <2>2. \A m \in Unvisited :
            rows[m] # None /\ snap[m].id = rows[m].id /\ \A t \in pending : t.name # m
    BY DEF IdsInv, SnapshotIds
  <2> QED
    BY <1>2, <1>4, <1>6, <1>7, <2>1, <2>2 DEF SnapshotIds
<1> QED
  BY <1>9, <1>10, <1>11, <1>12 DEF IdsInv

LEMMA AssignIdIds == Consistent /\ IdsInv /\ AssignId => IdsInv'
<1> SUFFICES ASSUME Consistent, IdsInv, AssignId PROVE IdsInv'
  OBVIOUS
<1> DEFINE t0 == [time |-> taken, prio |-> snap[cur].prio, name |-> cur,
   id |-> snap[cur].id]
<1> USE DEF AssignId, finVars, envVars
<1>1. cur \in Unvisited /\ Unvisited = todo \cup {cur}
  BY DEF Unvisited, Visiting
<1>2. /\ rows[cur] # None /\ snap[cur].id = rows[cur].id /\ cur \notin todo
      /\ \A t \in pending : t.name # cur
  BY <1>1 DEF IdsInv, SnapshotIds, Visiting
<1>3. snap[cur] \in Entry /\ rows[cur] \in Entry /\ cur \in Names
  BY <1>2 DEF Consistent, LocalsOK, Resetting, Visiting, TypeOK
<1>4. /\ rows' = [rows EXCEPT ![cur].id = snap[cur].id + 1]
      /\ snap' = [snap EXCEPT ![cur].id = @ + 1]
      /\ pending' = pending \cup {t0}
      /\ pc' = "queue"
      /\ UNCHANGED <<todo, cur, results, lastPk, fin, req, task>>
  BY <1>2
<1>5. t0.name = cur /\ t0.id = rows[cur].id /\ rows[cur].id \in Nat
  BY <1>2, <1>3 DEF Entry
<1> HIDE DEF AssignId, t0
<1>6. /\ [rows[cur] EXCEPT !.id = snap[cur].id + 1] \in Entry
      /\ [rows[cur] EXCEPT !.id = snap[cur].id + 1].id = rows[cur].id + 1
  BY <1>2, <1>3 DEF Entry
<1>7. \A m \in Names : rows[m] # None => rows'[m] # None
  BY <1>3, <1>4, <1>6, NoneIsNoEntry DEF Consistent, TypeOK
<1>8. /\ rows'[cur].id = rows[cur].id + 1
      /\ \A m \in Names : m # cur => rows'[m] = rows[m] /\ snap'[m] = snap[m]
  BY <1>3, <1>4, <1>6 DEF Consistent, TypeOK
<1>9. \A m \in Names, i \in Nat : Used(m, i) => Used(m, i)'
  BY <1>5, <1>7, <1>8 DEF Used
<1>10. IdsAhead' /\ NoRequests' /\ Quiet'
  BY <1>4, <1>5, <1>7, <1>8 DEF IdsInv, IdsAhead, NoRequests, Quiet, Resetting, Consistent, TypeOK,
     Result, Id
<1>11. PendingIds'
  <2>1. \A n, i : Above(n, i) => Above(n, i)'
    BY <1>4 DEF Above
  <2>2. ASSUME NEW t \in pending
        PROVE  Used(t.name, t.id)' /\ Above(t.name, t.id)'
    BY <1>9, <2>1 DEF IdsInv, PendingIds, Consistent, TypeOK, Task, Id
  <2>3. ASSUME NEW t, t = t0
        PROVE  Used(t.name, t.id)' /\ Above(t.name, t.id)'
    <3>1. t.name = cur /\ t.id = rows[cur].id
      BY <1>5, <2>3
    <3>2. Used(t.name, t.id)'
      BY <1>3, <1>5, <1>7, <1>8, <3>1 DEF Used
    <3>3. Above(t.name, t.id)
      BY <3>1 DEF IdsInv, IdsAhead, FinalIds, Used, Above
    <3> QED
      BY <2>1, <3>2, <3>3
  <2>4. \A t \in pending' : Used(t.name, t.id)' /\ Above(t.name, t.id)'
    BY <1>4, <2>2, <2>3
  <2>5. \A s, t \in pending' : s.name = t.name => s = t
    BY <1>2, <1>4, <1>5 DEF IdsInv, PendingIds
  <2> QED
    BY <2>4, <2>5 DEF PendingIds
<1>12. FinalIds' /\ TaskId' /\ ResetOK'
  BY <1>4, <1>9 DEF IdsInv, FinalIds, TaskId, ResetOK, Resetting, InTask, Recording, Consistent,
     TypeOK, Task,
     Final, Id
<1>13. SnapshotIds'
  BY <1>1, <1>2, <1>4, <1>5, <1>8 DEF IdsInv, SnapshotIds, Unvisited, Visiting, Consistent,
     TypeOK
<1> QED
  BY <1>10, <1>11, <1>12, <1>13 DEF IdsInv
------------------------------------------------------------------------------
LEMMA StartTaskIds ==
    ASSUME Consistent, IdsInv, NEW t \in pending, StartTask(t) PROVE IdsInv'
<1> USE DEF StartTask, dbVars, passVars, finVars, envVars
<1>1. rows[t.name] # None /\ Used(t.name, t.id) /\ Above(t.name, t.id)
  BY DEF IdsInv, PendingIds, Used
<1>2. /\ task' = t /\ pending' = pending \ {t} /\ pc' = "query"
      /\ UNCHANGED <<rows, results, lastPk, fin, req>>
  BY <1>1
<1> HIDE DEF StartTask
<1>3. IdsAhead' /\ NoRequests' /\ Quiet' /\ FinalIds' /\ ResetOK'
  BY <1>2 DEF IdsInv, IdsAhead, NoRequests, Quiet, Resetting, FinalIds, ResetOK, Used
<1>4. \A n, i : /\ Used(n, i) => Used(n, i)'
                /\ Above(n, i) => Above(n, i)'
  BY <1>2 DEF Used, Above
<1>5. PendingIds'
  BY <1>2, <1>4 DEF IdsInv, PendingIds
<1>6. TaskId'
  <2>1. \A s \in pending' : s.name # t.name
    BY <1>2 DEF IdsInv, PendingIds
  <2>2. \A f \in fin : f.task.name = t.name => f.task.id < t.id
    BY <1>1 DEF Above
  <2> QED
    BY <1>1, <1>2, <1>4, <2>1, <2>2 DEF TaskId, InTask, Recording
<1>7. SnapshotIds'
  BY <1>2 DEF SnapshotIds, Unvisited, Visiting
<1> QED
  BY <1>3, <1>5, <1>6, <1>7 DEF IdsInv

(* Dying leaves the ids that are in use in use. *)
LEMMA DieIds ==
    ASSUME IdsInv, Die, results' \subseteq results, fin' \subseteq fin,
           UNCHANGED <<rows, lastPk, req>>
    PROVE  IdsInv'
  BY DEF Die, IdsInv, IdsAhead, NoRequests, Quiet, PendingIds, TaskId, FinalIds,
     SnapshotIds,
         ResetOK, InTask, Recording, Visiting, Resetting, Unvisited, Used

(* A new result can always be inserted: its entry exists and its id is     *)
(* above those of the other results.                                       *)
LEMMA InsertIds ==
    ASSUME Consistent, IdsInv, Recording, Insert,
           UNCHANGED <<rows, fin, req, task>>
    PROVE  IdsInv' /\ pc' = "call"
<1> DEFINE new == [name |-> task.name, id |-> task.id,
                   pk |-> lastPk + 1, status |-> "in-progress"]
<1>1. /\ task \in Task
      /\ Used(task.name, task.id) /\ Above(task.name, task.id)
      /\ \A t \in pending : t.name # task.name
  BY DEF Consistent, LocalsOK, Resetting, InTask, IdsInv, TaskId
<1>2. rows[task.name] # None /\ \A r \in results : r.name = task.name => r.id < task.id
  BY <1>1 DEF Used, Above
<1>3. task.id \in Nat /\ \A r \in results : r.id \in Nat
  BY <1>1 DEF Task, Id, Consistent, TypeOK, Result
<1>4. /\ lastPk' = lastPk + 1
      /\ results' = results \cup {new}
      /\ pc' = "call"
      /\ UNCHANGED <<health, passVars, pending>>
  BY <1>2, <1>3 DEF Insert, IdsOf, ResultsOf
<1>5. UNCHANGED <<rows, fin, req, pending, task, snap, todo, cur, count>>
  BY <1>4 DEF passVars
<1>6. new.name = task.name /\ new.id = task.id /\ new.pk = lastPk'
  BY <1>4
<1> HIDE DEF new
<1>7. \A r \in results' : r \in results \/ r = new
  BY <1>4
<1>8. IdsAhead'
  BY <1>1, <1>5, <1>6, <1>7 DEF IdsInv, IdsAhead, Used
<1>9. NoRequests' /\ Quiet' /\ ResetOK' /\ SnapshotIds'
  BY <1>4, <1>5 DEF IdsInv, NoRequests, Quiet, Resetting, ResetOK, SnapshotIds, Unvisited, Visiting
<1>10. PendingIds'
  BY <1>1, <1>5, <1>6, <1>7 DEF IdsInv, PendingIds, Used, Above
<1>11. TaskId'
  BY <1>1, <1>2, <1>4, <1>5, <1>6, <1>7 DEF IdsInv, TaskId, InTask, Recording, Used
<1>12. FinalIds'
  <2>1. \A f \in fin : f.task.name = task.name => f.task.id < task.id
    BY <1>1 DEF Above
  <2>2. \A f \in fin : f.task.id \in Nat
    BY DEF Consistent, TypeOK, Final, Task, Id
  <2>3. \A f \in fin : ~(new.name = f.task.name /\ new.id = f.task.id)
    BY <1>3, <1>6, <2>1, <2>2
  <2> QED
    BY <1>5, <1>7, <2>3 DEF IdsInv, FinalIds, Used
<1> QED
  BY <1>4, <1>8, <1>9, <1>10, <1>11, <1>12 DEF IdsInv

(* A step within the save of a new result, which may remove others.        *)
LEMMA RecordingIds ==
    ASSUME IdsInv, Recording, pc' \in {"first", "clean", "create"},
           results' \subseteq results,
           UNCHANGED <<rows, lastPk, fin, req, pending, task, snap, todo, cur, count>>
    PROVE  IdsInv'
<1>1. \A n, i : /\ Used(n, i) => Used(n, i)'
                /\ Above(n, i) => Above(n, i)'
  BY DEF Used, Above
<1>2. IdsAhead' /\ NoRequests' /\ Quiet' /\ SnapshotIds' /\ ResetOK'
  BY DEF IdsInv, IdsAhead, NoRequests, Quiet, Resetting, SnapshotIds, ResetOK, Unvisited, Visiting
<1>3. PendingIds' /\ FinalIds' /\ TaskId'
  BY <1>1 DEF IdsInv, PendingIds, FinalIds, TaskId, InTask, Recording
<1> QED
  BY <1>2, <1>3 DEF IdsInv

LEMMA CreateResultIds ==
    Consistent /\ IdsInv /\ (CountResults \/ FirstResult \/ CleanUp \/ CreateResult)
        => IdsInv' /\ (pc' = "dead" => RowVanished)
<1> SUFFICES ASSUME Consistent, IdsInv,
                    CountResults \/ FirstResult \/ CleanUp \/ CreateResult
             PROVE  IdsInv' /\ (pc' = "dead" => RowVanished)
  OBVIOUS
<1> USE DEF finVars, envVars, passVars
<1>1. CASE CountResults
  BY <1>1, InsertIds, RecordingIds DEF CountResults, Recording
<1>2. CASE FirstResult
  <2>1. CASE ResultsOf(task.name) = {}
    BY <1>2, <2>1, DieIds DEF FirstResult, RowVanished
  <2>2. CASE ResultsOf(task.name) # {}
    BY <1>2, <2>2, InsertIds, RecordingIds DEF FirstResult, Recording
  <2> QED
    BY <2>1, <2>2
<1>3. CASE CleanUp
  <2>1. CASE Vanished(oldest) /\ Die /\ UNCHANGED results
    BY <1>3, <2>1, DieIds DEF CleanUp, RowVanished
  <2>2. CASE /\ \E r \in Oldest(task.name) : results' = results \ {r}
             /\ pc' = "create"
             /\ UNCHANGED <<health, passVars, pending>>
    BY <1>3, <2>2, RecordingIds DEF CleanUp, Recording
  <2> QED
    BY <1>3, <2>1, <2>2 DEF CleanUp
<1>4. CASE CreateResult
  BY <1>4, InsertIds DEF CreateResult, Recording
<1> QED
  BY <1>1, <1>2, <1>3, <1>4

LEMMA CallActionIds == IdsInv /\ CallAction => IdsInv' /\ pc' = "acting"
<1> SUFFICES ASSUME IdsInv, CallAction PROVE IdsInv' /\ pc' = "acting"
  OBVIOUS
<1>1. rows[task.name] # None /\ pc = "call"
  BY DEF CallAction, IdsInv, TaskId, InTask, Recording, Used
<1>2. /\ pc' = "acting"
      /\ UNCHANGED <<rows, results, lastPk, fin, req, pending, task,
                     snap, todo, cur, count>>
  BY <1>1 DEF CallAction, dbVars, passVars, finVars, envVars
<1>3. IdsAhead' /\ NoRequests' /\ Quiet' /\ FinalIds' /\ ResetOK' /\ SnapshotIds'
  BY <1>2 DEF IdsInv, IdsAhead, NoRequests, Quiet, Resetting, FinalIds, ResetOK, Used, SnapshotIds,
     Unvisited, Visiting
<1>4. PendingIds'
  BY <1>2 DEF IdsInv, PendingIds, Used, Above
<1>5. TaskId'
  BY <1>1, <1>2 DEF IdsInv, TaskId, InTask, Recording, Used, Above
<1> QED
  BY <1>2, <1>3, <1>4, <1>5 DEF IdsInv

LEMMA ReturnActionIds ==
    ASSUME Consistent, IdsInv, NEW o \in Outcomes, ReturnAction(o) PROVE IdsInv'
<1> DEFINE f0 == NewFinal(o)
<1>1. /\ pc = "acting" /\ pc' \in {"run", "finalizing"}
      /\ fin' = fin \cup {f0}
      /\ UNCHANGED <<rows, results, lastPk, req, pending, task, snap, todo, cur, count>>
  BY DEF ReturnAction, dbVars, passVars, envVars
<1>2. f0.task = task /\ f0.pk = lastPk
  BY DEF NewFinal
<1> HIDE DEF f0
<1>3. /\ task \in Task /\ \A f \in fin : f.task \in Task
      /\ \A r \in results : r.id \in Nat
  BY <1>1 DEF Consistent, LocalsOK, Resetting, InTask, Recording, TypeOK, Final, Result, Id
<1>4. /\ Used(task.name, task.id)
      /\ \A t \in pending : t.name # task.name
      /\ \A f \in fin : f.task.name = task.name => f.task.id < task.id
      /\ \A r \in results : r.name = task.name =>
             r.id < task.id \/ (r.id = task.id /\ r.pk = lastPk)
  BY <1>1 DEF IdsInv, TaskId, InTask, Recording
<1>5. IdsAhead' /\ NoRequests' /\ Quiet' /\ TaskId' /\ ResetOK' /\ SnapshotIds'
  BY <1>1 DEF IdsInv, IdsAhead, NoRequests, Quiet, Resetting, TaskId, InTask, Recording, ResetOK,
     SnapshotIds,
     Unvisited, Visiting
<1>6. PendingIds'
  BY <1>1, <1>2, <1>4 DEF IdsInv, PendingIds, Used, Above
<1>7. FinalIds'
  <2>1. \A f \in fin' : Used(f.task.name, f.task.id)'
    BY <1>1, <1>2, <1>4 DEF IdsInv, FinalIds, Used
  <2>2. \A f \in fin', r \in results' :
            r.name = f.task.name /\ r.id = f.task.id => r.pk = f.pk
    BY <1>1, <1>2, <1>3, <1>4 DEF IdsInv, FinalIds, Task, Id
  <2>3. \A f, g \in fin' :
            f.task.name = g.task.name /\ f.task.id = g.task.id => f.pk = g.pk
    BY <1>1, <1>2, <1>3, <1>4 DEF IdsInv, FinalIds, Task, Id
  <2> QED
    BY <2>1, <2>2, <2>3 DEF FinalIds
<1> QED
  BY <1>5, <1>6, <1>7 DEF IdsInv
------------------------------------------------------------------------------
(* Whatever a finalizer does to the results is under ids already used.     *)
LEMMA FinalizerStepIds ==
    ASSUME Consistent, IdsInv, NEW f \in fin,
           \A h \in fin' : \E g \in fin : h.task = g.task /\ h.pk = g.pk,
           \A r \in results' : \/ r \in results
                               \/ r.name = f.task.name /\ r.id = f.task.id /\ r.pk = f.pk,
           pc' \in {pc, "run"},
           UNCHANGED <<rows, lastPk, req, pending, task, snap, todo, cur, count>>
    PROVE  IdsInv'
<1>1. f.task \in Task /\ Used(f.task.name, f.task.id)
  BY DEF Consistent, TypeOK, Final, IdsInv, FinalIds
<1>2. ~Resetting /\ pc \notin {"start", "reset"}
  BY DEF IdsInv, Quiet, Resetting
<1>3. IdsAhead' /\ NoRequests' /\ ResetOK'
  BY <1>1, <1>2 DEF IdsInv, IdsAhead, NoRequests, ResetOK, Resetting, Used
<1>4. Quiet' /\ SnapshotIds'
  BY <1>2 DEF IdsInv, Quiet, Resetting, SnapshotIds, Unvisited, Visiting
<1>5. \A n, i : /\ Used(n, i) => Used(n, i)'
                /\ Above(n, i) => Above(n, i)'
  BY DEF Used, Above
<1>6. PendingIds'
  BY <1>5 DEF IdsInv, PendingIds
<1>7. TaskId'
  <2>1. CASE ~InTask'
    BY <2>1 DEF TaskId, InTask, Recording
  <2>2. CASE InTask /\ pc' = pc
    <3>1. \A h \in fin' : h.task.name = task.name => h.task.id < task.id
      BY <2>2 DEF IdsInv, TaskId
    <3>2. Used(task.name, task.id)' /\ (Recording' => Above(task.name, task.id)')
      BY <2>2 DEF IdsInv, TaskId, Recording, Used, Above
    <3>3. f.task.name = task.name => f.task.id < task.id
      BY <2>2 DEF IdsInv, TaskId
    <3> QED
      BY <2>2, <3>1, <3>2, <3>3 DEF IdsInv, TaskId, InTask, Recording
  <2> QED
    BY <2>1, <2>2 DEF InTask, Recording
<1>8. FinalIds'
  BY <1>5 DEF IdsInv, FinalIds
<1> QED
  BY <1>3, <1>4, <1>6, <1>7, <1>8 DEF IdsInv

LEMMA GoesIds ==
    ASSUME Consistent, NEW f \in fin, NEW phase, NEW step, NEW pk, Goes(f, phase, step, pk)
    PROVE  \A h \in fin' : \E g \in fin : h.task = g.task /\ h.pk = g.pk
<1> DEFINE g == [f EXCEPT !.phase = phase, !.step = step, !.oldest = pk]
<1>1. f \in Final
  BY DEF Consistent, TypeOK
<1>2. g.task = f.task /\ g.pk = f.pk
  BY <1>1 DEF Final
<1>3. fin' = (fin \ {f}) \cup {g}
  BY DEF Goes
<1> HIDE DEF g
<1> QED
  BY <1>2, <1>3

LEMMA FinalizerFailsIds ==
    ASSUME Consistent, IdsInv, NEW f \in fin, FinalizerFails(f), UNCHANGED results,
           UNCHANGED <<rows, lastPk, task, req>>
    PROVE  IdsInv' /\ (pc' = "dead" /\ pc # "dead" => ~async)
<1>1. CASE UNCHANGED <<pc, health, passVars, pending>>
  <2>1. \A h \in fin' : \E g \in fin : h.task = g.task /\ h.pk = g.pk
    BY GoesIds DEF FinalizerFails
  <2> QED
    BY <1>1, <2>1, FinalizerStepIds DEF passVars
<1>2. CASE ~async /\ Die /\ fin' = fin \ {f}
  BY <1>2, DieIds
<1> QED
  BY <1>1, <1>2 DEF FinalizerFails

(* A finalizer can always write its result: its entry exists and no other  *)
(* result has its id.                                                      *)
LEMMA WriteIds ==
    ASSUME Consistent, IdsInv, NEW f \in fin, Write(f),
           UNCHANGED <<rows, lastPk, task, req>>
    PROVE  IdsInv' /\ pc' = pc
<1>1. rows[f.task.name] # None
  BY DEF IdsInv, FinalIds, Used
<1>2. CanSave(f)
  BY <1>1 DEF CanSave, Vanished, IdsOf, ResultsOf, IdsInv, FinalIds
<1>3. /\ \E status : results' = Saved(f, status)
      /\ Goes(f, PhaseAfter(f), "query", None)
      /\ UNCHANGED <<pc, health, passVars, pending>>
  BY <1>2 DEF Write
<1>4. \A h \in fin' : \E g \in fin : h.task = g.task /\ h.pk = g.pk
  BY <1>3, GoesIds
<1>5. \A r \in results' : \/ r \in results
                          \/ r.name = f.task.name /\ r.id = f.task.id /\ r.pk = f.pk
  BY <1>3 DEF Saved
<1>6. UNCHANGED <<rows, lastPk, req, pending, task, snap, todo, cur, count, pc>>
  BY <1>3 DEF passVars
<1> QED
  BY <1>4, <1>5, <1>6, FinalizerStepIds

LEMMA SaveIds ==
    ASSUME Consistent, IdsInv, NEW f \in fin,
           SaveCount(f) \/ SaveFirst(f) \/ SaveClean(f) \/ SaveWrite(f)
    PROVE  IdsInv' /\ (pc' = "dead" /\ pc # "dead" => RowVanished)
<1>1. /\ UNCHANGED <<rows, lastPk, task, req>>
      /\ \/ Write(f)
         \/ /\ FinalizerFails(f) /\ UNCHANGED results
            /\ \/ f.step = "first" /\ ResultsOf(f.task.name) = {}
               \/ f.step = "clean" /\ Vanished(f.oldest)
         \/ /\ \E step, pk : Goes(f, f.phase, step, pk)
            /\ results' \subseteq results
            /\ UNCHANGED <<pc, health, passVars, pending>>
  <2>1. CASE SaveCount(f)
    BY <2>1 DEF SaveCount, envVars
  <2>2. CASE SaveFirst(f)
    BY <2>2 DEF SaveFirst, Saving, envVars
  <2>3. CASE SaveClean(f)
    BY <2>3 DEF SaveClean, Saving, envVars
  <2>4. CASE SaveWrite(f)
    BY <2>4 DEF SaveWrite, envVars
  <2> QED
    BY <2>1, <2>2, <2>3, <2>4
<1>2. CASE Write(f)
  BY <1>1, <1>2, WriteIds
<1>3. CASE /\ FinalizerFails(f) /\ UNCHANGED results
           /\ \/ f.step = "first" /\ ResultsOf(f.task.name) = {}
              \/ f.step = "clean" /\ Vanished(f.oldest)
  BY <1>1, <1>3, FinalizerFailsIds DEF RowVanished
<1>4. CASE /\ \E step, pk : Goes(f, f.phase, step, pk)
           /\ results' \subseteq results
           /\ UNCHANGED <<pc, health, passVars, pending>>
  <2>1. \A h \in fin' : \E g \in fin : h.task = g.task /\ h.pk = g.pk
    BY <1>4, GoesIds
  <2> QED
    BY <1>1, <1>4, <2>1, FinalizerStepIds DEF passVars
<1> QED
  BY <1>1, <1>2, <1>3, <1>4

LEMMA FinalizerIds ==
    Consistent /\ IdsInv /\ Finalizer
        => IdsInv' /\ (pc' = "dead" /\ pc # "dead" => RowVanished)
<1> SUFFICES ASSUME Consistent, IdsInv, Finalizer
             PROVE  IdsInv' /\ (pc' = "dead" /\ pc # "dead" => RowVanished)
  OBVIOUS
<1>1. PICK f \in fin : \/ SaveCount(f) \/ SaveFirst(f) \/ SaveClean(f) \/ SaveWrite(f)
                       \/ Callback(f) \/ Count(f) \/ StopThread(f)
  BY DEF Finalizer
<1>2. CASE SaveCount(f) \/ SaveFirst(f) \/ SaveClean(f) \/ SaveWrite(f)
  BY <1>2, SaveIds
<1>3. CASE Callback(f) \/ Count(f) \/ StopThread(f)
  <2>1. \A h \in fin' : \E g \in fin : h.task = g.task /\ h.pk = g.pk
    BY <1>3, GoesIds DEF Callback, Count, StopThread, FinalizerEnds
  <2>2. /\ UNCHANGED <<rows, results, lastPk, req, pending, task, snap, todo, cur, count>>
        /\ pc' \in {pc, "run"}
    BY <1>3 DEF Callback, Count, StopThread, FinalizerEnds, dbVars, threadVars, passVars,
                envVars
  <2> QED
    BY <2>1, <2>2, FinalizerStepIds
<1> QED
  BY <1>1, <1>2, <1>3
------------------------------------------------------------------------------
LEMMA CreateEntryIds ==
    ASSUME Consistent, IdsInv, NEW n \in Names, NEW t \in Templates, CreateEntry(n, t)
    PROVE  IdsInv'
<1> DEFINE e == NewEntry(now + t.delay, t.span, t.interval, t.prio)
<1>1. /\ rows[n] = None /\ rows' = [rows EXCEPT ![n] = e]
      /\ UNCHANGED <<results, lastPk, pc, fin, req, pending, task, snap, todo, cur, count>>
  BY DEF CreateEntry, threadVars, passVars, finVars
<1> HIDE DEF e
<1>2. \A m \in Names : rows[m] # None => rows'[m] = rows[m]
  BY <1>1 DEF Consistent, TypeOK
<1>3. /\ \A r \in results : r.name \in Names
      /\ \A s \in pending : s.name \in Names
      /\ \A f \in fin : f.task.name \in Names
      /\ InTask => task.name \in Names
      /\ Unvisited \subseteq Names
  BY DEF Consistent, TypeOK, Result, Task, Final, LocalsOK, Resetting, InTask, Recording, Unvisited,
     Visiting
<1>4. \A i : \A m \in Names : Used(m, i) => Used(m, i)'
  BY <1>2 DEF Used
<1>5. \A m, i : Above(m, i) => Above(m, i)'
  BY <1>1 DEF Above
<1>6. IdsAhead' /\ NoRequests' /\ Quiet' /\ ResetOK'
  BY <1>1, <1>2, <1>3 DEF IdsInv, IdsAhead, NoRequests, Quiet, Resetting, ResetOK, IdsOf, ResultsOf
<1>7. PendingIds' /\ FinalIds' /\ TaskId'
  BY <1>1, <1>3, <1>4, <1>5 DEF IdsInv, PendingIds, FinalIds, TaskId, InTask, Recording
<1>8. SnapshotIds'
  BY <1>1, <1>2, <1>3 DEF IdsInv, SnapshotIds, Unvisited, Visiting
<1> QED
  BY <1>6, <1>7, <1>8 DEF IdsInv

LEMMA DeleteResultsIds ==
    ASSUME Consistent, IdsInv, NEW gone, DeleteResults(gone) PROVE IdsInv'
<1>1. /\ results' \subseteq results
      /\ UNCHANGED <<rows, lastPk, pc, fin, req, pending, task, snap, todo, cur, count>>
  BY DEF DeleteResults, threadVars, passVars, finVars
<1>2. ResetOK'
  <2>1. IdsOf(cur)' \subseteq IdsOf(cur)
    BY <1>1 DEF IdsOf, ResultsOf
  <2>2. IsFiniteSet(IdsOf(cur)) /\ Cardinality(IdsOf(cur)) \in Nat
    BY IdsCardinality DEF Consistent
  <2>3. /\ Cardinality(IdsOf(cur)') <= Cardinality(IdsOf(cur))
        /\ Cardinality(IdsOf(cur)') \in Nat
    BY <2>1, <2>2, FS_Subset, FS_CardinalityType
  <2>4. count \in Nat
    BY DEF Consistent, TypeOK
  <2>5. pc = "resetId" => Cardinality(IdsOf(cur)) <= count
    BY DEF IdsInv, ResetOK, Resetting
  <2>6. pc = "resetId" => Cardinality(IdsOf(cur)') <= count
    BY <2>2, <2>3, <2>4, <2>5
  <2>7. /\ Resetting => rows[cur] # None
        /\ pc = "resetSave" => \A r \in results : r.name = cur => r.id < snap[cur].id
    BY DEF IdsInv, ResetOK
  <2> QED
    BY <1>1, <2>6, <2>7 DEF ResetOK, Resetting
<1>3. \A n, i : /\ Used(n, i) => Used(n, i)'
                /\ Above(n, i) => Above(n, i)'
  BY <1>1 DEF Used, Above
<1>4. IdsAhead' /\ NoRequests' /\ Quiet' /\ SnapshotIds'
  BY <1>1 DEF IdsInv, IdsAhead, NoRequests, Quiet, Resetting, SnapshotIds, Unvisited, Visiting
<1>5. PendingIds' /\ FinalIds' /\ TaskId'
  BY <1>1, <1>3 DEF IdsInv, PendingIds, FinalIds, TaskId, InTask, Recording
<1> QED
  BY <1>2, <1>4, <1>5 DEF IdsInv

(* Steps that leave the tables, the queue and the finalizers alone.        *)
LEMMA ElsewhereIds ==
    ASSUME IdsInv,
           UNCHANGED <<rows, results, lastPk, pc, fin, req, pending, task, snap, todo,
                       cur, count>>
    PROVE  IdsInv'
  BY DEF IdsInv, IdsAhead, NoRequests, Quiet, PendingIds, TaskId, FinalIds, SnapshotIds,
         ResetOK, InTask, Recording, Visiting, Resetting, Unvisited, Used, Above, IdsOf, ResultsOf

LEMMA RebootIds == IdsInv /\ Reboot => IdsInv'
  BY DEF Reboot, dbVars, IdsInv, IdsAhead, NoRequests, Quiet, PendingIds, TaskId, FinalIds,
         SnapshotIds, ResetOK, InTask, Recording, Visiting, Resetting, Unvisited

LEMMA ApiIds == NoEdits /\ Consistent /\ IdsInv /\ Api => IdsInv' /\ pc' = pc
<1> SUFFICES ASSUME NoEdits, Consistent, IdsInv, Api PROVE IdsInv' /\ pc' = pc
  OBVIOUS
<1>1. CASE \E n \in Names, t \in Templates : CreateEntry(n, t)
  BY <1>1, CreateEntryIds DEF CreateEntry, threadVars
<1>2. CASE \E c \in Clients, n \in Names, p \in Patches : LoadForUpdate(c, n, p)
  BY <1>2 DEF LoadForUpdate, ApiOp, NoEdits
<1>3. CASE \E c \in Clients : SaveUpdate(c)
  BY <1>3 DEF SaveUpdate, IdsInv, NoRequests
<1>4. CASE \E n \in Names : DeleteEntry(n)
  BY <1>4 DEF DeleteEntry, ApiOp, NoEdits
<1>5. CASE \E gone : DeleteResults(gone)
  BY <1>5, DeleteResultsIds DEF DeleteResults, threadVars
<1>6. CASE Stop
  BY <1>6, ElsewhereIds DEF Stop, dbVars, threadVars, passVars, finVars
<1> QED
  BY <1>1, <1>2, <1>3, <1>4, <1>5, <1>6 DEF Api

LEMMA ThreadIds ==
    Consistent /\ IdsInv /\ Thread => IdsInv' /\ (pc' = "dead" => RowVanished)
<1> SUFFICES ASSUME Consistent, IdsInv, Thread
             PROVE  IdsInv' /\ (pc' = "dead" => RowVanished)
  OBVIOUS
<1>1. CASE Begin
  BY <1>1, BeginIds DEF Begin
<1>2. CASE ResetId \/ ResetSave
  <2>1. ResetSave => rows[cur] # None
    BY DEF ResetSave, IdsInv, ResetOK, Resetting
  <2> QED
    BY <1>2, <2>1, ResetIdIds, ResetSaveIds DEF ResetId, ResetSave, RowVanished
<1>3. CASE ResetDone \/ Check \/ Snapshot \/ QueueDone \/ PassDone \/ Pace \/ Idle
  BY <1>3, PassStepsIds DEF ResetDone, Check, Snapshot, QueueDone, PassDone, Pace, Idle
<1>4. CASE Cancel
  <2>1. rows[cur] # None
    BY <1>4 DEF Cancel, IdsInv, SnapshotIds, Unvisited, Visiting
  <2> QED
    BY <1>4, <2>1, CancelIds DEF Cancel
<1>5. CASE AssignId
  <2>1. rows[cur] # None
    BY <1>5 DEF AssignId, IdsInv, SnapshotIds, Unvisited, Visiting
  <2> QED
    BY <1>5, <2>1, AssignIdIds DEF AssignId
<1>6. CASE CountResults \/ FirstResult \/ CleanUp \/ CreateResult
  BY <1>6, CreateResultIds
<1>7. CASE CallAction
  BY <1>7, CallActionIds
<1>8. CASE \E n \in Names : ResetCount(n)
  BY <1>8, ResetCountIds DEF ResetCount
<1>9. ASSUME NEW n \in Names, TakeTime(n)
      PROVE  IdsInv' /\ pc' # "dead"
  <2>1. rows[n] # None
    BY <1>9 DEF TakeTime, IdsInv, SnapshotIds, Unvisited, Visiting
  <2> QED
    BY <1>9, <2>1, TakeTimeIds DEF TakeTime
<1>10. ASSUME NEW t \in pending, StartTask(t)
       PROVE  IdsInv' /\ pc' # "dead"
  <2>1. rows[t.name] # None
    BY DEF IdsInv, PendingIds, Used
  <2> QED
    BY <1>10, <2>1, StartTaskIds DEF StartTask
<1>11. CASE \E o \in Outcomes : ReturnAction(o)
  BY <1>11, ReturnActionIds DEF ReturnAction
<1> QED
  BY <1>1, <1>2, <1>3, <1>4, <1>5, <1>6, <1>7, <1>8, <1>9, <1>10, <1>11 DEF Thread

LEMMA NextIds ==
    NoEdits /\ Consistent /\ IdsInv /\ [Next]_vars
        => IdsInv' /\ (pc' = "dead" /\ pc # "dead" => RowVanished)
<1> SUFFICES ASSUME NoEdits, Consistent, IdsInv, [Next]_vars
             PROVE  IdsInv' /\ (pc' = "dead" /\ pc # "dead" => RowVanished)
  OBVIOUS
<1>1. CASE Thread
  BY <1>1, ThreadIds
<1>2. CASE Finalizer
  BY <1>2, FinalizerIds
<1>3. CASE Api
  BY <1>3, ApiIds
<1>4. CASE Restart \/ Crash
  BY <1>4, RebootIds DEF Restart, Crash, Reboot
<1>5. CASE Tick
  BY <1>5, ElsewhereIds DEF Tick, dbVars, passVars, finVars, envVars
<1>6. CASE UNCHANGED vars
  BY <1>6, ElsewhereIds DEF vars, dbVars, threadVars, passVars, finVars, envVars
<1> QED
  BY <1>1, <1>2, <1>3, <1>4, <1>5, <1>6 DEF Next

(* Without edits of entries, the next id of an entry is above those of its *)
(* results, whatever results are deleted, by users or by a full disk,      *)
(* however often the process crashes and recomputes the ids, and however   *)
(* many finalizers save late (schedule_entry.py, get_next_task_id;         *)
(* scheduler.py, reset_next_task_id).                                      *)
THEOREM IdsStayAhead ==
    ASSUME NoEdits PROVE Spec => []IdsAhead
<1>1. Init => IdsInv
  BY InitIds
<1>2. Consistent /\ IdsInv /\ [Next]_vars => IdsInv'
  BY NextIds
<1>3. IdsInv => IdsAhead
  BY DEF IdsInv
<1> QED
  BY <1>1, <1>2, <1>3, AlwaysConsistent, PTL DEF Spec

(* Without edits of entries, nothing kills the thread but a deletion of    *)
(* results between two queries of reset_next_task_id or of a save: no      *)
(* queueing or running of a task and no write of a result raises           *)
(* (scheduler.py, run and its exception handler; task_result.py, save).    *)
THEOREM DeathOnlyOfVanishedRows ==
    ASSUME NoEdits PROVE Spec => DiesOnlyOfVanishedRows
<1>1. Init => IdsInv
  BY InitIds
<1>2. Consistent /\ IdsInv /\ [Next]_vars => IdsInv'
  BY NextIds
<1>3. Consistent /\ IdsInv /\ [Next]_vars
          => [pc' = "dead" /\ pc # "dead" => RowVanished]_vars
  BY NextIds
<1> QED
  BY <1>1, <1>2, <1>3, AlwaysConsistent, PTL DEF Spec, DiesOnlyOfVanishedRows
------------------------------------------------------------------------------
(* How a task leaves the queue. *)
Leaves ==
    \A t \in pending \ pending' :
        (pc' = "query" /\ task' = t) \/ pc' = "start" \/ RowVanished

LEMMA NextLeaves ==
    ASSUME NoEdits, Consistent, IdsInv, [Next]_vars PROVE Leaves
<1>1. \/ pending \subseteq pending'
      \/ \E t \in pending : pending' = pending \ {t} /\ task' = t /\ pc' = "query"
      \/ pc' = "start"
      \/ pc' = "dead"
  <2>1. CASE \E t \in pending : StartTask(t)
    BY <2>1 DEF StartTask, Die
  <2>2. CASE Thread /\ ~\E t \in pending : StartTask(t)
    BY <2>2 DEF Thread, Begin, ResetId, ResetSave, ResetDone, Check, Snapshot, Cancel, AssignId,
           QueueDone, CountResults, FirstResult, CleanUp, CreateResult, Insert, CallAction,
           PassDone, Pace, Idle, ResetCount, TakeTime, ReturnAction, Die
  <2>3. CASE Finalizer
    BY <2>3 DEF Finalizer, SaveCount, SaveFirst, SaveClean, SaveWrite, Callback, Count,
           StopThread, Write, FinalizerFails, Die, threadVars
  <2>4. CASE Api \/ Tick \/ UNCHANGED vars
    BY <2>4 DEF Api, CreateEntry, LoadForUpdate, SaveUpdate, DeleteEntry, DeleteResults,
           Stop, Tick, vars, threadVars
  <2>5. CASE Restart \/ Crash
    BY <2>5 DEF Restart, Crash, Reboot
  <2> QED
    BY <2>1, <2>2, <2>3, <2>4, <2>5 DEF Next
<1>2. pc = "dead" => pending = {}
  BY DEF IdsInv, Quiet, Resetting
<1>3. pc' = "dead" /\ pc # "dead" => RowVanished
  BY NextIds
<1> QED
  BY <1>1, <1>2, <1>3 DEF Leaves

(* Without edits of entries, and unless the thread is told to stop, a task *)
(* leaves the queue by being run, with the process, or because results     *)
(* vanished under the thread: no action or callback that fails takes the   *)
(* rest of its pass with it (scheduler.py, _consume_task_queue and         *)
(* _call_task_action).                                                     *)
THEOREM QueueLeftByRunning ==
    ASSUME NoEdits
    PROVE  Spec => [][\A t \in pending \ pending' :
                          \/ pc' = "query" /\ task' = t
                          \/ pc' = "start"
                          \/ interrupt
                          \/ RowVanished]_vars
<1>1. Init => IdsInv
  BY InitIds
<1>2. Consistent /\ IdsInv /\ [Next]_vars => IdsInv'
  BY NextIds
<1>3. Consistent /\ IdsInv /\ [Next]_vars
          => \A t \in pending \ pending' :
                 \/ pc' = "query" /\ task' = t
                 \/ pc' = "start"
                 \/ interrupt
                 \/ RowVanished
  BY NextLeaves DEF Leaves
<1> QED
  BY <1>1, <1>2, <1>3, AlwaysConsistent, PTL DEF Spec
------------------------------------------------------------------------------
(* Where no result is removed, a save finds what it has counted. *)

(* Every name that has results keeps some. *)
ResultsKept == \A r \in results : \E s \in results' : s.name = r.name

LEMMA KeptFind ==
    ASSUME SavesFind, ResultsKept, fin' \subseteq fin,
           pc' # "clean",
           pc' = "first" => task' = task /\ (pc = "first" \/ ResultsOf(task.name) # {})
    PROVE  SavesFind'
<1>1. \A n : ResultsOf(n) # {} => ResultsOf(n)' # {}
  BY DEF ResultsKept, ResultsOf
<1> QED
  BY <1>1 DEF SavesFind

LEMMA GoesFind ==
    ASSUME Consistent, SavesFind, ResultsKept, NEW f \in fin, NEW phase, NEW step, NEW pk,
           Goes(f, phase, step, pk), step \in {"query", "first", "write"},
           step = "first" => ResultsOf(f.task.name) # {},
           UNCHANGED <<pc, task>>
    PROVE  SavesFind'
<1> DEFINE g == [f EXCEPT !.phase = phase, !.step = step, !.oldest = pk]
<1>1. g.task = f.task /\ g.step = step
  BY DEF Consistent, TypeOK, Final
<1>2. fin' = (fin \ {f}) \cup {g}
  BY DEF Goes
<1> HIDE DEF g
<1>3. \A n : ResultsOf(n) # {} => ResultsOf(n)' # {}
  BY DEF ResultsKept, ResultsOf
<1> QED
  BY <1>1, <1>2, <1>3 DEF SavesFind

LEMMA FailsFind ==
    ASSUME Consistent, SavesFind, NEW f \in fin, FinalizerFails(f),
           UNCHANGED <<results, task>>
    PROVE  SavesFind'
<1>1. ResultsKept
  BY DEF ResultsKept
<1>2. CASE f.phase = "report" /\ HasCallback
  BY <1>1, <1>2, GoesFind DEF FinalizerFails
<1>3. CASE ~(f.phase = "report" /\ HasCallback)
  BY <1>1, <1>3, KeptFind DEF FinalizerFails, Die, SavesFind
<1> QED
  BY <1>2, <1>3

LEMMA WriteFind ==
    ASSUME Consistent, SavesFind, NEW f \in fin, Write(f), UNCHANGED task
    PROVE  SavesFind'
<1>1. CASE FinalizerFails(f) /\ UNCHANGED results
  BY <1>1, FailsFind
<1>2. ASSUME NEW status, results' = Saved(f, status),
             Goes(f, PhaseAfter(f), "query", None), UNCHANGED pc
      PROVE  SavesFind'
  <2>1. ASSUME NEW r \in results PROVE \E s \in results' : s.name = r.name
    <3> DEFINE new == [name |-> f.task.name, id |-> f.task.id, pk |-> f.pk,
                       status |-> status]
    <3>1. new \in results' /\ (r.pk # f.pk => r \in results')
      BY <1>2 DEF Saved
    <3>2. r.pk = f.pk => new.name = r.name
      BY DEF Consistent, KeysOK
    <3> QED
      BY <3>1, <3>2
  <2> QED
    BY <1>2, <2>1, GoesFind DEF ResultsKept
<1> QED
  BY <1>1, <1>2 DEF Write

LEMMA FinalizerFind ==
    ASSUME NothingRemoved, Consistent, SavesFind, Finalizer PROVE SavesFind'
<1> SUFFICES ASSUME NEW f \in fin,
                    \/ SaveCount(f) \/ SaveFirst(f) \/ SaveClean(f) \/ SaveWrite(f)
                    \/ Callback(f) \/ Count(f) \/ StopThread(f)
             PROVE  SavesFind'
  BY DEF Finalizer
<1>1. UNCHANGED results => ResultsKept
  BY DEF ResultsKept
<1>2. CASE SaveCount(f)
  BY <1>1, <1>2, WriteFind, GoesFind DEF SaveCount
<1>3. CASE SaveFirst(f)
  BY <1>3, WriteFind, FailsFind DEF SaveFirst, Removable, NothingRemoved
<1>4. CASE SaveClean(f)
  BY <1>4 DEF SaveClean, Saving, SavesFind
<1>5. CASE SaveWrite(f)
  BY <1>5, WriteFind DEF SaveWrite
<1>6. CASE Callback(f)
  BY <1>1, <1>6, GoesFind DEF Callback, dbVars, threadVars
<1>7. CASE Count(f)
  <2>1. \/ Goes(f, "restart", "query", None) /\ UNCHANGED pc
        \/ FinalizerEnds(f)
    BY <1>7 DEF Count
  <2>2. UNCHANGED <<results, task>>
    BY <1>7 DEF Count, dbVars
  <2> QED
    BY <1>1, <2>1, <2>2, GoesFind, KeptFind DEF FinalizerEnds, SavesFind
<1>8. CASE StopThread(f)
  BY <1>1, <1>8, KeptFind DEF StopThread, FinalizerEnds, SavesFind, dbVars
<1> QED
  BY <1>2, <1>3, <1>4, <1>5, <1>6, <1>7, <1>8

LEMMA ThreadFind ==
    ASSUME NothingRemoved, SavesFind, Thread PROVE SavesFind'
<1>1. CASE \E o \in Outcomes : ReturnAction(o)
  BY <1>1 DEF ReturnAction, NewFinal, SavesFind, ResultsOf, dbVars
<1>2. CASE ~\E o \in Outcomes : ReturnAction(o)
  <2>1. UNCHANGED fin
    BY <1>2 DEF Thread, Begin, ResetId, ResetSave, ResetDone, Check, Snapshot, Cancel, AssignId,
           QueueDone, CountResults, FirstResult, CleanUp, CreateResult, CallAction,
           PassDone, Pace, Idle, ResetCount, TakeTime, StartTask, finVars
  <2>2. results \subseteq results'
    BY <1>2 DEF Thread, Begin, ResetId, ResetSave, ResetDone, Check, Snapshot, Cancel, AssignId,
           QueueDone, CountResults, FirstResult, CleanUp, CreateResult, Insert, CallAction,
           PassDone, Pace, Idle, ResetCount, TakeTime, StartTask, dbVars, SavesFind
  <2>3. ResultsKept
    BY <2>2 DEF ResultsKept
  <2>4. /\ pc' # "clean"
        /\ pc' = "first" => task' = task /\ ResultsOf(task.name) # {}
    BY <1>2 DEF Thread, Begin, ResetId, ResetSave, ResetDone, Check, Snapshot, Cancel, AssignId,
           QueueDone, CountResults, FirstResult, CleanUp, CreateResult, Insert, CallAction,
           PassDone, Pace, Idle, ResetCount, TakeTime, StartTask, Die, SavesFind,
           Removable, NothingRemoved
  <2> QED
    BY <2>1, <2>3, <2>4, KeptFind
<1> QED
  BY <1>1, <1>2

LEMMA NextFind ==
    NothingRemoved /\ Consistent /\ SavesFind /\ [Next]_vars => SavesFind'
<1> SUFFICES ASSUME NothingRemoved, Consistent, SavesFind, [Next]_vars PROVE SavesFind'
  OBVIOUS
<1>1. CASE Thread
  BY <1>1, ThreadFind
<1>2. CASE Finalizer
  BY <1>2, FinalizerFind
<1>3. CASE Api \/ Tick \/ UNCHANGED vars
  <2>1. UNCHANGED <<results, fin, pc, task>>
    BY <1>3 DEF Api, CreateEntry, LoadForUpdate, SaveUpdate, DeleteEntry, DeleteResults,
           Stop, ApiOp, NothingRemoved, Tick, vars, dbVars, threadVars, finVars
  <2> QED
    BY <2>1 DEF SavesFind, ResultsOf
<1>4. CASE Restart \/ Crash
  BY <1>4 DEF Restart, Crash, Reboot, SavesFind
<1> QED
  BY <1>1, <1>2, <1>3, <1>4 DEF Next

(* Where moreover no result is removed, by users or for want of room, a    *)
(* queued task of a thread that is not told to stop leaves the queue only  *)
(* by being run or with the process (scheduler.py, _consume_task_queue and *)
(* _call_task_action).                                                     *)
THEOREM QueuedAreRun ==
    ASSUME NoEdits, NothingRemoved PROVE Spec => QueuedTasksRun
<1>1. Init => IdsInv /\ SavesFind
  BY InitIds DEF Init, SavesFind
<1>2. Consistent /\ IdsInv /\ SavesFind /\ [Next]_vars => IdsInv' /\ SavesFind'
  BY NextIds, NextFind
<1>3. Consistent /\ IdsInv /\ SavesFind /\ [Next]_vars
          => \A t \in pending \ pending' :
                 (pc' = "query" /\ task' = t) \/ pc' = "start" \/ interrupt
  <2> SUFFICES ASSUME Consistent, IdsInv, SavesFind, [Next]_vars,
                      NEW t \in pending \ pending'
               PROVE  (pc' = "query" /\ task' = t) \/ pc' = "start" \/ interrupt
    OBVIOUS
  <2>1. pc # "resetId"
    BY DEF IdsInv, Quiet, Resetting
  <2>2. ~RowVanished
    BY <2>1 DEF RowVanished, SavesFind
  <2> QED
    BY <2>2, NextLeaves DEF Leaves
<1> QED
  BY <1>1, <1>2, <1>3, AlwaysConsistent, PTL DEF Spec, QueuedTasksRun
==============================================================================
