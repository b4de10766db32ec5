------------------------ MODULE SchedulerTimesProofs ------------------------
(***************************************************************************)
(* While no request edits or deletes an entry, the scheduler implements    *)
(* the abstract Schedule: the times of an entry are taken in order, at     *)
(* most one is owed at a time, and each is run at most once.               *)
(***************************************************************************)
EXTENDS SchedulerIdsProofs
------------------------------------------------------------------------------
(* What a take does to an entry and to the time it takes. *)
LEMMA TakeConsumes ==
    ASSUME NEW e \in Entry, NEW until \in Int, OnGrid(e), Due(e, until)
    PROVE  LET f == TakeUntil(e, until)
               t == LastDue(e, until)
           IN  OnGrid(f) /\ Consumed(f, t) /\ e.next <= t /\ t \in Int
<1> DEFINE f == TakeUntil(e, until)
           t == LastDue(e, until)
<1>1. /\ f \in Entry
      /\ f.start = e.start /\ f.stop = e.stop /\ f.interval = e.interval
  BY TakeUntilType
<1>2. /\ t \in Int /\ e.next <= t
      /\ e.stop # None => t < e.stop
      /\ e.interval = None => t = e.next
      /\ e.interval # None => \E k \in Nat : t = e.next + k * e.interval
  BY LastDueIsDue
<1>3. CASE e.interval = None
  <2>1. f = [e EXCEPT !.active = FALSE]
    BY <1>3 DEF TakeUntil
  <2>2. f.next = e.next /\ f.active = FALSE
    BY <2>1 DEF Entry
  <2> HIDE DEF f, t
  <2> QED
    BY <1>1, <1>2, <1>3, <2>2 DEF OnGrid, Consumed, Entry, f, t
<1>4. CASE e.interval # None
  <2>1. f = [e EXCEPT !.next = t + e.interval]
    BY <1>4 DEF TakeUntil
  <2>2. f.next = t + e.interval
    BY <2>1 DEF Entry
  <2>3. e.interval \in Nat \ {0} /\ e.start \in Int /\ e.next \in Int
    BY <1>4 DEF Entry
  <2> HIDE DEF f, t
  <2>4. PICK k \in Nat : t = e.next + k * e.interval
    BY <1>2, <1>4
  <2>5. e.start <= t /\ (t - e.start) % e.interval = 0
    BY <1>4, <2>3, <2>4, GridPoints DEF OnGrid
  <2>6. k + 1 \in Nat /\ t + e.interval = e.next + (k + 1) * e.interval
    <3>1. k * e.interval \in Int /\ (k + 1) * e.interval = k * e.interval + e.interval
      BY <2>3
    <3> QED
      BY <2>3, <2>4, <3>1
  <2>7. e.start <= t + e.interval /\ ((t + e.interval) - e.start) % e.interval = 0
    <3>1. /\ e.start <= e.next + (k + 1) * e.interval
          /\ ((e.next + (k + 1) * e.interval) - e.start) % e.interval = 0
      BY <1>4, <2>3, <2>6, GridPoints DEF OnGrid
    <3> QED
      BY <2>6, <3>1
  <2>8. t < t + e.interval
    BY <1>2, <2>3
  <2> QED
    BY <1>1, <1>2, <1>4, <2>2, <2>3, <2>5, <2>7, <2>8 DEF OnGrid, Consumed, f, t
<1> QED
  BY <1>3, <1>4
------------------------------------------------------------------------------
LEMMA InitTimes == Init => InlineFinalizer /\ TimesInv /\ Abstract!Init
<1> SUFFICES ASSUME Init PROVE InlineFinalizer /\ TimesInv /\ Abstract!Init
  OBVIOUS
<1> USE DEF Init
<1>1. Owed = {}
  BY DEF Owed, Taken, Queued, Started
<1>2. TimesInv
  BY <1>1 DEF TimesInv, NextOnGrid, OwedTimes, RanTimes, RanKeys, TaskTimesAdvance,
         SnapshotCurrent, Unvisited, Visiting
<1>3. InlineFinalizer
  BY DEF InlineFinalizer
<1>4. Abstract!Init
  BY <1>1 DEF Abstract!Init, ActiveNames, EntrySeries, EntryFront, Runs
<1> QED
  BY <1>2, <1>3, <1>4

(* What the abstract schedule sees of an entry. *)
Seen(e) == [start |-> e.start, stop |-> e.stop, interval |-> e.interval,
            next |-> e.next, active |-> e.active]

Simulates == [Abstract!Next]_(Abstract!vars)

(* Steps that change no entry but for its id, and call no action: what the *)
(* thread lets go of is lost.                                              *)
LEMMA QuietSteps ==
    ASSUME Consistent, TimesInv,
           rows' \in [Names -> Entry \cup {None}],
           \A n \in Names : IF rows[n] = None THEN rows'[n] = None
                            ELSE rows'[n] # None /\ Seen(rows'[n]) = Seen(rows[n]),
           UNCHANGED ran, Owed' \in {Owed, {}},
           lastPk' \in Nat, lastPk <= lastPk',
           pc' = "call" => pc = "call" \/ lastPk < lastPk',
           SnapshotCurrent'
    PROVE  TimesInv' /\ Simulates
<1>1. \A n \in Names : rows[n] # None =>
          /\ rows'[n] # None
          /\ rows'[n].start = rows[n].start /\ rows'[n].stop = rows[n].stop
          /\ rows'[n].interval = rows[n].interval /\ rows'[n].next = rows[n].next
          /\ rows'[n].active = rows[n].active
  BY DEF Seen
<1>2. ran \in SUBSET Ran /\ \A o \in Owed : o.name \in Names
  BY NoneIsNoEntry DEF Consistent, TypeOK, LocalsOK, Owed, Taken, Queued, Started, Task, InTask,
            Recording, Visiting
<1>3. NextOnGrid'
  BY <1>1 DEF TimesInv, NextOnGrid
<1>4. OwedTimes' /\ RanTimes'
  BY <1>1, <1>2 DEF TimesInv, OwedTimes, RanTimes, Consumed, Ran
<1>5. RanKeys' /\ TaskTimesAdvance'
  BY <1>2 DEF TimesInv, RanKeys, TaskTimesAdvance, Ran, Id, Consistent, TypeOK
<1>6. UNCHANGED <<EntrySeries, EntryFront, ActiveNames, Runs>>
  BY <1>1 DEF ActiveNames, EntrySeries, EntryFront, Runs
<1>7. Simulates
  BY <1>6 DEF Simulates, Abstract!Next, Abstract!Lose, Abstract!vars
<1> QED
  BY <1>3, <1>4, <1>5, <1>7 DEF TimesInv

(* Steps that leave the tables' entries and keys alone. *)
LEMMA IdleSteps ==
    ASSUME Consistent, TimesInv, UNCHANGED <<rows, ran, lastPk>>,
           Owed' \in {Owed, {}}, pc' = "call" => pc = "call", SnapshotCurrent'
    PROVE  TimesInv' /\ Simulates
<1>1. /\ rows' \in [Names -> Entry \cup {None}]
      /\ lastPk' \in Nat /\ lastPk <= lastPk'
  BY DEF Consistent, TypeOK
<1> QED
  BY <1>1, QuietSteps

LEMMA PassStepsTimes ==
    ASSUME Consistent, IdsInv, TimesInv,
           \/ Begin \/ ResetDone \/ Check \/ Snapshot \/ QueueDone \/ PassDone
           \/ Pace \/ Idle \/ \E n \in Names : ResetCount(n)
           \/ \E o \in Outcomes : ReturnAction(o)
    PROVE  TimesInv' /\ Simulates
<1> USE DEF dbVars, passVars, finVars, envVars
<1>1. /\ UNCHANGED <<rows, ran, lastPk, pending>>
      /\ pc \in {"start", "reset", "check", "snapshot", "queue", "run", "acting", "paced",
                 "idle"}
      /\ pc' \in {"reset", "resetId", "check", "snapshot", "queue", "run", "paced",
                  "idle", "stopped", "finalizing"}
      /\ pc' = "queue" => /\ todo' = ActiveNames
                          /\ snap' = [n \in Names |-> IF n \in ActiveNames THEN rows[n]
                                                      ELSE None]
  BY DEF Begin, ResetDone, Check, Snapshot, QueueDone, PassDone, Pace, Idle, ResetCount,
         ReturnAction
<1>2. Owed' \in {Owed, {}}
  BY <1>1 DEF Owed, Taken, Queued, Started
<1>3. SnapshotCurrent'
  BY <1>1 DEF SnapshotCurrent, Unvisited, Visiting, ActiveNames
<1> QED
  BY <1>1, <1>2, <1>3, IdleSteps

LEMMA RebootTimes ==
    ASSUME Consistent, TimesInv, Reboot PROVE TimesInv' /\ Simulates
<1>1. /\ UNCHANGED <<rows, ran, lastPk>>
      /\ pc' = "start" /\ pending' = {}
  BY DEF Reboot, dbVars
<1>2. Owed' \in {Owed, {}}
  BY <1>1 DEF Owed, Taken, Queued, Started
<1>3. SnapshotCurrent'
  BY <1>1 DEF SnapshotCurrent, Unvisited, Visiting
<1> QED
  BY <1>1, <1>2, <1>3, IdleSteps

(* Death loses what is owed. *)
LEMMA DieTimes ==
    ASSUME Consistent, TimesInv, Die, UNCHANGED <<rows, ran, lastPk>>
    PROVE  TimesInv' /\ Simulates
<1>1. pc' = "dead" /\ pending' = {}
  BY DEF Die
<1>2. Owed' \in {Owed, {}}
  BY <1>1 DEF Owed, Taken, Queued, Started
<1>3. SnapshotCurrent'
  BY <1>1 DEF SnapshotCurrent, Unvisited, Visiting
<1> QED
  BY <1>1, <1>2, <1>3, IdleSteps

(* Steps of others than the scheduler thread. *)
LEMMA ElsewhereTimes ==
    ASSUME Consistent, TimesInv,
           UNCHANGED <<rows, ran, lastPk, pc, passVars, pending, task>>
    PROVE  TimesInv' /\ Simulates
<1>1. Owed' = Owed
  BY DEF Owed, Taken, Queued, Started, passVars
<1>2. SnapshotCurrent'
  BY DEF TimesInv, SnapshotCurrent, Unvisited, Visiting, passVars
<1> QED
  BY <1>1, <1>2, IdleSteps

LEMMA FinalizerTimes ==
    ASSUME Consistent, InlineFinalizer, TimesInv, Finalizer PROVE TimesInv' /\ Simulates
<1>1. UNCHANGED <<rows, ran, lastPk, task>>
  BY DEF Finalizer, SaveCount, SaveFirst, SaveClean, SaveWrite, Callback, Count, StopThread,
         dbVars, threadVars, envVars
<1>2. \/ Die
      \/ UNCHANGED <<pc, passVars, pending>>
      \/ ~async /\ pc' = "run" /\ UNCHANGED <<passVars, pending>>
  BY DEF Finalizer, SaveCount, SaveFirst, SaveClean, SaveWrite, Callback, Count, StopThread,
         Write, FinalizerFails, FinalizerEnds, threadVars
<1>3. CASE Die
  BY <1>1, <1>3, DieTimes
<1>4. CASE UNCHANGED <<pc, passVars, pending>>
  BY <1>1, <1>4, ElsewhereTimes
<1>5. CASE ~async /\ pc' = "run" /\ UNCHANGED <<passVars, pending>>
  <2>1. pc = "finalizing"
    BY <1>5 DEF Finalizer, InlineFinalizer
  <2>2. Owed' = Owed
    BY <1>5, <2>1 DEF Owed, Taken, Queued, Started
  <2>3. SnapshotCurrent'
    BY <1>5 DEF SnapshotCurrent, Unvisited, Visiting
  <2> QED
    BY <1>1, <1>5, <2>2, <2>3, IdleSteps
<1> QED
  BY <1>2, <1>3, <1>4, <1>5

LEMMA StartTaskTimes ==
    ASSUME Consistent, IdsInv, TimesInv, NEW t \in pending, StartTask(t)
    PROVE  TimesInv' /\ Simulates
<1>1. UNCHANGED <<rows, ran, lastPk>>
  BY DEF StartTask, dbVars, envVars
<1>2. CASE Die
  BY <1>1, <1>2, DieTimes
<1>3. CASE task' = t /\ pending' = pending \ {t} /\ pc' = "query"
  <2>1. Owed' = Owed
    <3>1. Owed = Queued
      BY DEF StartTask, Owed, Taken, Started
    <3>2. Owed' = Queued' \cup {[name |-> t.name, time |-> t.time]}
      BY <1>3 DEF Owed, Taken, Started
    <3>3. Queued = Queued' \cup {[name |-> t.name, time |-> t.time]}
      BY <1>3 DEF Queued
    <3> QED
      BY <3>1, <3>2, <3>3
  <2>2. SnapshotCurrent'
    BY <1>3 DEF SnapshotCurrent, Unvisited, Visiting
  <2> QED
    BY <1>1, <1>3, <2>1, <2>2, IdleSteps
<1> QED
  BY <1>2, <1>3 DEF StartTask

LEMMA CreateResultTimes ==
    ASSUME Consistent, TimesInv, CountResults \/ FirstResult \/ CleanUp \/ CreateResult
    PROVE  TimesInv' /\ Simulates
<1>1. UNCHANGED <<rows, ran, task>> /\ Recording
  BY DEF CountResults, FirstResult, CleanUp, CreateResult, envVars, Recording
<1>2. \/ Die /\ UNCHANGED lastPk
      \/ pc' \in {"first", "clean", "create"} /\ UNCHANGED <<lastPk, passVars, pending>>
      \/ pc' = "call" /\ lastPk' = lastPk + 1 /\ UNCHANGED <<passVars, pending>>
  BY DEF CountResults, FirstResult, CleanUp, CreateResult, Insert
<1>3. CASE Die /\ UNCHANGED lastPk
  BY <1>1, <1>3, DieTimes
<1>4. CASE /\ pc' \in {"first", "clean", "create", "call"}
           /\ lastPk' = lastPk \/ lastPk' = lastPk + 1
           /\ pc' = "call" => lastPk' = lastPk + 1
           /\ UNCHANGED <<passVars, pending>>
  <2>1. Owed' \in {Owed, {}}
    BY <1>1, <1>4 DEF Owed, Taken, Queued, Started, Recording
  <2>2. SnapshotCurrent'
    BY <1>1, <1>4 DEF SnapshotCurrent, Unvisited, Visiting
  <2>3. /\ rows' \in [Names -> Entry \cup {None}]
        /\ lastPk' \in Nat /\ lastPk <= lastPk'
        /\ pc' = "call" => lastPk < lastPk'
    BY <1>1, <1>4 DEF Consistent, TypeOK
  <2> QED
    BY <1>1, <2>1, <2>2, <2>3, QuietSteps
<1> QED
  BY <1>2, <1>3, <1>4

LEMMA ResetIdTimes ==
    ASSUME Consistent, TimesInv, ResetId PROVE TimesInv' /\ Simulates
<1>1. UNCHANGED <<rows, ran, lastPk>>
  BY DEF ResetId, dbVars
<1>2. CASE Die
  BY <1>1, <1>2, DieTimes
<1>3. CASE pc' \in {"reset", "resetSave"} /\ UNCHANGED pending
  <2>1. Owed' = Owed
    BY <1>3 DEF ResetId, Owed, Taken, Queued, Started
  <2>2. SnapshotCurrent'
    BY <1>3 DEF SnapshotCurrent, Unvisited, Visiting
  <2> QED
    BY <1>1, <1>3, <2>1, <2>2, IdleSteps
<1> QED
  BY <1>2, <1>3 DEF ResetId

LEMMA ResetSaveTimes ==
    ASSUME Consistent, TimesInv, ResetSave PROVE TimesInv' /\ Simulates
<1>1. UNCHANGED <<ran, lastPk, task, results>>
  BY DEF ResetSave, envVars
<1>2. CASE Die /\ UNCHANGED rows
  BY <1>1, <1>2, DieTimes
<1>3. CASE /\ rows[cur] # None
           /\ rows' = [rows EXCEPT ![cur].id = snap[cur].id]
           /\ pc' = "reset" /\ UNCHANGED pending
  <2>1. cur \in Names /\ rows[cur] \in Entry /\ snap[cur].id \in Id
    BY <1>3 DEF ResetSave, Consistent, TypeOK, LocalsOK, Resetting, Entry, Id
  <2>2. [rows[cur] EXCEPT !.id = snap[cur].id] \in Entry
    BY <2>1 DEF Entry, Id
  <2>3. Seen([rows[cur] EXCEPT !.id = snap[cur].id]) = Seen(rows[cur])
    BY <2>1 DEF Entry, Seen
  <2>4. rows' \in [Names -> Entry \cup {None}]
    BY <1>3, <2>1, <2>2 DEF Consistent, TypeOK
  <2>5. \A n \in Names : IF rows[n] = None THEN rows'[n] = None
                         ELSE rows'[n] # None /\ Seen(rows'[n]) = Seen(rows[n])
    BY <1>3, <2>1, <2>2, <2>3, NoneIsNoEntry DEF Consistent, TypeOK
  <2>6. Owed' = Owed
    BY <1>3 DEF ResetSave, Owed, Taken, Queued, Started
  <2>7. SnapshotCurrent'
    BY <1>3 DEF SnapshotCurrent, Unvisited, Visiting
  <2>8. lastPk' \in Nat /\ lastPk <= lastPk'
    BY <1>1 DEF Consistent, TypeOK
  <2> QED
    BY <1>1, <1>3, <2>4, <2>5, <2>6, <2>7, <2>8, QuietSteps
<1> QED
  BY <1>2, <1>3 DEF ResetSave, passVars

LEMMA AssignIdTimes ==
    ASSUME Consistent, IdsInv, TimesInv, AssignId PROVE TimesInv' /\ Simulates
<1>1. /\ UNCHANGED <<ran, lastPk, task>>
      /\ pc = "assign"
  BY DEF AssignId, envVars
<1>2. /\ cur \in Names /\ rows[cur] \in Entry /\ snap[cur] = rows[cur] /\ taken \in Int
      /\ cur \notin todo
  BY <1>1, NoneIsNoEntry DEF Consistent, LocalsOK, TimesInv, SnapshotCurrent, Unvisited, Visiting,
         IdsInv, SnapshotIds
<1>3. /\ rows' = [rows EXCEPT ![cur].id = snap[cur].id + 1]
      /\ snap' = [snap EXCEPT ![cur].id = @ + 1]
      /\ pending' = pending \cup {[time |-> taken, prio |-> snap[cur].prio,
                                   name |-> cur, id |-> snap[cur].id]}
      /\ pc' = "queue"
      /\ UNCHANGED <<health, todo, cur, count, taken>>
  BY <1>2, NoneIsNoEntry DEF AssignId
<1>4. [rows[cur] EXCEPT !.id = snap[cur].id + 1] \in Entry
  BY <1>2 DEF Entry
<1>5. Seen([rows[cur] EXCEPT !.id = snap[cur].id + 1]) = Seen(rows[cur])
  BY <1>2 DEF Entry, Seen
<1>6. rows' \in [Names -> Entry \cup {None}]
  BY <1>3, <1>4 DEF Consistent, TypeOK
<1>7. \A n \in Names : IF rows[n] = None THEN rows'[n] = None
                       ELSE rows'[n] # None /\ Seen(rows'[n]) = Seen(rows[n])
  BY <1>2, <1>3, <1>4, <1>5, NoneIsNoEntry DEF Consistent, TypeOK
<1>8. Owed' = Owed
  <2> DEFINE t == [time |-> taken, prio |-> snap[cur].prio, name |-> cur, id |-> snap[cur].id]
             o == [name |-> cur, time |-> taken]
  <2>1. taken # None
    BY <1>2, NoneAssumption
  <2>2. Owed = Queued \cup {o}
    BY <1>1, <2>1 DEF Owed, Taken, Started
  <2>3. Owed' = Queued'
    BY <1>3 DEF Owed, Taken, Started
  <2>4. o = [name |-> t.name, time |-> t.time] /\ pending' = pending \cup {t}
    BY <1>3
  <2> HIDE DEF t, o
  <2>5. Queued' = Queued \cup {o}
    BY <2>4 DEF Queued
  <2> QED
    BY <2>2, <2>3, <2>5
<1>9. SnapshotCurrent'
  <2>1. \A n \in todo : snap[n] = rows[n] /\ n # cur
    BY <1>1, <1>2 DEF TimesInv, SnapshotCurrent, Unvisited, Visiting
  <2>2. \A n \in todo : snap'[n] = snap[n] /\ rows'[n] = rows[n]
    BY <1>3, <2>1 DEF Consistent, TypeOK
  <2> QED
    BY <1>3, <2>1, <2>2 DEF SnapshotCurrent, Unvisited, Visiting
<1>10. lastPk' \in Nat /\ lastPk <= lastPk'
  BY <1>1 DEF Consistent, TypeOK
<1> QED
  BY <1>1, <1>3, <1>6, <1>7, <1>8, <1>9, <1>10, QuietSteps

(* The pass closes a series that has no times left. *)
LEMMA CancelTimes ==
    ASSUME Consistent, IdsInv, TimesInv, Cancel PROVE TimesInv' /\ Simulates
<1>1. /\ UNCHANGED <<ran, lastPk, task>>
      /\ pc = "cancel"
  BY DEF Cancel, envVars
<1>2. /\ cur \in Names /\ rows[cur] \in Entry /\ snap[cur] = rows[cur] /\ cur \notin todo
      /\ ~HasRemaining(rows[cur])
  BY <1>1, NoneIsNoEntry DEF Consistent, LocalsOK, TimesInv, SnapshotCurrent, Unvisited, Visiting,
         IdsInv, SnapshotIds
<1>3. /\ rows' = [rows EXCEPT ![cur].active = FALSE]
      /\ snap' = [snap EXCEPT ![cur].active = FALSE]
      /\ pc' = IF taken = None THEN "queue" ELSE "assign"
      /\ UNCHANGED <<health, todo, cur, count, taken, pending>>
  BY <1>2, NoneIsNoEntry DEF Cancel
<1> DEFINE e == [rows[cur] EXCEPT !.active = FALSE]
<1>4. /\ e \in Entry /\ ~e.active /\ e.start = rows[cur].start /\ e.stop = rows[cur].stop
      /\ e.interval = rows[cur].interval /\ e.next = rows[cur].next
  BY <1>2 DEF Entry
<1>5. rows' = [rows EXCEPT ![cur] = e] /\ snap' = [snap EXCEPT ![cur] = e]
  BY <1>2, <1>3 DEF Consistent, TypeOK
<1> HIDE DEF e
<1>6. \A n \in Names : rows'[n] = IF n = cur THEN e ELSE rows[n]
  BY <1>5 DEF Consistent, TypeOK
<1>7. Owed' = Owed /\ \A o \in Owed : o.name \in Names
  BY <1>1, <1>2, <1>3 DEF Owed, Taken, Queued, Started, Consistent, TypeOK, Task
<1>8. NextOnGrid'
  BY <1>2, <1>4, <1>6, NoneIsNoEntry DEF TimesInv, NextOnGrid
<1>9. OwedTimes' /\ RanTimes'
  BY <1>1, <1>2, <1>4, <1>6, <1>7, NoneIsNoEntry
     DEF TimesInv, OwedTimes, RanTimes, Consumed, Consistent, TypeOK, Ran
<1>10. RanKeys' /\ TaskTimesAdvance'
  BY <1>1, <1>3 DEF TimesInv, RanKeys, TaskTimesAdvance
<1>11. SnapshotCurrent'
  <2>1. \A n \in todo : snap[n] = rows[n] /\ n # cur
    BY <1>1, <1>2 DEF TimesInv, SnapshotCurrent, Unvisited, Visiting
  <2>2. \A n \in todo : snap'[n] = snap[n] /\ rows'[n] = rows[n]
    BY <1>5, <2>1 DEF Consistent, TypeOK
  <2>3. snap'[cur] = rows'[cur]
    BY <1>2, <1>5 DEF Consistent, TypeOK
  <2> QED
    BY <1>3, <2>1, <2>2, <2>3 DEF SnapshotCurrent, Unvisited, Visiting
<1>12. Simulates
  <2>1. CASE rows[cur].active
    <3>1. rows[cur].stop # None /\ rows[cur].stop <= rows[cur].next
      BY <1>2, <2>1 DEF HasRemaining, Entry
    <3>2. Abstract!Close(cur)
      BY <1>1, <1>2, <1>4, <1>6, <1>7, <2>1, <3>1, NoneIsNoEntry
         DEF Abstract!Close, ActiveNames, EntrySeries, EntryFront, Runs
    <3> QED
      BY <1>2, <3>2 DEF Simulates, Abstract!Next
  <2>2. CASE ~rows[cur].active
    <3>1. UNCHANGED <<ActiveNames, EntrySeries, EntryFront, Runs>>
      BY <1>1, <1>2, <1>4, <1>6, <2>2, NoneIsNoEntry
         DEF ActiveNames, EntrySeries, EntryFront, Runs
    <3> QED
      BY <1>7, <3>1 DEF Simulates, Abstract!vars
  <2> QED
    BY <2>1, <2>2
<1> QED
  BY <1>8, <1>9, <1>10, <1>11, <1>12 DEF TimesInv

(* A take consumes the entry's due times and owes the last of them. *)
LEMMA TakeTimeTimes ==
    ASSUME Consistent, IdsInv, TimesInv, NEW n \in Names, TakeTime(n)
    PROVE  TimesInv' /\ Simulates
<1> DEFINE e == TakeUntil(snap[n], now + 1)
           t == IF Due(snap[n], now + 1) THEN LastDue(snap[n], now + 1) ELSE None
           o == [name |-> n, time |-> t]
<1>1. /\ UNCHANGED <<ran, lastPk, task>>
      /\ pc = "queue" /\ n \in todo
  BY DEF TakeTime, envVars
<1>2. /\ rows[n] \in Entry /\ snap[n] = rows[n]
      /\ \A m \in todo : snap[m] = rows[m]
      /\ \A p \in pending : p.name # n
      /\ now + 1 \in Int
  BY <1>1, NoneIsNoEntry DEF Consistent, TypeOK, TimesInv, SnapshotCurrent, Unvisited,
         Visiting, IdsInv, SnapshotIds
<1>3. /\ rows' = [rows EXCEPT ![n].next = e.next, ![n].active = e.active]
      /\ snap' = [snap EXCEPT ![n] = e]
      /\ todo' = todo \ {n}
      /\ cur' = n
      /\ taken' = t
      /\ pc' = CASE ~HasRemaining(e) -> "cancel"
                 [] HasRemaining(e) /\ t # None -> "assign"
                 [] OTHER -> "queue"
      /\ UNCHANGED <<health, count, pending>>
  BY <1>2, NoneIsNoEntry DEF TakeTime
<1>4. /\ e \in Entry /\ e.id = rows[n].id /\ e.prio = rows[n].prio
      /\ e.start = rows[n].start /\ e.stop = rows[n].stop /\ e.interval = rows[n].interval
  BY <1>2, TakeUntilType
<1>5. OnGrid(rows[n])
  BY <1>2, NoneIsNoEntry DEF TimesInv, NextOnGrid, OnGrid
<1>6. CASE Due(snap[n], now + 1)
  <2>1. OnGrid(e) /\ Consumed(e, t) /\ rows[n].next <= t /\ t \in Int
    BY <1>2, <1>5, <1>6, TakeConsumes
  <2>2. /\ rows[n].active
        /\ rows[n].interval = None => e.active = FALSE
        /\ rows[n].interval # None => e.active /\ e.next = t + rows[n].interval
    BY <1>2, <1>6 DEF TakeUntil, Due, Entry
  <2>3. t # None
    BY <2>1, NoneAssumption
  <2> HIDE DEF e, t
  <2>4. [rows[n] EXCEPT !.next = e.next, !.active = e.active] = e
    BY <1>2, <1>4 DEF Entry
  <2>5. rows' = [rows EXCEPT ![n] = e]
    BY <1>2, <1>3, <2>4 DEF Consistent, TypeOK
  <2>6. \A m \in Names : rows'[m] = IF m = n THEN e ELSE rows[m]
    BY <2>5 DEF Consistent, TypeOK
  <2>7. pc' \in {"cancel", "assign"} /\ (pc' = "cancel" => ~HasRemaining(e))
    BY <1>3, <2>3
  <2>8. /\ Owed' = Owed \cup {o} /\ o \notin Owed
        /\ \A p \in Owed : p.name # n
    <3>1. Taken = {} /\ Started = {} /\ Started' = {} /\ Queued' = Queued
      BY <1>1, <1>3, <2>7 DEF Taken, Started, Queued
    <3>2. Taken' = {o}
      BY <1>3, <2>3, <2>7 DEF Taken
    <3>3. \A p \in Queued : p.name # n
      BY <1>2 DEF Queued
    <3>4. o.name = n
      OBVIOUS
    <3> HIDE DEF o
    <3> QED
      BY <3>1, <3>2, <3>3, <3>4 DEF Owed
  <2>9. \A p \in Owed : p.name \in Names
    BY <1>1 DEF Owed, Taken, Queued, Started, Consistent, TypeOK, Task
  <2>10. NextOnGrid'
    BY <1>4, <2>1, <2>6, NoneIsNoEntry DEF TimesInv, NextOnGrid, OnGrid
  <2>11. OwedTimes'
    BY <1>4, <2>1, <2>6, <2>8, <2>9, NoneIsNoEntry DEF TimesInv, OwedTimes, Consumed
  <2>12. RanTimes'
    <3> SUFFICES ASSUME NEW r \in ran
                 PROVE  /\ rows'[r.name] # None
                        /\ Consumed(rows'[r.name], r.time)
                        /\ \A p \in Owed' : p.name = r.name => r.time < p.time
      BY <1>1 DEF RanTimes, Consumed
    <3>1. /\ r.name \in Names /\ r.time \in Int
          /\ rows[r.name] # None /\ Consumed(rows[r.name], r.time)
          /\ \A p \in Owed : p.name = r.name => r.time < p.time
      BY DEF TimesInv, RanTimes, Consistent, TypeOK, Ran
    <3>2. CASE r.name # n
      BY <2>6, <2>8, <3>1, <3>2
    <3>3. CASE r.name = n
      <4>1. rows[n].interval # None /\ r.time < rows[n].next
        BY <2>2, <3>1, <3>3 DEF Consumed
      <4>2. r.time < t /\ r.time < e.next
        BY <1>2, <2>1, <2>2, <3>1, <4>1 DEF Entry
      <4> QED
        BY <1>4, <2>6, <2>8, <3>1, <3>3, <4>1, <4>2, NoneIsNoEntry DEF Consumed
    <3> QED
      BY <3>2, <3>3
  <2>13. RanKeys' /\ TaskTimesAdvance'
    BY <1>1, <2>7 DEF TimesInv, RanKeys, TaskTimesAdvance
  <2>14. SnapshotCurrent'
    <3>1. \A m \in todo : snap'[m] = rows'[m]
      BY <1>2, <1>3, <2>5 DEF Consistent, TypeOK
    <3>2. snap'[n] = e /\ snap'[n] = rows'[n]
      BY <1>3, <2>6 DEF Consistent, TypeOK
    <3> QED
      BY <1>3, <2>7, <3>1, <3>2 DEF SnapshotCurrent, Unvisited, Visiting
  <2>15. Abstract!Take(o)
    <3>1. n \in ActiveNames
      BY <1>2, <2>2, NoneIsNoEntry DEF ActiveNames
    <3>2. rows[n] # None
      BY <1>2, NoneIsNoEntry
    <3>3. /\ EntrySeries[n] = [start |-> rows[n].start, stop |-> rows[n].stop,
                             interval |-> rows[n].interval]
          /\ EntryFront[n] = rows[n].next
      BY <3>2 DEF EntrySeries, EntryFront
    <3>4. Abstract!OnSeries(EntrySeries[n], t)
      BY <1>4, <2>1, <3>3 DEF Abstract!OnSeries, Consumed
    <3>5. EntrySeries' = EntrySeries /\ Runs' = Runs
      BY <1>1, <1>4, <2>6, <3>2, NoneIsNoEntry DEF EntrySeries, Runs
    <3>6. CASE rows[n].interval = None
      <4>1. ActiveNames' = ActiveNames \ {n}
        BY <2>2, <2>6, <3>6 DEF ActiveNames
      <4>2. e.next = rows[n].next
        BY <1>4, <1>5, <2>1, <3>6 DEF OnGrid
      <4>3. EntryFront' = EntryFront
        BY <1>4, <2>6, <3>2, <4>2, NoneIsNoEntry DEF EntryFront
      <4> QED
        BY <2>1, <2>8, <3>1, <3>3, <3>4, <3>5, <3>6, <4>1, <4>3 DEF Abstract!Take
    <3>7. CASE rows[n].interval # None
      <4>1. ActiveNames' = ActiveNames
        BY <1>4, <2>2, <2>6, <3>1, <3>7, NoneIsNoEntry DEF ActiveNames
      <4>2. EntryFront' = [EntryFront EXCEPT ![n] = t + rows[n].interval]
        BY <1>4, <2>2, <2>6, <3>2, <3>7, NoneIsNoEntry DEF EntryFront
      <4>3. o.name = n /\ o.time = t
        OBVIOUS
      <4> HIDE DEF o
      <4>4. EntrySeries[o.name].interval = rows[n].interval
        BY <3>3, <4>3
      <4>5. EntryFront' = [EntryFront EXCEPT ![o.name] =
                               o.time + EntrySeries[o.name].interval]
        BY <4>2, <4>3, <4>4
      <4>6. EntryFront[o.name] <= o.time
        BY <2>1, <3>3, <4>3
      <4> HIDE <4>2
      <4> QED
        BY <2>8, <3>1, <3>4, <3>5, <3>7, <4>1, <4>3, <4>4, <4>5, <4>6 DEF Abstract!Take
    <3> QED
      BY <3>6, <3>7
  <2>16. Simulates
    <3> HIDE DEF o
    <3> QED
      BY <2>8, <2>15 DEF Simulates, Abstract!Next
  <2> QED
    BY <2>10, <2>11, <2>12, <2>13, <2>14, <2>16 DEF TimesInv
<1>7. CASE ~Due(snap[n], now + 1)
  <2>1. e = rows[n] /\ t = None
    BY <1>2, <1>7 DEF TakeUntil
  <2> HIDE DEF e, t
  <2>2. rows' = rows
    BY <1>2, <1>3, <2>1 DEF Consistent, TypeOK, Entry
  <2>3. snap' = snap
    BY <1>2, <1>3, <2>1 DEF Consistent, TypeOK
  <2>4. pc' \in {"queue", "cancel"} /\ (pc' = "cancel" => ~HasRemaining(rows[n]))
    BY <1>3, <2>1
  <2>5. Owed' \in {Owed, {}}
    BY <1>1, <1>3, <2>1, <2>4 DEF Owed, Taken, Queued, Started
  <2>6. SnapshotCurrent'
    BY <1>2, <1>3, <2>2, <2>3, <2>4 DEF SnapshotCurrent, Unvisited, Visiting
  <2> QED
    BY <1>1, <2>2, <2>4, <2>5, <2>6, IdleSteps
<1> QED
  BY <1>6, <1>7

(* The action of a task is called: its time is owed no longer. *)
LEMMA CallActionTimes ==
    ASSUME Consistent, IdsInv, TimesInv, CallAction PROVE TimesInv' /\ Simulates
<1>1. /\ UNCHANGED <<rows, lastPk, task>>
      /\ pc = "call" /\ task \in Task
  BY DEF CallAction, dbVars, envVars, Consistent, LocalsOK, InTask
<1>2. CASE Die /\ UNCHANGED ran
  BY <1>1, <1>2, DieTimes
<1>3. CASE /\ ran' = ran \cup {[name |-> task.name, time |-> task.time,
                                id |-> task.id, pk |-> lastPk]}
           /\ pc' = "acting"
           /\ UNCHANGED <<health, passVars, pending>>
  <2> DEFINE o == [name |-> task.name, time |-> task.time]
             r == [name |-> task.name, time |-> task.time, id |-> task.id, pk |-> lastPk]
  <2>1. \A t \in pending : t.name # task.name
    BY <1>1 DEF IdsInv, TaskId, InTask
  <2>2. /\ Owed = Queued \cup {o} /\ Owed' = Queued /\ o \in Owed
        /\ \A p \in Queued : p.name # task.name
    BY <1>1, <1>3, <2>1 DEF Owed, Taken, Queued, Started
  <2>3. /\ rows[task.name] # None /\ Consumed(rows[task.name], task.time)
        /\ \A s \in ran : s.name = task.name => s.time < task.time
        /\ \A s \in ran : s.pk < lastPk
    BY <1>1, <2>2 DEF TimesInv, OwedTimes, RanTimes, RanKeys
  <2>4. /\ lastPk \in Nat /\ task.time \in Int /\ ran \in SUBSET Ran
    BY <1>1 DEF Consistent, TypeOK, Task
  <2>5. NextOnGrid' /\ OwedTimes'
    BY <1>1, <2>2 DEF TimesInv, NextOnGrid, OwedTimes, Consumed
  <2>6. RanTimes'
    BY <1>1, <1>3, <2>2, <2>3 DEF TimesInv, RanTimes, Consumed
  <2>7. RanKeys'
    BY <1>1, <1>3, <2>4 DEF TimesInv, RanKeys
  <2>8. TaskTimesAdvance'
    BY <1>3, <2>3, <2>4 DEF TimesInv, TaskTimesAdvance, Ran, Id
  <2>9. SnapshotCurrent'
    BY <1>3 DEF SnapshotCurrent, Unvisited, Visiting
  <2>10. Abstract!Run(o)
    <3>1. o = [name |-> r.name, time |-> r.time] /\ ran' = ran \cup {r}
      BY <1>3
    <3>2. o.name = task.name /\ o.time = task.time
      OBVIOUS
    <3> HIDE DEF o, r
    <3>3. Runs' = Runs \cup {o}
      BY <3>1 DEF Runs
    <3>4. Owed' = Owed \ {o}
      BY <2>2, <3>2
    <3>5. \A p \in Runs : p.name = task.name => p.time < task.time
      BY <2>3 DEF Runs
    <3>6. UNCHANGED <<EntrySeries, EntryFront, ActiveNames>>
      BY <1>1 DEF EntrySeries, EntryFront, ActiveNames
    <3> QED
      BY <2>2, <3>2, <3>3, <3>4, <3>5, <3>6 DEF Abstract!Run
  <2>11. Simulates
    <3> HIDE DEF o
    <3> QED
      BY <2>2, <2>10 DEF Simulates, Abstract!Next
  <2> QED
    BY <2>5, <2>6, <2>7, <2>8, <2>9, <2>11 DEF TimesInv
<1> QED
  BY <1>2, <1>3 DEF CallAction

LEMMA CreateEntryTimes ==
    ASSUME Consistent, IdsInv, TimesInv, NEW n \in Names, NEW t \in Templates,
           CreateEntry(n, t)
    PROVE  TimesInv' /\ Simulates
<1> DEFINE e == NewEntry(now + t.delay, t.span, t.interval, t.prio)
<1>1. /\ UNCHANGED <<lastPk, pc, passVars, pending, task>>
      /\ rows[n] = None
      /\ rows' = [rows EXCEPT ![n] = e]
      /\ ran' = {r \in ran : r.name # n}
  BY DEF CreateEntry, threadVars
<1>2. /\ now + t.delay \in Int /\ t.span \in (Nat \ {0}) \cup {None}
      /\ t.interval \in (Nat \ {0}) \cup {None} /\ t.prio \in Int
  BY ConstantsAssumption DEF Consistent, TypeOK
<1>3. e \in Entry
  BY <1>2, NewEntryType
<1>4. e.active = TRUE /\ e.next = e.start /\ OnGrid(e)
  BY <1>2 DEF NewEntry, OnGrid
<1> HIDE DEF e
<1>5. \A m \in Names : rows'[m] = IF m = n THEN e ELSE rows[m]
  BY <1>1 DEF Consistent, TypeOK
<1>6. Owed' = Owed
  BY <1>1 DEF Owed, Taken, Queued, Started, passVars
<1>7. \A o \in Owed : o.name \in Names /\ o.name # n
  BY <1>1, NoneIsNoEntry DEF Consistent, TypeOK, LocalsOK, Owed, Taken, Queued, Started, Task,
         InTask, Recording, Visiting, TimesInv, OwedTimes
<1>8. NextOnGrid'
  BY <1>3, <1>4, <1>5, NoneIsNoEntry DEF TimesInv, NextOnGrid, OnGrid
<1>9. OwedTimes' /\ RanTimes'
  BY <1>1, <1>5, <1>6, <1>7 DEF TimesInv, OwedTimes, RanTimes, Consumed,
         Consistent, TypeOK, Ran
<1>10. RanKeys' /\ TaskTimesAdvance'
  BY <1>1 DEF TimesInv, RanKeys, TaskTimesAdvance
<1>11. SnapshotCurrent'
  <2>1. Unvisited' = Unvisited
    BY <1>1 DEF Unvisited, Visiting, passVars
  <2>2. \A m \in Unvisited : m # n /\ m \in Names
    BY <1>1 DEF IdsInv, SnapshotIds, Unvisited, Visiting, Consistent, TypeOK, LocalsOK
  <2> QED
    BY <1>1, <1>5, <2>1, <2>2 DEF TimesInv, SnapshotCurrent, passVars
<1>12. Abstract!Post(n)
  <2> DEFINE new == [start |-> e.start, stop |-> e.stop, interval |-> e.interval]
  <2>1. new \in Abstract!Series /\ new.start = e.start
    BY <1>3 DEF Entry, Abstract!Series
  <2>2. EntrySeries[n] = None
    BY <1>1 DEF EntrySeries
  <2>3. EntrySeries' = [EntrySeries EXCEPT ![n] = new]
    BY <1>3, <1>5, NoneIsNoEntry DEF EntrySeries
  <2>4. EntryFront' = [EntryFront EXCEPT ![n] = new.start]
    BY <1>3, <1>4, <1>5, NoneIsNoEntry DEF EntryFront
  <2>5. ActiveNames' = ActiveNames \cup {n}
    BY <1>3, <1>4, <1>5, NoneIsNoEntry DEF ActiveNames
  <2>6. Runs' = {r \in Runs : r.name # n}
    BY <1>1 DEF Runs
  <2> HIDE DEF new
  <2>7. EntrySeries'[n] = new
    BY <2>3 DEF EntrySeries
  <2> QED
    BY <1>6, <2>1, <2>2, <2>3, <2>4, <2>5, <2>6, <2>7 DEF Abstract!Post
<1>13. Simulates
  BY <1>12 DEF Simulates, Abstract!Next
<1> QED
  BY <1>8, <1>9, <1>10, <1>11, <1>13 DEF TimesInv
------------------------------------------------------------------------------
LEMMA ApiTimes ==
    ASSUME NoEdits, Consistent, IdsInv, TimesInv, Api PROVE TimesInv' /\ Simulates
<1>1. CASE \E n \in Names, t \in Templates : CreateEntry(n, t)
  BY <1>1, CreateEntryTimes
<1>2. CASE \E c \in Clients, n \in Names, p \in Patches : LoadForUpdate(c, n, p)
  BY <1>2 DEF LoadForUpdate, ApiOp, NoEdits
<1>3. CASE \E c \in Clients : SaveUpdate(c)
  BY <1>3 DEF SaveUpdate, IdsInv, NoRequests
<1>4. CASE \E n \in Names : DeleteEntry(n)
  BY <1>4 DEF DeleteEntry, ApiOp, NoEdits
<1>5. CASE (\E gone : DeleteResults(gone)) \/ Stop
  <2>1. UNCHANGED <<rows, ran, lastPk, pc, passVars, pending, task>>
    BY <1>5 DEF DeleteResults, Stop, dbVars, threadVars
  <2> QED
    BY <2>1, ElsewhereTimes
<1> QED
  BY <1>1, <1>2, <1>3, <1>4, <1>5 DEF Api

LEMMA ThreadTimes ==
    ASSUME Consistent, IdsInv, TimesInv, Thread PROVE TimesInv' /\ Simulates
<1>1. CASE \/ Begin \/ ResetDone \/ Check \/ Snapshot \/ QueueDone \/ PassDone
           \/ Pace \/ Idle \/ \E n \in Names : ResetCount(n)
           \/ \E o \in Outcomes : ReturnAction(o)
  BY <1>1, PassStepsTimes
<1>2. CASE ResetId \/ ResetSave
  BY <1>2, ResetIdTimes, ResetSaveTimes
<1>3. CASE Cancel
  BY <1>3, CancelTimes
<1>4. CASE AssignId
  BY <1>4, AssignIdTimes
<1>5. CASE CountResults \/ FirstResult \/ CleanUp \/ CreateResult
  BY <1>5, CreateResultTimes
<1>6. CASE CallAction
  BY <1>6, CallActionTimes
<1>7. CASE \E n \in Names : TakeTime(n)
  BY <1>7, TakeTimeTimes
<1>8. CASE \E t \in pending : StartTask(t)
  BY <1>8, StartTaskTimes
<1> QED
  BY <1>1, <1>2, <1>3, <1>4, <1>5, <1>6, <1>7, <1>8 DEF Thread

LEMMA NextTimes ==
    NoEdits /\ Consistent /\ IdsInv /\ InlineFinalizer /\ TimesInv /\ [Next]_vars
        => TimesInv' /\ [Abstract!Next]_(Abstract!vars)
<1> SUFFICES ASSUME NoEdits, Consistent, IdsInv, InlineFinalizer, TimesInv, [Next]_vars
             PROVE  TimesInv' /\ Simulates
  BY DEF Simulates
<1>1. CASE Thread
  BY <1>1, ThreadTimes
<1>2. CASE Finalizer
  BY <1>2, FinalizerTimes
<1>3. CASE Api
  BY <1>3, ApiTimes
<1>4. CASE Restart \/ Crash
  BY <1>4, RebootTimes DEF Restart, Crash
<1>5. CASE Tick \/ UNCHANGED vars
  <2>1. UNCHANGED <<rows, ran, lastPk, pc, passVars, pending, task>>
    BY <1>5 DEF Tick, vars, dbVars, threadVars
  <2> QED
    BY <2>1, ElsewhereTimes
<1> QED
  BY <1>1, <1>2, <1>3, <1>4, <1>5 DEF Next

LEMMA TimesInvariant ==
    ASSUME NoEdits PROVE Spec => []TimesInv
<1>1. Init => IdsInv /\ InlineFinalizer /\ TimesInv
  BY InitIds, InitTimes
<1>2. Consistent /\ IdsInv /\ InlineFinalizer /\ TimesInv /\ [Next]_vars
          => IdsInv' /\ InlineFinalizer' /\ TimesInv'
  BY NextIds, NextInline, NextTimes
<1> QED
  BY <1>1, <1>2, AlwaysConsistent, PTL DEF Spec

(* Without edits of entries, the scheduler implements the abstract         *)
(* schedule: times are taken in order, owed one at a time, run at most     *)
(* once or lost with the process, whatever the interleaving of passes,     *)
(* finalizers, deletions of results, stops and crashes (scheduler.py,      *)
(* _consume_schedule; schedule_entry.py, take_until).                      *)
THEOREM SchedulerImplementsSchedule ==
    ASSUME NoEdits PROVE Spec => ImplementsSchedule
<1>1. Init => IdsInv /\ InlineFinalizer /\ TimesInv /\ Abstract!Init
  BY InitIds, InitTimes
<1>2. Consistent /\ IdsInv /\ InlineFinalizer /\ TimesInv /\ [Next]_vars
          => IdsInv' /\ InlineFinalizer' /\ TimesInv' /\ [Abstract!Next]_(Abstract!vars)
  BY NextIds, NextInline, NextTimes
<1> QED
  BY <1>1, <1>2, AlwaysConsistent, PTL DEF Spec, ImplementsSchedule, Abstract!Spec

(* Without edits of entries, successive tasks of an entry have successive  *)
(* times: no time is run twice or after a later one, not even when the     *)
(* process dies between taking a time and running it (scheduler.py,        *)
(* _take_pending_task_time).                                               *)
THEOREM TasksAdvance ==
    ASSUME NoEdits PROVE Spec => []TaskTimesAdvance
<1>1. TimesInv => TaskTimesAdvance
  BY DEF TimesInv
<1> QED
  BY <1>1, TimesInvariant, PTL

(* Without edits of entries, every task runs at a time of its entry's      *)
(* series, however late the passes are and whatever restarts skip          *)
(* (schedule_entry.py, take_until).                                        *)
THEOREM TasksOnGrid ==
    ASSUME NoEdits PROVE Spec => []RunsOnGrid
<1>1. Consistent /\ TimesInv => RunsOnGrid
  <2> SUFFICES ASSUME Consistent, TimesInv, NEW r \in ran
               PROVE  LET e == rows[r.name] IN
                      /\ e # None
                      /\ r.time >= e.start
                      /\ e.stop # None => r.time < e.stop
                      /\ IF e.interval = None
                         THEN r.time = e.start
                         ELSE (r.time - e.start) % e.interval = 0
    BY DEF RunsOnGrid
  <2>1. rows[r.name] # None /\ Consumed(rows[r.name], r.time)
    BY DEF TimesInv, RanTimes
  <2>2. rows[r.name] \in Entry /\ r.time \in Int
    BY <2>1 DEF Consistent, TypeOK, Ran
  <2> QED
    BY <2>1, <2>2 DEF Consumed, Entry
<1> QED
  BY <1>1, TimesInvariant, AlwaysConsistent, PTL
==============================================================================
