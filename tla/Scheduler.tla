------------------------------ MODULE Scheduler ------------------------------
(***************************************************************************)
(* The scheduler thread of scheduler/scheduler.py over the schedule and    *)
(* task-result tables, beside the API requests that edit the same tables   *)
(* and the finalizer threads it spawns.  One action is one database access *)
(* of one thread with the computation that follows it, which is what the   *)
(* threads of the API process interleave at: there is no transaction       *)
(* around a request or a pass of the scheduler.                            *)
(***************************************************************************)
EXTENDS ScheduleTimes, FiniteSets

CONSTANTS
    Names,           \* names a schedule entry may have
    Clients,         \* API requests that may be in flight at the same time
    Templates,       \* what a POST may ask for: [delay, span, interval, prio]
    Patches,         \* what a PUT or PATCH may ask for, see Patched
    Keep,            \* in a patch: this field is not in the request
    ApiOps,          \* which operations the environment performs
    MaxTime,         \* bound of the clock
    MaxOps,          \* bound on the environment's operations
    MaxCrashes,      \* bound on crashes
    MaxFailures,     \* settings.MAX_FAILURES
    AsyncSettings,   \* the values of settings.ASYNC_CALLBACK considered
    DiskCanFill,     \* disk usage may exceed settings.MAX_DISK_USAGE
    HasCallback,     \* entries carry a callback_url
    Outcomes         \* how an action may end

ApiOpNames == {"create", "update", "delete", "deleteResult", "stop"}

ASSUME ConstantsAssumption ==
    /\ Keep \notin BOOLEAN /\ Keep \notin Int /\ Keep # None
    /\ None \notin Names
    /\ IsFiniteSet(Names)
    /\ Templates \subseteq [delay : Int, span : (Nat \ {0}) \cup {None},
                            interval : (Nat \ {0}) \cup {None}, prio : Int]
    /\ Patches \subseteq [active   : BOOLEAN \cup {Keep},
                          start    : Int \cup {Keep},
                          stop     : Int \cup {None, Keep},
                          interval : (Nat \ {0}) \cup {None, Keep}]
    /\ ApiOps \subseteq ApiOpNames
    /\ MaxTime \in Nat /\ MaxOps \in Nat /\ MaxCrashes \in Nat
    /\ MaxFailures \in Nat \ {0}
    /\ AsyncSettings \subseteq BOOLEAN /\ DiskCanFill \in BOOLEAN /\ HasCallback \in BOOLEAN
    /\ Outcomes \subseteq {"success", "failure"}

VARIABLES
    async,       \* settings.ASYNC_CALLBACK
    now,         \* timefn()
    rows,        \* table schedule: an Entry or None for each name
    results,     \* table task_result: a set of Result
    lastPk,      \* the primary key sequence of task_result
    health,      \* health files in the container
    pc,          \* where the scheduler thread is
    fresh,       \* minimum_duration blocks entered in the current second
    snap,        \* the entries schedule_snapshot holds in memory
    todo,        \* names of the snapshot not yet visited
    cur,         \* loop variable: the entry being visited
    count,       \* reset_next_task_id: count
    taken,       \* task_time of the entry being visited
    pending,     \* pending_task_queue, less the tasks already started
    task,        \* self.task, set with self.entry, the entry of that name
    oldest,      \* the result that the save of a new result considers removing
    interrupt,   \* interrupt_flag
    fin,         \* task results being finalized
    failures,    \* consecutive_failures
    req,         \* update requests: the row loaded, the patch to apply
    ops,         \* operations of the environment so far
    crashes,     \* crashes so far
    ran          \* history: the tasks whose action was called

dbVars     == <<rows, results, lastPk>>
passVars   == <<snap, todo, cur, count, taken>>
threadVars == <<pc, fresh, passVars, pending, task>>
finVars    == <<fin, failures, oldest>>
envVars    == <<req, ops, crashes>>
vars == <<async, now, dbVars, health, threadVars, interrupt, finVars, envVars, ran>>

PCs == {"start", "reset", "resetId", "resetSave", "check", "snapshot", "queue", "cancel",
        "assign", "run", "query", "first", "clean", "create", "call", "acting",
        "finalizing", "paced", "idle", "stopped", "dead"}
Status == {"in-progress", "success", "failure", "notification_failed"}
Files  == {"scheduler_dead", "sdr_unhealthy"}

Id     == Nat \ {0}
Task   == [time : Int, prio : Int, name : Names, id : Id]
Result == [name : Names, id : Id, pk : Id, status : Status]
Phases == {"save", "callback", "report", "except", "count", "restart"}
Steps  == {"query", "first", "clean", "write"}
Final  == [task : Task, pk : Id, outcome : {"success", "failure"},
           phase : Phases, step : Steps, oldest : Id \cup {None}]
Ran    == [name : Names, time : Int, id : Id, pk : Id]
Update == [name : Names, row : Entry, patch : Patches]

(* One type invariant: every variable keeps the shape the code gives it. *)
TypeOK ==
    /\ async \in BOOLEAN
    /\ now \in Nat
    /\ rows \in [Names -> Entry \cup {None}]
    /\ results \in SUBSET Result
    /\ lastPk \in Nat
    /\ health \in SUBSET Files
    /\ pc \in PCs
    /\ fresh \in SUBSET {"inner", "outer"}
    /\ snap \in [Names -> Entry \cup {None}]
    /\ todo \in SUBSET Names
    /\ cur \in Names \cup {None}
    /\ count \in Nat
    /\ taken \in Int \cup {None}
    /\ pending \in SUBSET Task
    /\ task \in Task \cup {None}
    /\ oldest \in Id \cup {None}
    /\ interrupt \in BOOLEAN
    /\ fin \in SUBSET Final
    /\ failures \in Nat
    /\ req \in [Clients -> Update \cup {None}]
    /\ ops \in Nat
    /\ crashes \in Nat
    /\ ran \in SUBSET Ran

Init ==
    /\ async \in AsyncSettings
    /\ now = 0
    /\ rows = [n \in Names |-> None]
    /\ results = {}
    /\ lastPk = 0
    /\ health = {}
    /\ pc = "start"
    /\ fresh = {}
    /\ snap = [n \in Names |-> None]
    /\ todo = {}
    /\ cur = None
    /\ count = 0
    /\ taken = None
    /\ pending = {}
    /\ task = None
    /\ oldest = None
    /\ interrupt = FALSE
    /\ fin = {}
    /\ failures = 0
    /\ req = [c \in Clients |-> None]
    /\ ops = 0
    /\ crashes = 0
    /\ ran = {}
------------------------------------------------------------------------------
(* The tables. *)

(* Mutant: what a late pass missed is no longer in the schedule. *)
ActiveNamesNotLate ==
    {n \in Names : rows[n] # None /\ rows[n].active /\ rows[n].next >= now}

ActiveNames == {n \in Names : rows[n] # None /\ rows[n].active}    \* self.schedule

ResultsOf(n) == {r \in results : r.name = n}
IdsOf(n)     == {r.id : r \in ResultsOf(n)}

(* order_by("id")[0] of the results of n, if there are any *)
Oldest(n) == {r \in ResultsOf(n) : \A s \in ResultsOf(n) : r.pk <= s.pk}

(* TaskResult.save of the result with key `pk` of entry n makes room: the  *)
(* oldest result of n, if it is another one, has acquisitions and the disk *)
(* is full.  It may be any of a run where the disk can fill.               *)
Removable(n, pk) == {r \in Oldest(n) : DiskCanFill /\ r.pk # pk}

Vanished(pk) == \A r \in results : r.pk # pk

(* order_by("task_id")[k]: the id in place k, if there is one. *)
IdsInPlace(n, k) ==
    {i \in IdsOf(n) : Cardinality({j \in IdsOf(n) : j < i}) = k}

(* The exception handler of run(): thread death is told by a health file. *)
Die ==
    /\ pc' = "dead"
    /\ health' = health \cup {"scheduler_dead"}
    /\ pending' = {}
    /\ snap' = [n \in Names |-> None]
    /\ todo' = {}
    /\ cur' = None
    /\ count' = 0
    /\ taken' = None
------------------------------------------------------------------------------
(* run(): startup. *)

(* Mutant: the file outlives the thread that wrote it. *)
BeginKeepsFile ==
    /\ pc = "start"
    /\ todo' = ActiveNames
    /\ snap' = [n \in Names |-> IF n \in ActiveNames THEN rows[n] ELSE None]
    /\ pc' = "reset"
    /\ UNCHANGED <<async, now, dbVars, health, fresh, cur, count, taken, pending, task,
                   interrupt, finVars, envVars, ran>>

(* Up to the query of reset_next_task_id. *)
Begin ==
    /\ pc = "start"
    /\ health' = health \ {"scheduler_dead"}
    /\ todo' = ActiveNames
    /\ snap' = [n \in Names |-> IF n \in ActiveNames THEN rows[n] ELSE None]
    /\ pc' = "reset"
    /\ UNCHANGED <<async, now, dbVars, fresh, cur, count, taken, pending, task,
                   interrupt, finVars, envVars, ran>>

(* count = TaskResult.objects.filter(schedule_entry=entry).count() *)
ResetCount(n) ==
    /\ pc = "reset"
    /\ n \in todo
    /\ todo' = todo \ {n}
    /\ IF ResultsOf(n) = {}
       THEN UNCHANGED <<pc, cur, count>>
       ELSE /\ pc' = "resetId"
            /\ cur' = n
            /\ count' = Cardinality(ResultsOf(n))
    /\ UNCHANGED <<async, now, dbVars, health, fresh, snap, taken, pending, task,
                   interrupt, finVars, envVars, ran>>

(* Mutant: the id of the last result instead of the one after it. *)
ResetIdLast ==
    /\ pc = "resetId"
    /\ IF IdsInPlace(cur, count - 1) = {}
       THEN Die
       ELSE /\ \E last \in IdsInPlace(cur, count - 1) :
                   snap' = [snap EXCEPT ![cur].id = last]
            /\ pc' = "resetSave"
            /\ count' = 0
            /\ UNCHANGED <<health, todo, cur, taken, pending>>
    /\ UNCHANGED <<async, now, dbVars, fresh, task, interrupt, finVars, envVars, ran>>

(* The id in place count - 1 is the last one, unless results were deleted  *)
(* since they were counted: then there is none, an IndexError.             *)
ResetId ==
    /\ pc = "resetId"
    /\ IF IdsInPlace(cur, count - 1) = {}
       THEN Die
       ELSE /\ \E last \in IdsInPlace(cur, count - 1) :
                   /\ snap' = [snap EXCEPT ![cur].id = last + 1]
                   /\ pc' = IF snap[cur].id = last + 1 THEN "reset" ELSE "resetSave"
            /\ count' = 0
            /\ UNCHANGED <<health, todo, cur, taken, pending>>
    /\ UNCHANGED <<async, now, dbVars, fresh, task, interrupt, finVars, envVars, ran>>

(* entry.save(update_fields=("next_task_id",)), which a row deleted since  *)
(* the query makes fail.                                                   *)
ResetSave ==
    /\ pc = "resetSave"
    /\ IF rows[cur] = None
       THEN Die /\ UNCHANGED rows
       ELSE /\ rows' = [rows EXCEPT ![cur].id = snap[cur].id]
            /\ pc' = "reset"
            /\ UNCHANGED <<health, passVars, pending>>
    /\ UNCHANGED <<async, now, results, lastPk, fresh, task, interrupt, finVars,
                   envVars, ran>>

ResetDone ==
    /\ pc = "reset"
    /\ todo = {}
    /\ pc' = "check"
    /\ fresh' = {"outer"}
    /\ snap' = [n \in Names |-> None]
    /\ cur' = None
    /\ UNCHANGED <<async, now, dbVars, health, todo, count, taken, pending, task,
                   interrupt, finVars, envVars, ran>>
------------------------------------------------------------------------------
(* _consume_schedule: one pass over the schedule. *)

(* while self.schedule_has_entries *)
Check ==
    /\ pc = "check"
    /\ IF ActiveNames = {}
       THEN pc' = "idle" /\ UNCHANGED fresh
       ELSE pc' = "snapshot" /\ fresh' = fresh \cup {"inner"}
    /\ UNCHANGED <<async, now, dbVars, health, passVars, pending, task,
                   interrupt, finVars, envVars, ran>>

Snapshot ==
    /\ pc = "snapshot"
    /\ todo' = ActiveNames
    /\ snap' = [n \in Names |-> IF n \in ActiveNames THEN rows[n] ELSE None]
    /\ pc' = "queue"
    /\ UNCHANGED <<async, now, dbVars, health, fresh, cur, count, taken, pending, task,
                   interrupt, finVars, envVars, ran>>

(* _take_pending_task_time: the consumed series is saved before anything   *)
(* runs; a row that is gone makes save(update_fields=...) fail.            *)
TakeTime(n) ==
    LET e == TakeUntil(snap[n], now + 1)
        t == IF Due(snap[n], now + 1) THEN LastDue(snap[n], now + 1) ELSE None
    IN
    /\ pc = "queue"
    /\ n \in todo
    /\ IF rows[n] = None
       THEN Die /\ UNCHANGED rows
       ELSE /\ rows' = [rows EXCEPT ![n].next = e.next, ![n].active = e.active]
            /\ snap' = [snap EXCEPT ![n] = e]
            /\ todo' = todo \ {n}
            /\ cur' = n
            /\ taken' = t
            /\ pc' = CASE ~HasRemaining(e) -> "cancel"
                       [] HasRemaining(e) /\ t # None -> "assign"
                       [] OTHER -> "queue"
            /\ UNCHANGED <<health, count, pending>>
    /\ UNCHANGED <<async, now, results, lastPk, fresh, task, interrupt, finVars,
                   envVars, ran>>

(* _cancel_if_completed, for an entry without remaining times *)
Cancel ==
    /\ pc = "cancel"
    /\ IF rows[cur] = None
       THEN Die /\ UNCHANGED rows
       ELSE /\ rows' = [rows EXCEPT ![cur].active = FALSE]
            /\ snap' = [snap EXCEPT ![cur].active = FALSE]
            /\ pc' = IF taken = None THEN "queue" ELSE "assign"
            /\ UNCHANGED <<health, todo, cur, count, taken, pending>>
    /\ UNCHANGED <<async, now, results, lastPk, fresh, task, interrupt, finVars,
                   envVars, ran>>

(* Mutant: the advanced next_task_id is not saved. *)
AssignIdUnsaved ==
    /\ pc = "assign"
    /\ pending' = pending \cup {[time |-> taken, prio |-> snap[cur].prio,
                                 name |-> cur, id |-> snap[cur].id]}
    /\ pc' = "queue"
    /\ UNCHANGED <<async, now, dbVars, health, fresh, passVars, task,
                   interrupt, finVars, envVars, ran>>

(* get_next_task_id, its save, and pending_queue.enter *)
AssignId ==
    /\ pc = "assign"
    /\ IF rows[cur] = None
       THEN Die /\ UNCHANGED rows
       ELSE /\ rows' = [rows EXCEPT ![cur].id = snap[cur].id + 1]
            /\ snap' = [snap EXCEPT ![cur].id = @ + 1]
            /\ pending' = pending \cup {[time |-> taken, prio |-> snap[cur].prio,
                                         name |-> cur, id |-> snap[cur].id]}
            /\ pc' = "queue"
            /\ UNCHANGED <<health, todo, cur, count, taken>>
    /\ UNCHANGED <<async, now, results, lastPk, fresh, task, interrupt, finVars,
                   envVars, ran>>

QueueDone ==
    /\ pc = "queue"
    /\ todo = {}
    /\ pc' = "run"
    /\ snap' = [n \in Names |-> None]
    /\ cur' = None
    /\ taken' = None
    /\ UNCHANGED <<async, now, dbVars, health, fresh, todo, count, pending, task,
                   interrupt, finVars, envVars, ran>>
------------------------------------------------------------------------------
(* _consume_task_queue: the tasks of the pass, one after the other. *)

(* Task.__lt__ *)
Before(s, t) == s.time < t.time \/ (s.time = t.time /\ s.prio < t.prio)

(* Mutant: the task that is started stays in the queue. *)
StartTaskKeeps(t) ==
    /\ pc = "run"
    /\ t \in pending
    /\ \A s \in pending : ~Before(s, t)
    /\ IF rows[t.name] = None
       THEN Die /\ UNCHANGED task
       ELSE task' = t /\ pc' = "query" /\ UNCHANGED <<health, passVars, pending>>
    /\ UNCHANGED <<async, now, dbVars, fresh, interrupt, finVars, envVars, ran>>

(* The next task of to_list(), whose entry is read again. *)
StartTask(t) ==
    /\ pc = "run"
    /\ t \in pending
    /\ \A s \in pending : ~Before(s, t)
    /\ IF rows[t.name] = None
       THEN Die /\ UNCHANGED task
       ELSE /\ task' = t
            /\ pending' = pending \ {t}
            /\ pc' = "query"
            /\ UNCHANGED <<health, passVars>>
    /\ UNCHANGED <<async, now, dbVars, fresh, interrupt, finVars, envVars, ran>>

(* _initialize_task_result: the insertion of a new result.  It fails when  *)
(* the entry is gone (foreign key) or has a result with this id            *)
(* (unique_together).                                                      *)
Insert ==
    IF rows[task.name] = None \/ task.id \in IdsOf(task.name)
    THEN Die /\ UNCHANGED <<results, lastPk>>
    ELSE /\ lastPk' = lastPk + 1
         /\ results' = results \cup {[name |-> task.name, id |-> task.id,
                                      pk |-> lastPk + 1, status |-> "in-progress"]}
         /\ pc' = "call"
         /\ UNCHANGED <<health, passVars, pending>>

(* The save counts the results of the entry ...  (Where it deletes         *)
(* nothing, its last query and its write are one step: what others do      *)
(* between the two might as well be done before the first.)                *)
CountResults ==
    /\ pc = "query"
    /\ IF ResultsOf(task.name) = {}
       THEN Insert
       ELSE pc' = "first" /\ UNCHANGED <<results, lastPk, health, passVars, pending>>
    /\ UNCHANGED <<async, now, rows, fresh, task, interrupt, finVars, envVars, ran>>

(* ... reads the first of them, an IndexError if they were deleted since,  *)
(* and looks at its acquisitions and at the disk ...                       *)
FirstResult ==
    /\ pc = "first"
    /\ IF ResultsOf(task.name) = {}
       THEN Die /\ UNCHANGED <<results, lastPk, oldest>>
       ELSE \/ Insert /\ UNCHANGED oldest
            \/ /\ \E r \in Removable(task.name, None) : oldest' = r.pk
               /\ pc' = "clean"
               /\ UNCHANGED <<results, lastPk, health, passVars, pending>>
    /\ UNCHANGED <<async, now, rows, fresh, task, interrupt, fin, failures, envVars, ran>>

(* ... deletes it, or what is the first by then: if it vanished, so did    *)
(* its acquisitions, of which it reads one before ...                      *)
CleanUp ==
    /\ pc = "clean"
    /\ oldest' = None
    /\ \/ Vanished(oldest) /\ Die /\ UNCHANGED results
       \/ /\ \E r \in Oldest(task.name) : results' = results \ {r}
          /\ pc' = "create"
          /\ UNCHANGED <<health, passVars, pending>>
    /\ UNCHANGED <<async, now, rows, lastPk, fresh, task, interrupt, fin, failures,
                   envVars, ran>>

(* ... and inserts. *)
CreateResult ==
    /\ pc = "create"
    /\ Insert
    /\ UNCHANGED <<async, now, rows, fresh, task, interrupt, finVars, envVars, ran>>

(* _call_task_action, up to the call of the action *)
CallAction ==
    /\ pc = "call"
    /\ IF rows[task.name] = None
       THEN Die /\ UNCHANGED ran
       ELSE /\ ran' = ran \cup {[name |-> task.name, time |-> task.time,
                                 id |-> task.id, pk |-> lastPk]}
            /\ pc' = "acting"
            /\ UNCHANGED <<health, passVars, pending>>
    /\ UNCHANGED <<async, now, dbVars, fresh, task, interrupt, finVars, envVars>>

NewFinal(outcome) ==
    [task |-> task, pk |-> lastPk, outcome |-> outcome,
     phase |-> "save", step |-> "query", oldest |-> None]

(* Mutant: a failing action ends the pass. *)
ReturnActionAbandons(outcome) ==
    /\ pc = "acting"
    /\ fin' = fin \cup {NewFinal(outcome)}
    /\ pc' = IF async THEN "run" ELSE "finalizing"
    /\ pending' = IF outcome = "failure" THEN {} ELSE pending
    /\ UNCHANGED <<async, now, dbVars, health, fresh, passVars, task, oldest,
                   interrupt, failures, envVars, ran>>

(* The action returns or raises; its result is handed to a finalizer: a    *)
(* thread of its own, or the scheduler thread itself.                      *)
ReturnAction(outcome) ==
    /\ pc = "acting"
    /\ fin' = fin \cup {NewFinal(outcome)}
    /\ pc' = IF async THEN "run" ELSE "finalizing"
    /\ UNCHANGED <<async, now, dbVars, health, fresh, passVars, pending, task, oldest,
                   interrupt, failures, envVars, ran>>

(* The with block of the pass lasts until the second is over. *)
PassDone ==
    /\ pc = "run"
    /\ pending = {}
    /\ pc' = "paced"
    /\ UNCHANGED <<async, now, dbVars, health, fresh, passVars, pending, task,
                   interrupt, finVars, envVars, ran>>

Pace ==
    /\ pc = "paced"
    /\ "inner" \notin fresh
    /\ pc' = IF interrupt THEN "idle" ELSE "check"
    /\ UNCHANGED <<async, now, dbVars, health, fresh, passVars, pending, task,
                   interrupt, finVars, envVars, ran>>

(* Mutant: the outer loop does not look at the flag. *)
IdleForEver ==
    /\ pc = "idle"
    /\ "outer" \notin fresh
    /\ pc' = "check"
    /\ fresh' = {"outer"}
    /\ UNCHANGED <<async, now, dbVars, health, passVars, pending, task,
                   interrupt, finVars, envVars, ran>>

Idle ==
    /\ pc = "idle"
    /\ "outer" \notin fresh
    /\ IF interrupt
       THEN pc' = "stopped" /\ UNCHANGED fresh
       ELSE pc' = "check" /\ fresh' = {"outer"}
    /\ UNCHANGED <<async, now, dbVars, health, passVars, pending, task,
                   interrupt, finVars, envVars, ran>>
------------------------------------------------------------------------------
(* _finalize_task_result: in a daemon thread per task, or inline.  It     *)
(* saves the result, then calls back and saves it again; each save takes   *)
(* the steps of the first one, above.                                      *)

Goes(f, phase, step, pk) ==
    fin' = (fin \ {f}) \cup {[f EXCEPT !.phase = phase, !.step = step, !.oldest = pk]}

(* The finalizer is through; inline, the thread takes the next task. *)
FinalizerEnds(f) ==
    /\ fin' = fin \ {f}
    /\ pc' = IF async THEN pc ELSE "run"

(* An exception ends the daemon thread silently; inline it is the          *)
(* scheduler thread's own.  Only what follows the callback is in a try     *)
(* block, whose handler saves once more.                                   *)
FinalizerFails(f) ==
    IF f.phase = "report" /\ HasCallback
    THEN Goes(f, "except", "query", None) /\ UNCHANGED <<pc, health, passVars, pending>>
    ELSE /\ fin' = fin \ {f}
         /\ IF async THEN UNCHANGED <<pc, health, passVars, pending>> ELSE Die

(* Mutants of StatusToSave: the second save is of the result as it was     *)
(* read before the first; a failure is not recorded.                       *)
StatusReopens(f) ==
    IF f.phase = "report" THEN {"in-progress"} ELSE {f.outcome}

StatusOfSuccesses(f) ==
    IF f.outcome = "success" THEN {f.outcome} ELSE {"in-progress"}

(* The answer to a callback may be an error. *)
StatusToSave(f) ==
    CASE f.phase = "save"   -> {f.outcome}
      [] f.phase = "report" -> {f.outcome} \cup
                               (IF HasCallback THEN {"notification_failed"} ELSE {})
      [] f.phase = "except" -> {"notification_failed"}

(* The row is updated by primary key, or inserted when it was deleted in   *)
(* the meantime.                                                           *)
CanSave(f) ==
    \/ ~Vanished(f.pk)
    \/ rows[f.task.name] # None /\ f.task.id \notin IdsOf(f.task.name)

Saved(f, status) ==
    {r \in results : r.pk # f.pk}
        \cup {[name |-> f.task.name, id |-> f.task.id, pk |-> f.pk, status |-> status]}

PhaseAfter(f) ==
    CASE f.phase = "save" /\ HasCallback  -> "callback"
      [] f.phase = "save" /\ ~HasCallback -> "report"
      [] OTHER                            -> "count"

Write(f) ==
    IF CanSave(f)
    THEN /\ \E status \in StatusToSave(f) : results' = Saved(f, status)
         /\ Goes(f, PhaseAfter(f), "query", None)
         /\ UNCHANGED <<pc, health, passVars, pending>>
    ELSE FinalizerFails(f) /\ UNCHANGED results

Saving(f, step) == f.phase \in {"save", "report", "except"} /\ f.step = step

SaveCount(f) ==
    /\ Saving(f, "query")
    /\ IF ResultsOf(f.task.name) = {}
       THEN Write(f)
       ELSE /\ Goes(f, f.phase, "first", None)
            /\ UNCHANGED <<results, pc, health, passVars, pending>>
    /\ UNCHANGED <<async, now, rows, lastPk, fresh, task, oldest, interrupt, failures,
                   envVars, ran>>

SaveFirst(f) ==
    /\ Saving(f, "first")
    /\ IF ResultsOf(f.task.name) = {}
       THEN FinalizerFails(f) /\ UNCHANGED results
       ELSE \/ Write(f)
            \/ /\ \E r \in Removable(f.task.name, f.pk) : Goes(f, f.phase, "clean", r.pk)
               /\ UNCHANGED <<results, pc, health, passVars, pending>>
    /\ UNCHANGED <<async, now, rows, lastPk, fresh, task, oldest, interrupt, failures,
                   envVars, ran>>

(* Mutant: once it has made room, the save is over. *)
SaveCleanOnly(f) ==
    /\ Saving(f, "clean")
    /\ \/ Vanished(f.oldest) /\ FinalizerFails(f) /\ UNCHANGED results
       \/ /\ \E r \in Oldest(f.task.name) : results' = results \ {r}
          /\ Goes(f, PhaseAfter(f), "query", None)
          /\ UNCHANGED <<pc, health, passVars, pending>>
    /\ UNCHANGED <<async, now, rows, lastPk, fresh, task, oldest, interrupt, failures,
                   envVars, ran>>

SaveClean(f) ==
    /\ Saving(f, "clean")
    /\ \/ Vanished(f.oldest) /\ FinalizerFails(f) /\ UNCHANGED results
       \/ /\ \E r \in Oldest(f.task.name) : results' = results \ {r}
          /\ Goes(f, f.phase, "write", None)
          /\ UNCHANGED <<pc, health, passVars, pending>>
    /\ UNCHANGED <<async, now, rows, lastPk, fresh, task, oldest, interrupt, failures,
                   envVars, ran>>

SaveWrite(f) ==
    /\ Saving(f, "write")
    /\ Write(f)
    /\ UNCHANGED <<async, now, rows, lastPk, fresh, task, oldest, interrupt, failures,
                   envVars, ran>>

(* The URL is that of self.entry, whichever task that is of by now.        *)
CallbackEntry == task.name

(* The POST is answered, well or not, or raises. *)
Callback(f) ==
    /\ f.phase = "callback"
    /\ \E phase \in {"report", "except"} : Goes(f, phase, "query", None)
    /\ UNCHANGED <<async, now, dbVars, health, threadVars, interrupt, failures, oldest,
                   envVars, ran>>

(* Mutants of Count: the limit is one failure too high; the thread is      *)
(* stopped without the file that makes the container unhealthy.            *)
CountBeyond(f) ==
    /\ f.phase = "count"
    /\ \A g \in fin : g.phase # "restart"
    /\ failures' = IF f.outcome = "failure" THEN failures + 1 ELSE 0
    /\ IF failures' > MaxFailures
       THEN /\ health' = health \cup {"sdr_unhealthy"}
            /\ Goes(f, "restart", "query", None)
            /\ UNCHANGED pc
       ELSE FinalizerEnds(f) /\ UNCHANGED health
    /\ UNCHANGED <<async, now, dbVars, fresh, passVars, pending, task, oldest, interrupt,
                   envVars, ran>>

CountNoFile(f) ==
    /\ f.phase = "count"
    /\ \A g \in fin : g.phase # "restart"
    /\ failures' = IF f.outcome = "failure" THEN failures + 1 ELSE 0
    /\ IF failures' >= MaxFailures
       THEN Goes(f, "restart", "query", None) /\ UNCHANGED pc
       ELSE FinalizerEnds(f)
    /\ UNCHANGED <<async, now, dbVars, health, fresh, passVars, pending, task, oldest,
                   interrupt, envVars, ran>>

(* Under task_status_lock, which a finalizer in phase "restart" holds.     *)
(* last_status is "failure" exactly when consecutive_failures is positive. *)
Count(f) ==
    /\ f.phase = "count"
    /\ \A g \in fin : g.phase # "restart"
    /\ failures' = IF f.outcome = "failure" THEN failures + 1 ELSE 0
    /\ IF failures' >= MaxFailures
       THEN /\ health' = health \cup {"sdr_unhealthy"}
            /\ Goes(f, "restart", "query", None)
            /\ UNCHANGED pc
       ELSE FinalizerEnds(f) /\ UNCHANGED health
    /\ UNCHANGED <<async, now, dbVars, fresh, passVars, pending, task, oldest, interrupt,
                   envVars, ran>>

(* thread.stop(), after the handler of trigger_api_restart has slept. *)
StopThread(f) ==
    /\ f.phase = "restart"
    /\ interrupt' = TRUE
    /\ FinalizerEnds(f)
    /\ UNCHANGED <<async, now, dbVars, health, fresh, passVars, pending, task, oldest,
                   failures, envVars, ran>>
------------------------------------------------------------------------------
(* The API requests, in threads of the same process. *)

ApiOp(op) == op \in ApiOps /\ ops < MaxOps /\ ops' = ops + 1

(* POST of a schedule entry under a name not in use. *)
CreateEntry(n, t) ==
    /\ ApiOp("create")
    /\ rows[n] = None
    /\ rows' = [rows EXCEPT ![n] = NewEntry(now + t.delay, t.span, t.interval, t.prio)]
    /\ ran' = {r \in ran : r.name # n}
    /\ UNCHANGED <<async, now, results, lastPk, health, threadVars, interrupt, finVars,
                   req, crashes>>

(* PUT and PATCH load the whole row ...                                    *)
LoadForUpdate(c, n, patch) ==
    /\ ApiOp("update")
    /\ req[c] = None
    /\ rows[n] # None
    /\ req' = [req EXCEPT ![c] = [name |-> n, row |-> rows[n], patch |-> patch]]
    /\ UNCHANGED <<async, now, dbVars, health, threadVars, interrupt, finVars,
                   crashes, ran>>

Patched(row, patch) ==
    [row EXCEPT !.active   = IF patch.active = Keep THEN @ ELSE patch.active,
                !.start    = IF patch.start = Keep THEN @ ELSE patch.start,
                !.stop     = IF patch.stop = Keep THEN @ ELSE patch.stop,
                !.interval = IF patch.interval = Keep THEN @ ELSE patch.interval]

(* ... and later write every column of it, modified or not; a row deleted  *)
(* in between is inserted again.                                           *)
SaveUpdate(c) ==
    /\ req[c] # None
    /\ rows' = [rows EXCEPT ![req[c].name] =
                   OnSave(req[c].row, Patched(req[c].row, req[c].patch), now)]
    /\ req' = [req EXCEPT ![c] = None]
    /\ UNCHANGED <<async, now, results, lastPk, health, threadVars, interrupt, finVars,
                   ops, crashes, ran>>

(* Mutant: results do not protect their entry. *)
DeleteEntryUnprotected(n) ==
    /\ ApiOp("delete")
    /\ rows[n] # None
    /\ rows' = [rows EXCEPT ![n] = None]
    /\ UNCHANGED <<async, now, results, lastPk, health, threadVars, interrupt, finVars,
                   req, crashes, ran>>

(* DELETE of an entry is refused while results refer to it (PROTECT). *)
DeleteEntry(n) ==
    /\ ApiOp("delete")
    /\ rows[n] # None
    /\ ResultsOf(n) = {}
    /\ rows' = [rows EXCEPT ![n] = None]
    /\ UNCHANGED <<async, now, results, lastPk, health, threadVars, interrupt, finVars,
                   req, crashes, ran>>

(* DELETE of one result, or of all the results of an entry. *)
DeleteResults(gone) ==
    /\ ApiOp("deleteResult")
    /\ gone # {}
    /\ results' = results \ gone
    /\ UNCHANGED <<async, now, rows, lastPk, health, threadVars, interrupt, finVars,
                   req, crashes, ran>>

(* gunicorn's worker_exit hook *)
Stop ==
    /\ ApiOp("stop")
    /\ interrupt' = TRUE
    /\ UNCHANGED <<async, now, dbVars, health, threadVars, finVars, req, crashes, ran>>

Api ==
    \/ \E n \in Names, t \in Templates : CreateEntry(n, t)
    \/ \E c \in Clients, n \in Names, p \in Patches : LoadForUpdate(c, n, p)
    \/ \E c \in Clients : SaveUpdate(c)
    \/ \E n \in Names : DeleteEntry(n) \/ DeleteResults(ResultsOf(n))
    \/ \E r \in results : DeleteResults({r})
    \/ Stop
------------------------------------------------------------------------------
(* A new API process: what was in memory is gone, the tables and the       *)
(* container's files stay.  The settings module removes the SDR file.      *)
Reboot ==
    /\ pc' = "start"
    /\ health' = health \ {"sdr_unhealthy"}
    /\ fresh' = {}
    /\ snap' = [n \in Names |-> None]
    /\ todo' = {}
    /\ cur' = None
    /\ count' = 0
    /\ taken' = None
    /\ pending' = {}
    /\ task' = None
    /\ oldest' = None
    /\ interrupt' = FALSE
    /\ fin' = {}
    /\ failures' = 0
    /\ req' = [c \in Clients |-> None]
    /\ UNCHANGED <<async, now, dbVars, ops, ran>>

(* The autoheal container restarts an unhealthy container; a worker that   *)
(* shut down is started again.                                             *)
Restart ==
    /\ health # {} \/ pc = "stopped"
    /\ Reboot
    /\ UNCHANGED crashes

Crash ==
    /\ crashes < MaxCrashes
    /\ crashes' = crashes + 1
    /\ Reboot

(* The clock rolls over.  At its bound it keeps rolling without counting, *)
(* so that what waits for the next second never waits for the bound.      *)
Tick ==
    /\ now < MaxTime \/ fresh # {}
    /\ now' = IF now < MaxTime THEN now + 1 ELSE now
    /\ fresh' = {}
    /\ UNCHANGED <<async, dbVars, health, pc, passVars, pending, task, interrupt,
                   finVars, envVars, ran>>

Thread ==
    \/ Begin \/ ResetId \/ ResetSave \/ ResetDone
    \/ Check \/ Snapshot \/ Cancel \/ AssignId \/ QueueDone
    \/ CountResults \/ FirstResult \/ CleanUp \/ CreateResult
    \/ CallAction \/ PassDone \/ Pace \/ Idle
    \/ \E n \in Names : ResetCount(n) \/ TakeTime(n)
    \/ \E t \in pending : StartTask(t)
    \/ \E o \in Outcomes : ReturnAction(o)

Finalizer ==
    \E f \in fin :
        \/ SaveCount(f) \/ SaveFirst(f) \/ SaveClean(f) \/ SaveWrite(f)
        \/ Callback(f) \/ Count(f) \/ StopThread(f)

Next == Thread \/ Finalizer \/ Api \/ Restart \/ Crash \/ Tick

Spec == Init /\ [][Next]_vars

(* A thread that has started up is scheduled, actions and callbacks        *)
(* return, the clock runs and the supervisor acts; nothing obliges users   *)
(* or crashes.  Between a restart and Begin lie migrations and the         *)
(* initialization of the server, which the next probe of the container may *)
(* cut short (Supervision): Begin is given no fairness.                    *)
FairSpec ==
    /\ Spec
    /\ WF_vars(pc # "start" /\ Thread)
    /\ WF_vars(Finalizer) /\ WF_vars(Restart) /\ WF_vars(Tick)
==============================================================================
