# A TLA+ development of the SCOS sensor

The sensor runs *actions* (measurements) on behalf of the users of an HTTP API.
A user posts a *schedule entry*: a name, an action, a start, an interval and a
stop. One scheduler thread inside the API process turns entries into *tasks*,
runs them one at a time, and records a *task result* for each. This directory
models that core: the entry arithmetic, the scheduler thread, the requests that
edit its tables while it works, the threads that finalize results, the data
files of the results, the sensor's location, crashes, and the supervision that
restarts the process.

Paths are relative to the root of the repository (`src/scheduler/scheduler.py`
is the scheduler; `src/` is its Django project).

## 1. Inventory

| Component | State | Operations | Hard behaviour | What makes it correct |
|---|---|---|---|---|
| Schedule entry times (`src/schedule/models/schedule_entry.py`) | `is_active`, `start`, `stop`, `interval`, `next_task_time`, `next_task_id` | `__init__`, `save`, `take_until`, `has_remaining_times`, `get_remaining_times`, `get_next_task_id` | late passes, boundaries of start, stop and interval | the times taken and the times left split the series; an entry is cancelled exactly when nothing is left |
| Scheduler thread (`src/scheduler/scheduler.py`) | position in its loops, `interrupt_flag`, `task`, `entry`, `entry_being_processed`, pending queue, in-memory snapshot of entries | `run`, `stop`, `reset_next_task_id`, one pass: snapshot, take times, cancel, assign ids, run tasks, pace | no transaction around a pass; every query may raise and any exception ends the thread | due entries are served, no time is run twice, ids are unique, death is noticed, stop takes effect |
| Task queue (`src/tasks/task_queue.py`, `models/task.py`) | heap of tasks | `enter`, `to_list`, order of tasks | equal times and priorities | earliest first, then priority |
| Finalizing (`_finalize_task_result`) | a result in memory, `consecutive_failures`, `last_status`, a lock | save, callback, save again, count failures, trigger a restart | in the thread itself or a daemon thread per task; shares `self.entry` with the scheduler | an outcome is recorded once and stays; failures lead to a restart |
| Task results (`src/tasks/models/task_result.py`) | table; unique (entry, task id), protected foreign key | `save` (which makes room on a full disk) | count, index and delete are separate queries | results keep their entries, no id is used twice |
| Schedule API (`src/schedule/views.py`, `serializers.py`, `sensor/exceptions.py`) | schedule table | POST, PUT, PATCH, DELETE | load and save of a PATCH overlap a pass; every column is written | an edit is neither lost nor does it undo the scheduler's |
| Results API (`src/tasks/views.py`) | results table | list, download, delete one, delete all of an entry | deletes results that are being written | the scheduler survives or recovers |
| Restart supervision (`src/handlers/health_check_handler.py`, `entrypoints/autoheal_entrypoint.sh`, `compose.yaml`, `gunicorn/config.py`, `src/sensor/settings.py`) | health files | write, remove, poll, restart, worker exit hook | files outlive the process; stop comes after the file | a stopped or dead thread never stays unnoticed |
| Acquisitions (`src/handlers/measurement_handler.py`, `src/tasks/models/acquisition.py`) | rows and data files | save file, encrypt, save row, delete file, delete row | one step of several failing | a row has its file, the flag tells how it is stored |
| Location and status (`src/status/`, `src/handlers/location_handler.py`) | locations, one active; cached sensor location | save, deactivate others, signal handlers | concurrent saves, order of signals | one active location, the cache follows it |
| Initialization (`src/initialization/`, `src/sensor/settings.py`) | signal analyzer, capabilities, health files | load once, sleep on failure | hardware that is missing, the worker timeout during the sleep | a failure leads to a restart, and the container serves once the hardware is back |
| Actions, drivers (external plugins) | - | run, raise | may fail at any time | - |
| Authentication, users, read-only views, deployment | - | stateless or static | - | - |

How they interact: the API and the scheduler share the two tables and nothing
else. A worker process starts the thread once, when it is initialized
(`gunicorn/config.py`, `src/sensor/wsgi.py`). The thread hands each task's
result to a finalizer; a finalizer reads `self.entry` of the thread, posts the
callback, and after `MAX_FAILURES` consecutive failures sends a signal, whose
handler writes a health file and sleeps for a minute, and then stops the thread.
The container's health check sees the files and the autoheal container
restarts it. A new process recomputes the ids from the results it finds.

`PROJECT.json` lists every hazard found in this code at its line with the
properties that watch it.

## 2. Modules

| Module | Role |
|---|---|
| `ScheduleTimes` | the pure arithmetic of one entry; Python's `range`, `take_until`, `save` as operators |
| `SeriesConsumer`, `MCSeriesConsumer` | the system of one entry and a clock: times are taken at arbitrary moments and compared with the documented series; all small series |
| `Schedule` | the abstract specification: an entry is a series of times that are taken in order, owed, and run or lost |
| `Scheduler` | the scheduler thread, the finalizers, the API requests, crashes and supervision over the two tables |
| `SchedulerProperties` | what the scheduler promises, `Schedule` among it by a refinement mapping, and what its documents promise and it does not do |
| `MCScheduler` | templates of entries and patches for the runs |
| `ResultStore` | the results of one entry with their acquisitions and data files, statement by statement |
| `Location` | the table of locations, its writers and the copy in memory |
| `Supervision` | probes, autoheal, container start, worker timeout and the sleeping thread, second by second |
| `ScheduleTimesProofs`, `SeriesConsumerProofs` | lemmas and theorems on the arithmetic; every timing of the takes splits the series |
| `SchedulerInvariants` | the inductive invariants of `Scheduler`, in named parts |
| `SchedulerProofs`, `SchedulerIdsProofs`, `SchedulerTimesProofs` | types and references, then outcomes, results in progress and stops; ids, the causes of death and the queue; the refinement and the order of tasks |
| `ResultStoreProofs`, `LocationProofs`, `SupervisionProofs` | the theorems about these three modules |

`Scheduler` uses `ScheduleTimes`; `ResultStore`, `Location` and `Supervision`
stand beside it. Where `Scheduler` leaves something open, one of them says what
may happen: whether the oldest result can be removed (`Removable`) is decided in
`ResultStore` by the acquisitions and files, and the one step `Restart` of
`Scheduler` is the whole of `Supervision`.

### State of `Scheduler` and the code

`rows` and `results` are the tables (a row that does not exist is `None`),
`lastPk` the key sequence of the results, `health` the files in the container.
`pc` is the place of the scheduler thread; `snap`, `todo`, `cur`, `count`,
`taken`, `pending`, `task`, `oldest` are its local variables and attributes.
`self.entry` is always the entry of `self.task` in the places where it is read,
so `task` stands for both. `fin` is the set of results in the hands of
finalizers, each with its phase and step; `req` the PUT and PATCH requests
between load and save. `ran` is a history variable that no guard reads. It
records every call of an action, and forgets an entry's calls when a new entry
takes its name.

### Actions and the code

One action is one database access of one thread with the computation that
follows it: there is no transaction around a request (`ATOMIC_REQUESTS` is not
set) or a pass, so this is what threads interleave at.

| Action | Code |
|---|---|
| `Begin`, `ResetCount`, `ResetId`, `ResetSave`, `ResetDone` | `run`, `reset_next_task_id`: count, index a second query with the count, save the entry |
| `Check`, `Snapshot` | `_consume_schedule`, `schedule_has_entries` and the snapshot |
| `TakeTime` | `_take_pending_task_time` with `_compress_past_task_times` and the save of two columns |
| `Cancel` | `_cancel_if_completed`, `cancel` |
| `AssignId`, `QueueDone` | `get_next_task_id`, its save, `pending_queue.enter`, end of the loop |
| `StartTask` | one round of `_consume_task_queue` up to the read of the entry |
| `CountResults`, `FirstResult`, `CleanUp`, `CreateResult` | `_initialize_task_result` through `TaskResult.save`, query by query |
| `CallAction`, `ReturnAction` | `_call_task_action` before and after the action; the hand-over to a finalizer |
| `PassDone`, `Pace`, `Idle` | the ends of the loops, `minimum_duration(1)`, the interrupt flag |
| `SaveCount`, `SaveFirst`, `SaveClean`, `SaveWrite` | each of the finalizer's saves (`save`, `report`, and `except` in the handler), query by query |
| `Callback` | the POST to the callback URL and its answer |
| `Count`, `StopThread` | the failure count under the lock, the health file, `thread.stop()` a minute later |
| `CreateEntry`, `LoadForUpdate`, `SaveUpdate`, `DeleteEntry`, `DeleteResults`, `Stop` | the API requests and the worker exit hook |
| `Restart`, `Crash` (`Reboot`) | a new process over the same tables and files |
| `Tick` | the clock |

### `Schedule` and the refinement

`Schedule` knows neither threads nor tables: `series` are the entries, `front`
is where each has been taken to, `owed` the times taken and not run, `runs` the
times run. The mapping in `SchedulerProperties` reads `series` and `front` off
`rows`, `runs` off `ran`, and `owed` off the three places in which a taken time
can be: in the thread's hands (`Taken`), in the queue (`Queued`), in the task
whose action has not been called (`Started`). `TakeTime` maps to `Take`, `Cancel`
to `Close`, `CallAction` to `Run`, `CreateEntry` to `Post`; death, interruption
and `Reboot` to `Lose`, which loses all that is owed; everything else stutters.

### State and actions of `ResultStore`

`results` and `acqs` are the tables, `files` the data files. `pc` and `rec` are
the scheduler thread and the recording it makes; `saves` are the calls of
`TaskResult.save` in progress, by the thread for a new result and by finalizers
for the results before; `requests` the deletions by users. A call of `save` has the
row it saves (`own`), its `phase` in the finalizer (`save`, `report`, and `except`
in the handler of the callback's exceptions), its next query (`step`), the oldest
result as it has read it (`seen`) and the deletion it has begun (`del`). A deletion
holds the keys of the rows it has collected. `torn` and `short` are history
variables: results that a crash or a failing step left half done, and whether, on a
full disk, the save of a new result found an oldest one without recordings, or one
that gave back fewer files than a task writes.

| Action | Code |
|---|---|
| `SaveCount`, `SaveFirst`, `SaveData`, `SaveHas`, `SaveLook`, `SaveClean` | the queries of `TaskResult.save` one by one: `count()`, `[0].id`, `[0].data`, `acquisitions.count()`, `acquisitions.all()[0]` with the usage of its disk, `[0].delete()`; `same_entry_results[0]` is evaluated anew each time |
| `SaveFails` (a part of the others) | an exception in `save`: it kills the thread, ends the finalizer, or leads to the handler's save |
| `SaveRemovesFile`, `RequestRemovesFile` | `clean_up_data`, one file at a time, outside the deletion's transaction |
| `SaveDeletesRows`, `RequestDeletesRows` | the rows, in one transaction, which the foreign key refuses when a recording came in between |
| `SaveWrites` | insertion of a new result, update or re-insertion of an old one; what the finalizer saves next |
| `StartTask`, `Return` | the task around its recordings |
| `StoreFile`, `InsertRow`, `SetFlag` | `measurement_action_completed_callback`: file, row, `data_encrypted` |
| `Request`, `Restart`, `Crash` (`Reboot`) | DELETE of a result; a new process over the same tables and disk |

### State and actions of `Location`

`locations` is the table as committed, `used` the key sequence, `location` the
sensor's copy; `writer` says for each administrator's request and for the handler
which statement comes next, with the rows an UPDATE has still to reach (`todo`)
and those it holds (`off`). `alone` and `raced` are history: which writers no
other has overlapped, and whether an overlap has left its mark.

| Action | Code |
|---|---|
| `Add`, `Change`, `Delete` | the admin site, one transaction each |
| `Locate`, `Redescribe` | `location_action_completed_callback` with and without coordinates |
| `Select`, `Deselect`, `Deselected` | the UPDATE in `Location.save`: what it sees, row by row behind the locks of others, and its end |
| `Write`, `Commit` | `super().save()` with the `post_save` signal, which comes before the commit |
| `DeleteRow` | the deletion and its signal |
| `Abort` | PostgreSQL ends one of two writers that wait for each other |
| `Restart`, `Crash` (`Reboot`) | roll back, and `StatusConfig.ready` |

### State and actions of `Supervision`

`files` are the health files. `stage`, `phase`, `left` and `age` follow the
processes of the API container (migrations, then a gunicorn worker; each imports
the settings and initializes the sensor), `nap` the thread that asked for a
restart, `verdict` and `probe` Docker, `healer`, `wait`, `marked` and `refusals`
autoheal. `sick` is history: a probe of this container found a file.

| Action | Code |
|---|---|
| `Settings`, `Initialize` | import of `settings.py` (removes one file), `initialization/__init__.py` (writes it, sleeps) and `scheduler.run` (removes the other) |
| `WorkerTimesOut` | gunicorn's timeout, whose `SystemExit` the initialization catches |
| `ActionsFail`, `SchedulerDies`, `SensorFails`, `SensorReturns` | the troubles that write files, and the hardware |
| `Probe` | the container's healthcheck (`compose.yaml`) |
| `Round`, `Restart`, `Refuse` | `autoheal_entrypoint.sh`: mark, restart, remove the mark on success |
| `Tick` | a second, once nothing is left to do in this one |

### Abstractions, and why they are sound

* An entry is the columns the scheduler reads. Names, actions, owners, detail
  texts and links are left out; a priority edit is too, as the priority only
  orders the queue.
* The order in which a queryset yields its rows is arbitrary (`\E n \in Names`).
* Ties in the pending queue are open, as in the heap.
* The clock counts whole seconds, as `timefn` does. At `MaxTime` it keeps
  rolling over without counting, so that a thread that waits for the next second
  never waits for a bound of the model. `fresh` holds the `minimum_duration`
  blocks that were entered in the current second.
* In `TaskResult.save`, where nothing is deleted the last query and the write
  are one step. What others do in between commutes with the query or might as
  well have come before it. Where something is deleted, the steps are separate.
  `ResultStore`, where it matters, takes every query of it as a step.
* Whether the oldest result has acquisitions, and whether the disk is full, is a
  free choice wherever `DiskCanFill` holds.
* An action returns or raises. It may take any time: other steps, ticks
  included, come between `CallAction` and `ReturnAction`.
* The process runs in its container, where the health files are used
  (`IN_DOCKER`).
* In `Scheduler`, `Restart` is one step, enabled while a health file exists or
  the thread has stopped (a worker that shut down is started again).
* `ResultStore` has one entry: the disk limit is applied entry by entry. Its
  sizes are files: each recording adds one, `Limit` of them fit.
* `Location` follows PostgreSQL's READ COMMITTED, Django's default: a statement
  sees what was committed before it, waits for locked rows and looks again. Of a
  location the active flag and the coordinates are kept.
* `Supervision` counts seconds. The initialization's sleep has no end of its
  own: a restart or the worker timeout comes first. (`SleepersAreRestarted` and
  `FilesRestart` are about that.)

## 3. Runs

TLC checks for deadlock in every run: some step is always possible.

| Run | Shows | Instance |
|---|---|---|
| `times` | `SplitsSeries`, `CancelsOnlyFinished`, `TakesEverythingDue`, `FiniteSeriesEnds` | 168 series: start -2..3, span 1..6 or none, interval 1..3 or none; every timing of passes up to time 6 |
| `crash` | `TypeOK`, `TaskTimesAdvance`, `RunsOnGrid`, `IdsAhead`, `DiesOnlyOfVanishedRows`, `OutcomeIsFinal`, `ImplementsSchedule`, `NoneForgotten` | one entry of three shapes, actions that return and raise, two crashes at any steps, deletions of results, a full disk, callbacks, both settings of `ASYNC_CALLBACK`, time 3, four requests |
| `edits` | `ResultsHaveEntries`, `Recovers`, `DueEntriesServed`, `StopTakesEffect` | one name, every request at every moment, three requests, time 2, fairness |
| `failures` | `StoppedIsUnhealthy`, `QueuedTasksRun`, `ResultsSettle`, `FailuresRestart` | two entries of different priority, failing actions and callbacks, `MAX_FAILURES` 2, concurrent and inline finalizing, fairness |
| `store` | `TypeOK`, `FlagsTrue`, `RowsHaveFiles`, `FilesHaveRows`, `DiskLimitedWhenFull` | two tasks of two recordings with a callback, a limit of one file, actions that fail early, two deletions by users, one crash |
| `location` | `TypeOK`, `OneActive`, `CopyIsActive`, `SaveRepairs` | an administrator and the handler, three keys, two places, five saves or deletions, one crash |
| `supervision` | `TypeOK`, `RestartedInSleep`, `RestartsHaveCause`, `FilesRestart`, `ServesInTheEnd` | the intervals of `compose.yaml`, autoheal and gunicorn; a stop that takes 0 or 10 seconds, an initialization of 1 or 9, two refused restarts in a row, three troubles, fairness |
| `lost_task_id`, `reactivated`, `callback_target`, `disk_limit`, `restart_loop` | a promise of a comment or document that the code does not keep (section 5) | the least instance that shows it |

Why the bounds are enough. The hazards need two things to overlap: a crash or
request and one pass; two finalizers; a PATCH and a pass. Three seconds give an
entry of interval 1 three tasks, of which two overlap with asynchronous
finalizing, and leave time for a restart and another task after it. One result
to be removed, one being finalized and one being written is the least situation
in which a save removes or re-inserts another task's result, and the `crash` run
has it. Two crashes let the second fall into the recovery from the first. Three
requests allow create, delete, create, and create, load, delete. Two entries are
needed only where tasks of one pass meet: the `failures` run.

In `store`, two recordings are the least number of which one can be missing, two
deletions by users can meet at one result, and with two tasks one is finalized
while the other records. A third task would make the run too long for its many
queries; with three tasks of one recording and no crash `DiskLimitedWhenFull` holds
as well (3.5 million states), and the theorems of section 4 are about every number
of each. A limit of one file makes every save after the first task's meet a full
disk. Three keys in `location` are a location to save, one to deselect and one that
becomes active in between; of five saves two overlap, one deletes, and one
repairs. In `supervision` the durations are those of the configuration. Two
refusals are what the sleep of a minute has room for: 6 + 5 + 10 seconds and
twice 5 + 10 make 51. A third would take more than the minute, and TLC then finds
`RestartedInSleep` violated.

What could depend on larger instances is, for the most part, proved (section 4).

### Fairness

`FairSpec` assumes weak fairness of the scheduler thread once it has begun, the
finalizers, `Restart` and `Tick`. Python threads are scheduled; an action returns or raises
(a hung action would hang the scheduler, and the code has no timeout for it);
callbacks have a timeout (`CALLBACK_TIMEOUT`); the failure handler sleeps a
bounded time; autoheal polls for ever. Nothing obliges users to send requests,
requests to be completed, or processes to crash. Fairness of `Finalizer` as a
whole is enough because each result takes finitely many steps.

`Begin` has no fairness. Before it lie the migrations and the initialization of the
server, and while a health file is there the next probe may restart the container
in the middle of them: `restart_loop` shows that nothing in `compose.yaml`, autoheal
and the settings rules out that this happens for ever. What needs a restarted
process to come as far as its thread says so: `StartsUp` is the premise of
`DueEntriesServed` and of the second half of `Recovers`. The first half, that a
death leads to a new process, needs no premise. Given that premise, the second says
that the thread gets through `reset_next_task_id` whatever rows vanished before its
death, and does not die there for ever. `Supervision` says when the container does
come up: always for the sensor's own file (`ServesInTheEnd`), and for the
scheduler's when the start is faster than the first probe.

`Supervision` has weak fairness of `System`: its processes run and time passes.
Nothing makes a sensor fail or return.

## 4. Theorems

| Theorem | Statement |
|---|---|
| `LastDueIsDue` | the time a pass turns into a task is a due time of the entry, on its grid and before its stop |
| `TakeUntilConsumes` | after a take nothing before the horizon is due: no second is taken twice |
| `TakeUntilStaysOnGrid` | a take moves a periodic entry by whole intervals, however late |
| `RemainingTimesAreTheSeries` | what a pass takes is exactly the times of the series between `next_task_time` and the horizon, and the task's time is the last of them |
| `TakesSplitSeries`, `CancelsFinishedOnly`, `TakesAllDue` | `Spec => []SplitsSeries`, `Spec => []CancelsOnlyFinished` and `Spec => TakesEverythingDue` of `SeriesConsumer` |
| `AlwaysConsistent` | `Spec => []Consistent` |
| `TypeCorrect` | `Spec => []TypeOK` |
| `ReferentialIntegrity` | `Spec => []ResultsHaveEntries` |
| `IdsStayAhead` | `NoEdits` implies `Spec => []IdsAhead` |
| `DeathOnlyOfVanishedRows` | `NoEdits` implies `Spec => DiesOnlyOfVanishedRows` |
| `QueueLeftByRunning` | `NoEdits` implies: a queued task leaves the queue by being run, with the process, when the thread was told to stop, or when `RowVanished` |
| `QueuedAreRun` | `NoEdits` and `NothingRemoved` imply `Spec => QueuedTasksRun` |
| `SchedulerImplementsSchedule` | `NoEdits` implies `Spec => ImplementsSchedule`, the abstract `Schedule` |
| `TasksAdvance`, `TasksOnGrid` | `NoEdits` implies `Spec => []TaskTimesAdvance` and `Spec => []RunsOnGrid` |
| `OutcomesAreFinal` | `Spec => OutcomeIsFinal` |
| `ResultsNotForgotten` | `Spec => NoneForgotten` |
| `StoppedReported` | `NoShutdown` implies `Spec => []StoppedIsUnhealthy` |
| `StoreTypes`, `FlagsAreTrue`, `FilesOfRows`, `RowsOfFiles`, `DiskStaysLimited` | `Spec => []P` for `TypeOK`, `FlagsTrue`, `RowsHaveFiles`, `FilesHaveRows`, `DiskLimitedWhenFull` of `ResultStore` |
| `LocationTypes`, `OneLocationActive`, `CopyOfActive`, `SavesRepair` | `Spec => []P` for `TypeOK`, `OneActive`, `CopyIsActive` of `Location`; `Spec => SaveRepairs` |
| `SupervisionTypes`, `RestartsAreCaused` | `Spec => []TypeOK` and `Spec => RestartsHaveCause` of `Supervision` |
| `SleepersAreRestarted` | `SleepIsEnough` implies `Spec => RestartedInSleep` |

Assumptions: the named ones on the constants (`NoneAssumption`,
`NoneIsNoEntry`, `ConstantsAssumption`, `SeriesAssumption`, `StoreAssumption`,
`LocationAssumption`, `NoneIsNoRow`, `SupervisionAssumption`), which TLC evaluates
in every run that extends their modules. They say that `None` and `Keep` are no
ordinary values, that names are finitely many, what a request may contain, and
that durations are positive. `SeriesAssumption` says that the entries are new ones
and that the clock's bound is beyond their starts and intervals: the series is
looked at up to twice that bound, which is then past the next time of every entry.
Four more are hypotheses of single theorems:

* `NoEdits`: requests create entries and delete results, but do not edit or
  delete entries. Without it the ids are not ahead, as `lost_task_id` shows.
* `NothingRemoved`: no result is deleted, by a request or to make room. Without it
  the thread can die of an `IndexError`, and its queue with it;
  `QueueLeftByRunning` says so and needs no such hypothesis.
* `NoShutdown`: the worker is not shut down. A worker's exit hook stops the
  thread without a file, and rightly so.
* `SleepIsEnough`: one probe, one round and the slowest restart take less than
  the sleep, with a round and a restart more for each refusal. This is the rule
  the intervals in `compose.yaml`, the autoheal script and the handler's sleep
  have to obey together; nothing in the code checks it.

**Consistent** is `TypeOK`, finiteness of `results`, what the thread's locals
hold at each `pc` (`LocalsOK`), that a primary key belongs to one task in the
table and among the finalizers (`KeysOK`), and `ResultsHaveEntries`. None of its
parts is inductive alone. A finalizer's save may re-insert a deleted row, and
only `KeysOK` says that the row it replaces is of the same entry. The
recomputation of an id writes to the row of an entry that has results, and only
`ResultsHaveEntries` says that the row exists. `TypeOK` of a take needs the
snapshot of the entry being visited to be an entry.

**IdsInv** strengthens `IdsAhead`. Besides the results, ids live in the pending
queue, in the current task, in the finalizers and in the snapshot. The invariant
orders them: ids of results and finalizers are below the current task's, which
is below the queued one's, which is below the row's `next_task_id`; the snapshot
agrees with the rows for the names still to be visited, as only this thread
changes ids. At startup `reset_next_task_id` reads the id in place `count - 1`.
`ResetOK` says that `count` is at least the number of ids left, and a counting
argument (`InLastPlace`) shows that an id in that place, if there is one, is the
largest, so that the recomputed `next_task_id` is above all of them even when
results are deleted between the count and the read; `ResetOK` keeps that until the
id is saved.

**SavesFind**, beside `IdsInv`, says that a save that has counted results finds
some when it reads the first and never comes to remove one. Then `RowVanished`,
the one way in which the queue could be lost, is never true.

**SeriesInv** (of `SeriesConsumer`) says that `taken` is the part of the series
before `next_task_time`, or all of it once a single time is taken, and that the
entry is on its grid. What remains is computed with Python's ranges from another
horizon for each question; `RemainingTimesAreTheSeries` turns all of them into
sets of times of the series, and it rests on how multiples of the interval lie
(`Multiple`, `GridGap`), without induction.

**TimesInv** does for times what `IdsInv` does for ids: every time in `Owed` and
every time in `ran` has been consumed (`Consumed`: on the series of its entry and
before its `next_task_time`), an owed time is after those run, and the snapshot
is what the row is (`SnapshotCurrent`), so that a take starts where the last one
ended. `InlineFinalizer` says that a thread that finalizes inline does nothing
else. Under these, each action of `Scheduler` is matched with a step of
`Schedule` by one lemma each.

**OutcomesInv**: a key is that of one result and of one finalizer (`OneKey`), and
what the table reads while a finalizer is at work is known from the finalizer's
phase (`StatusKnown`). A result is thus written by its own finalizer only, with
the outcome once and then with the outcome or that the notification failed.

**NoneForgotten** needs no more than `Consistent` and `InlineFinalizer`. A thread
that dies between the result and its action dies because the entry is gone, and
then `ResultsHaveEntries` says the result is gone too. A finalizer that cannot
write, or finds no results of the entry, has lost its own result by `KeysOK`. A
death in an inline finalizer is not one of a thread that holds a result in
progress itself. What is left is the exception the property names.

**FileFirst**: the interrupt flag, or a finalizer about to set it, comes after
the file.

**StoreInv** is about excuses. `SavesInv` says which saves are in progress: one
without a row at most, while the thread waits for it, and the others of results
before the current one, so that nobody re-inserts the result being recorded. A
deletion holds acquisitions of its own result only. `RowsInv` joins the three
properties with `RecordingUnderWay`: between file and row the file is there or
its result excused by a deletion, or gone; between row and flag the row is there
or its result gone. A deletion ends its excuse by removing all rows whose files it
removed, or by being recorded as torn.

**LimitInv** counts files. `Room` says that there is room for what the task under
way has still to write. Its new result was written below the limit, or after the
files of the oldest result are gone: the query before the write found no result,
the disk not full, or the deletion has removed its last file. Each of these stays
true until the write, as the thread that would add files waits for it. The
files on disk never exceed the limit by more than the recordings of the one task
at work, however the saves of finalizers and the deletions of users fall.
`DiskLimitedWhenFull` holds for `short` as defined above and for no less: with
actions that may stop early, a removed result can free fewer files than the next
task writes, and that is enough to pass the limit by more than one task's files.

**LocationInv**: a writer in `alone` is the only one (`Sole`, `Orderly`), and the
rows it has yet to reach, has reached, and the copy are as its step says
(`Deselecting`, `Deleting`, `CopyTrue`). `Deselecting` speaks of every
undisturbed save, also after a race, which is what makes `SaveRepairs` provable.

**CauseKnown** ties autoheal's mark and restart to a probe of the same container
or to a refusal. **Outlasts** bounds what is left of the sleep from below by
`Remaining`, the seconds until the next restart that is not refused.

**Model-checked only.** All liveness (`Recovers`, `DueEntriesServed`,
`StopTakesEffect`, `ResultsSettle`, `FailuresRestart`, `FilesRestart`,
`ServesInTheEnd`, `FiniteSeriesEnds`), which is outside what the prover handles.
Every invariant and every action property of a passing run has its theorem.

## 5. Where the code departs from what it says

* `lost_task_id` - a PATCH that overlaps a pass writes back the `next_task_id`
  it loaded. The next task has the id of an existing result; its insertion fails
  and the thread dies.
* `reactivated` - the pass saves `is_active` from its snapshot, so that an entry
  that a request switched off meanwhile is on again.
* `callback_target` - a finalizer in its own thread reads `self.entry` when it
  posts; by then it may be the entry of the next task, whose URL then receives
  the result.
* `disk_limit` - `TaskResult.save` looks only at the oldest result of the entry,
  and only removes it when it has acquisitions. The result of a failed action has
  none; once it is the oldest, it stays, nothing is removed any more, and the data
  grow past `MAX_DISK_USAGE`.
* `restart_loop` - the settings remove the file of the sensor and leave that of
  the dead scheduler, which goes when the new scheduler runs. When the start
  takes longer than the first probe (6 s, no `start_period`), the container is
  restarted before that, over and over. With starts of one second it is not.

Seen while modelling, without a run of its own:

* Two finalizers may find the same oldest result. The query of
  `same_entry_results[0].delete()` (`task_result.py:88`) is evaluated again, so
  the second deletion hits the next result, which may be the one being saved, with
  its data, although the comment above (76-78) rules that out.
* Two locations stay active when two saves overlap, since each deselects what it
  sees; `SaveRepairs` says when that ends. Until then the handler's
  `objects.get(active=True)` raises.
* A coordinate of 0 counts as absent in the location handler
  (`location_handler.py:24`).
* Tasks of the same second are ordered by priority within one snapshot only; an
  entry that becomes due after it waits for the next pass.
* The loop over the pending tasks does not look at the interrupt flag
  (`scheduler.py:135`): after `stop()` the thread runs the rest of its pass, although
  `stop()` is to "Complete the current task, then return control"
  (`scheduler.py:76`) and, after too many failures, to "prevent more tasks from being
  run" (263). `StartTask` does what the code does; no property demands it:
  `StopTakesEffect` asks only that the thread ends, and `QueuedTasksRun` nothing of
  the queue once the thread has been told to stop.
* An edit of an entry's start or interval sets its `next_task_time`; a take from an
  older snapshot overwrites that (`scheduler.py:297`).

`DiesOnlyOfVanishedRows` tells what is left when nobody edits entries: the
thread can die only because results vanish between two queries, and `Recovers`
that such a death leads to a restart, after which the thread runs again if the
process comes that far.

## 6. Not modelled, and why

* `calibrate_if_needed`: a hardware action whose errors are all caught.
* The queue of upcoming tasks: computed for display, no decision reads it.
* `run(blocking=False)`: used by tests only.
* Content of callbacks, certificates and tokens; only the target of a callback
  is modelled.
* Field validation, `validate_only`, links, listing and download of archives.
  The encryption of data files is a call into a library; the flag that tells of
  it is modelled.
* Outages of the database. Every query may then raise, which kills the thread like
  any other exception; `DiesOnlyOfVanishedRows` is about a database that answers.
* Users, and the cascade from a deleted user to entries and results.
* Loading of actions, capabilities, switches and calibrations, and the drivers:
  calls into files and hardware libraries, in sequence. What a failure leads to
  is in `Supervision`.
* The JavaScript under `src/static` (the admin site, the API browser and the
  documentation viewer) is third-party code that Django collects. It is most of
  the lines of the repository and none of the sensor's behaviour.
* A task that was running when its process died keeps its in-progress result.
  The code has no recovery of it: `ResultsSettle` ends at a restart, and asks nothing
  of a process that finds such results.
  `NoneForgotten` says that there is one other way only: the oldest result, found
  by the save of an outcome on a full disk, vanishes before it is removed.
* `MAX_FAILURES` read from the environment is a string; the model takes the
  number.

## 7. What could be added

1. The composition of `Scheduler` with `ResultStore`, with two entries that share
   the disk, and of `Scheduler` with `Supervision`. The parts meet in few places
   (`Removable`, `Restart`), and the products are large; it would confirm the
   interfaces rather than find new interleavings.
2. The cascade from a deleted user, as a request that deletes several entries.
3. Liveness from the proved safety: `RestartedInSleep` with the fairness of the
   supervisor gives `FilesRestart`, but the prover has no rule for it.
