------------------------- MODULE SchedulerInvariants -------------------------
(* The inductive invariants behind the theorems about Scheduler. *)
EXTENDS SchedulerProperties

Recording == pc \in {"query", "first", "clean", "create"}
InTask == Recording \/ pc \in {"call", "acting"}
Visiting == pc \in {"cancel", "assign"}
Resetting == pc \in {"resetId", "resetSave"}

(* What the thread's local variables hold depends on where it is. *)
LocalsOK ==
    /\ InTask \/ pc = "finalizing" => task \in Task
    /\ Visiting \/ Resetting => cur \in Names /\ snap[cur] \in Entry
    /\ Visiting \/ Resetting \/ pc \in {"reset", "queue"} =>
           \A n \in todo : snap[n] \in Entry
    /\ pc = "assign" => taken \in Int
    /\ pc = "finalizing" => ~async

(* A primary key belongs to one task, in the table and in the finalizers. *)
KeysOK ==
    /\ \A r \in results : r.pk <= lastPk
    /\ \A f \in fin : f.pk <= lastPk
    /\ \A f, g \in fin : f.pk = g.pk => f.task = g.task
    /\ \A f \in fin, r \in results :
           r.pk = f.pk => r.name = f.task.name /\ r.id = f.task.id
    /\ pc \in {"call", "acting"} =>
           /\ lastPk \in Id
           /\ \A r \in results :
                  r.pk = lastPk => r.name = task.name /\ r.id = task.id
           /\ \A f \in fin : f.pk < lastPk

(* The inductive invariant behind type correctness and referential         *)
(* integrity: without ResultsHaveEntries the recomputation of a            *)
(* next_task_id could meet a row that is gone.                             *)
Consistent ==
    /\ TypeOK
    /\ IsFiniteSet(results)
    /\ LocalsOK
    /\ KeysOK
    /\ ResultsHaveEntries
------------------------------------------------------------------------------
(* No request edits or deletes an entry. *)
NoEdits == "update" \notin ApiOps /\ "delete" \notin ApiOps

(* i is an id the entry n has given out and will not give out again. *)
Used(n, i) == rows[n] # None /\ i < rows[n].id

(* Every id the finalizers and the results hold under the name n is below i. *)
Above(n, i) ==
    /\ \A r \in results : r.name = n => r.id < i
    /\ \A f \in fin : f.task.name = n => f.task.id < i

(* The names whose turn in the pass is still to come. *)
Unvisited ==
    CASE pc = "queue" -> todo
      [] Visiting     -> todo \cup {cur}
      [] OTHER        -> {}

NoRequests == \A c \in Clients : req[c] = None

(* A thread at work outside a pass has no queue; one that starts up has no *)
(* finalizers either.                                                      *)
Quiet ==
    /\ Resetting \/ pc \in {"start", "reset", "check", "snapshot", "paced", "idle",
                            "stopped", "dead"} => pending = {}
    /\ Resetting \/ pc \in {"start", "reset"} => fin = {}

PendingIds ==
    /\ \A t \in pending : Used(t.name, t.id) /\ Above(t.name, t.id)
    /\ \A s, t \in pending : s.name = t.name => s = t

TaskId ==
    /\ InTask =>
           /\ Used(task.name, task.id)
           /\ \A t \in pending : t.name # task.name
           /\ \A f \in fin : f.task.name = task.name => f.task.id < task.id
    /\ Recording => Above(task.name, task.id)
    /\ pc \in {"call", "acting"} =>
           \A r \in results : r.name = task.name =>
               r.id < task.id \/ (r.id = task.id /\ r.pk = lastPk)

FinalIds ==
    /\ \A f \in fin : Used(f.task.name, f.task.id)
    /\ \A f \in fin, r \in results :
           r.name = f.task.name /\ r.id = f.task.id => r.pk = f.pk
    /\ \A f, g \in fin :
           f.task.name = g.task.name /\ f.task.id = g.task.id => f.pk = g.pk

(* The snapshot is up to date where it will be used: only this thread      *)
(* changes next_task_id.                                                   *)
SnapshotIds ==
    /\ Visiting => cur \notin todo
    /\ \A n \in Unvisited :
           /\ rows[n] # None
           /\ snap[n].id = rows[n].id
           /\ \A t \in pending : t.name # n

(* Results are only deleted while ids are recomputed, and entries stay. *)
ResetOK ==
    /\ Resetting => rows[cur] # None
    /\ pc = "resetId" => Cardinality(IdsOf(cur)) <= count
    /\ pc = "resetSave" => \A r \in results : r.name = cur => r.id < snap[cur].id

(* The inductive invariant behind IdsAhead and DiesOnlyOfVanishedRows. *)
IdsInv ==
    /\ IdsAhead
    /\ NoRequests
    /\ Quiet
    /\ PendingIds
    /\ TaskId
    /\ FinalIds
    /\ SnapshotIds
    /\ ResetOK
------------------------------------------------------------------------------
(* Results are deleted neither by requests nor to make room. *)
NothingRemoved == "deleteResult" \notin ApiOps /\ ~DiskCanFill

(* The inductive invariant behind QueuedTasksRun: what a save has counted  *)
(* is there when it reads it, and it removes nothing.                      *)
SavesFind ==
    /\ pc = "first" => ResultsOf(task.name) # {}
    /\ pc # "clean"
    /\ \A f \in fin : /\ f.step = "first" => ResultsOf(f.task.name) # {}
                      /\ f.step # "clean"
------------------------------------------------------------------------------
(* t is a time of the series of e, and e has been moved past it. *)
Consumed(e, t) ==
    /\ e.start <= t
    /\ e.stop # None => t < e.stop
    /\ IF e.interval = None
       THEN t = e.start /\ ~e.active
       ELSE (t - e.start) % e.interval = 0 /\ t < e.next

(* next_task_time stays on the grid of its entry. *)
NextOnGrid ==
    \A n \in Names : rows[n] # None =>
        LET e == rows[n] IN
        IF e.interval = None
        THEN e.next = e.start
        ELSE e.start <= e.next /\ (e.next - e.start) % e.interval = 0

OwedTimes ==
    \A o \in Owed : rows[o.name] # None /\ Consumed(rows[o.name], o.time)

RanTimes ==
    \A r \in ran :
        /\ rows[r.name] # None
        /\ Consumed(rows[r.name], r.time)
        /\ \A o \in Owed : o.name = r.name => r.time < o.time

(* The task now started is the latest of all. *)
RanKeys ==
    \A r \in ran : r.pk <= lastPk /\ (pc = "call" => r.pk < lastPk)

(* What the pass has still to visit is as the snapshot says. *)
SnapshotCurrent ==
    /\ \A n \in Unvisited : snap[n] = rows[n]
    /\ pc = "cancel" => ~HasRemaining(snap[cur])

(* Where results are finalized inline, the thread is at nothing else. *)
InlineFinalizer ==
    ~async => /\ fin # {} => pc = "finalizing"
              /\ \A f, g \in fin : f = g

(* The inductive invariant behind the order of the tasks of an entry and   *)
(* the refinement of Schedule.                                             *)
TimesInv ==
    /\ NextOnGrid
    /\ OwedTimes
    /\ RanTimes
    /\ RanKeys
    /\ TaskTimesAdvance
    /\ SnapshotCurrent
------------------------------------------------------------------------------
(* A key is that of one result and of one finalizer at most. *)
OneKey ==
    /\ \A r, s \in results : r.pk = s.pk => r = s
    /\ \A f, g \in fin : f.pk = g.pk => f = g

(* What a result reads as while it is being finalized. *)
StatusKnown ==
    /\ \A f \in fin, r \in results : r.pk = f.pk =>
           /\ f.phase = "save" => r.status = "in-progress"
           /\ f.phase \in {"callback", "report", "except"} => r.status = f.outcome
    /\ pc \in {"call", "acting"} =>
           \A r \in results : r.pk = lastPk => r.status = "in-progress"

(* The inductive invariant behind OutcomeIsFinal. *)
OutcomesInv == OneKey /\ StatusKnown
------------------------------------------------------------------------------
(* The server does not shut its worker down. *)
NoShutdown == "stop" \notin ApiOps

(* The inductive invariant behind StoppedIsUnhealthy: the file comes first. *)
FileFirst ==
    /\ interrupt \/ (\E f \in fin : f.phase = "restart") => "sdr_unhealthy" \in health
    /\ pc = "stopped" => interrupt
==============================================================================
