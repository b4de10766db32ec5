------------------------- MODULE SchedulerProperties -------------------------
(* What the scheduler promises, over the state machine of Scheduler. *)
EXTENDS Scheduler
------------------------------------------------------------------------------
(* Without edits of entries: whatever crashes, deletions of results, stops *)
(* and disk cleaning do.                                                   *)

(* Successive tasks of an entry have successive times: a scheduled time is *)
(* never run twice and never after a later one, not even when the process  *)
(* dies between consuming the time and running the task                    *)
(* (scheduler.py, _take_pending_task_time saves before anything runs).     *)
TaskTimesAdvance ==
    \A s, t \in ran : s.name = t.name /\ s.pk < t.pk => s.time < t.time

(* A task runs at a time of its entry's series - start plus a multiple of  *)
(* interval, before stop - however late the passes are and whatever a      *)
(* restart skipped (schedule_entry.py, take_until).                        *)
RunsOnGrid ==
    \A t \in ran :
        LET e == rows[t.name] IN
        /\ e # None
        /\ t.time >= e.start
        /\ e.stop # None => t.time < e.stop
        /\ IF e.interval = None
           THEN t.time = e.start
           ELSE (t.time - e.start) % e.interval = 0

(* Every result's task id is below its entry's next_task_id, so the next   *)
(* task cannot collide with a result (schedule_entry.py, get_next_task_id; *)
(* scheduler.py, reset_next_task_id).                                      *)
IdsAhead ==
    \A r \in results : rows[r.name] # None /\ r.id < rows[r.name].id

(* Only a deletion of results at the wrong moment kills the thread: it     *)
(* dies where it indexes a query after the rows it counted or read before  *)
(* have vanished, in reset_next_task_id and in the saves of results.  No   *)
(* take, queueing or start of a task and no write of a result ever fails   *)
(* (scheduler.py, run and its exception handler; task_result.py, save).    *)
RowVanished ==
    \/ pc = "resetId" /\ IdsInPlace(cur, count - 1) = {}
    \/ pc = "first" /\ ResultsOf(task.name) = {}
    \/ pc = "clean" /\ Vanished(oldest)
    \/ ~async /\ \E f \in fin :
           \/ f.step = "first" /\ ResultsOf(f.task.name) = {}
           \/ f.step = "clean" /\ Vanished(f.oldest)

DiesOnlyOfVanishedRows == [][pc' = "dead" /\ pc # "dead" => RowVanished]_vars

(* A recorded outcome stays: a finished result never reads in-progress     *)
(* again, a failure never turns into a success or the reverse; only a      *)
(* failed notification replaces an outcome (scheduler.py,                  *)
(* _finalize_task_result).                                                 *)
OutcomeIsFinal ==
    [][\A r \in results, s \in results' :
           r.pk = s.pk /\ r.status # "in-progress" =>
               s.status \in {r.status, "notification_failed"}]_vars

(* Who will settle a result that is in progress: the thread that has       *)
(* started its task, or a finalizer that has not recorded the outcome yet. *)
Owned(pk) ==
    \/ pc \in {"call", "acting"} /\ lastPk = pk
    \/ \E f \in fin : f.pk = pk /\ f.phase = "save"

Forgotten == {r \in results : r.status = "in-progress" /\ ~Owned(r.pk)}

(* A result is left in progress, with nobody to settle it, in two ways     *)
(* only: the process is replaced, or the oldest result that the save of    *)
(* its outcome was about to remove vanished under it, so that the save     *)
(* ended with an IndexError (scheduler.py, _finalize_task_result;          *)
(* task_result.py, save).  No other death, failure or deletion does it.    *)
NoneForgotten ==
    [][\A r \in Forgotten' \ Forgotten :
           \/ pc' = "start"
           \/ \E f \in fin : f.pk = r.pk /\ f.step = "clean" /\ Vanished(f.oldest)]_vars

(* The times in the thread's hands: the one just taken, those queued, and  *)
(* that of the task whose action is not called yet.                        *)
Taken == IF pc \in {"cancel", "assign"} /\ taken # None
         THEN {[name |-> cur, time |-> taken]} ELSE {}
Queued == {[name |-> t.name, time |-> t.time] : t \in pending}
Started == IF pc \in {"query", "first", "clean", "create", "call"}
           THEN {[name |-> task.name, time |-> task.time]} ELSE {}

Owed == Taken \cup Queued \cup Started

EntrySeries == [n \in Names |-> IF rows[n] = None THEN None ELSE
                   [start |-> rows[n].start, stop |-> rows[n].stop,
                    interval |-> rows[n].interval]]
EntryFront == [n \in Names |-> IF rows[n] = None THEN 0 ELSE rows[n].next]
Runs == {[name |-> r.name, time |-> r.time] : r \in ran}

Abstract == INSTANCE Schedule WITH
    series <- EntrySeries, front <- EntryFront, open <- ActiveNames,
    owed <- Owed, runs <- Runs

(* The scheduler implements the schedule: whatever the interleaving of     *)
(* passes, finalizers, deletions, stops and crashes, the times of an entry *)
(* are taken in order, at most one is owed at a time, and each is run at   *)
(* most once (scheduler.py, _consume_schedule).                            *)
ImplementsSchedule == Abstract!Spec
------------------------------------------------------------------------------
(* Under edits of entries and results at any moment. *)

(* A result refers to an entry that exists, although entries and results   *)
(* are deleted while tasks run and finalizers insert deleted results again *)
(* (task_result.py, on_delete=PROTECT).                                    *)
ResultsHaveEntries == \A r \in results : rows[r.name] # None

(* What the environment owes the thread: a restarted process comes to run  *)
(* it, before a probe restarts the process once more.  compose.yaml,       *)
(* autoheal and the settings do not guarantee it (Supervision, Loops).     *)
StartsUp == (pc = "start") ~> (pc # "start")

(* Whatever kills the thread, the health file it leaves makes the          *)
(* supervisor restart it; and if restarted processes come to run it, it    *)
(* clears the file and gets past the recomputation of the ids, whatever    *)
(* the deletions behind its death left (scheduler.py, run; compose.yaml    *)
(* healthcheck; autoheal).                                                 *)
Recovers ==
    /\ (pc = "dead") ~> (pc = "start")
    /\ StartsUp => ((pc = "dead") ~> (pc = "check"))

(* An entry that is due is served, if restarted processes come to run the  *)
(* thread: its due times are consumed, or a user or the end of its series  *)
(* takes it out of the schedule (scheduler.py, _consume_schedule).         *)
IsDue(n) == rows[n] # None /\ rows[n].active /\ rows[n].next <= now

DueEntriesServed == StartsUp => \A n \in Names : IsDue(n) ~> ~IsDue(n)
------------------------------------------------------------------------------
(* Failing actions and interruption. *)

(* A thread that stopped because of failures is reported unhealthy, so it  *)
(* never stays stopped unnoticed; stop() comes after the file              *)
(* (scheduler.py, _finalize_task_result; health_check_handler.py).         *)
StoppedIsUnhealthy == pc = "stopped" => "sdr_unhealthy" \in health

(* Every task that got a result gets an outcome, whether it failed or not  *)
(* and whatever the other finalizers do, unless the process is replaced or *)
(* a former one left results in progress, which nobody settles             *)
(* (scheduler.py, _finalize_task_result).                                  *)
InProgress == {r \in results : r.status = "in-progress"}

ResultsSettle ==
    (InProgress # {} /\ Forgotten = {}) ~> (pc = "start" \/ InProgress = {})

(* MAX_FAILURES consecutive failures end in a restart, even when a later   *)
(* task succeeds (scheduler.py, trigger_api_restart).                      *)
FailuresRestart == (failures >= MaxFailures) ~> (pc = "start")

(* stop() takes effect: a thread that is in its loop leaves it after the   *)
(* pass, or the process is replaced first (scheduler.py, interrupt_flag).  *)
StopTakesEffect == interrupt ~> (pc \in {"stopped", "start"} \/ ~interrupt)

(* A queued task leaves the queue only by being run, unless the process is *)
(* replaced or told to stop: a failing task, its finalizer and what they   *)
(* do to the tables never take the rest of the pass with them              *)
(* (scheduler.py, _consume_task_queue and _call_task_action).              *)
QueuedTasksRun ==
    [][\A t \in pending \ pending' :
           (pc' = "query" /\ task' = t) \/ pc' = "start" \/ interrupt]_vars
------------------------------------------------------------------------------
(* What the repository says and the code does not do. *)

(* is_active "indicates whether the entry should be removed from the       *)
(* scheduler" (schedule_entry.py): an entry a user deactivated stays       *)
(* inactive until a request activates it, so no step of the scheduler      *)
(* thread turns an inactive entry active.                                  *)
OnlyRequestsActivate ==
    [][\A n \in Names :
           /\ rows[n] # None /\ ~rows[n].active
           /\ rows'[n] # None /\ rows'[n].active
           => \E c \in Clients : req[c] # None /\ req'[c] = None]_vars

(* "If given, the scheduler will POST a TaskResult JSON object to this URL *)
(* after each task completes" (schedule_entry.py, callback_url): the       *)
(* result of a task goes to the URL of the entry that created the task.    *)
CallbackGoesToOwnEntry ==
    [][\A f \in fin : f.phase = "callback" /\ f \notin fin' /\ pc' # "start"
           => CallbackEntry = f.task.name]_vars
==============================================================================
