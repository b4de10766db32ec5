---------------------------- MODULE ScheduleTimes ----------------------------
(***************************************************************************)
(* The task times of one schedule entry: the pure part of                  *)
(* schedule/models/schedule_entry.py.  An entry stands for the series      *)
(* start, start + interval, ... below stop; next_task_time marks how far   *)
(* the scheduler has consumed it.  Times are whole seconds                 *)
(* (scheduler/utils.py, timefn).                                           *)
(***************************************************************************)
EXTENDS Integers

CONSTANT None       \* Python's None: no stop, no interval, no such row

ASSUME NoneAssumption == None \notin Int

(* A row of the schedule table, restricted to what the scheduler reads.    *)
Entry == [active   : BOOLEAN,                \* is_active
          start    : Int,
          stop     : Int \cup {None},
          interval : (Nat \ {0}) \cup {None},
          prio     : Int,
          next     : Int,                    \* next_task_time
          id       : Nat \ {0}]              \* next_task_id

ASSUME NoneIsNoEntry == None \notin Entry
------------------------------------------------------------------------------
(* range(first, stop, step) of Python, as the set of its members. *)
PyRange(first, stop, step) ==
    {t \in first .. (stop - 1) : (t - first) % step = 0}

(* range(first, stop, step)[-1] of a non-empty range. *)
PyRangeLast(first, stop, step) ==
    first + (((stop - 1) - first) \div step) * step

(* min(t for t in (until, stop) if t is not None) *)
Horizon(e, until) == IF e.stop # None /\ e.stop < until THEN e.stop ELSE until

(* `interval or time_slice`: a one-shot entry spans its slice in one step. *)
Step(e, until) ==
    IF e.interval = None THEN Horizon(e, until) - e.next ELSE e.interval

(* get_remaining_times(until) is not empty. *)
Due(e, until) == e.active /\ e.next < Horizon(e, until)

(* get_remaining_times(until), for an `until` that is given. *)
RemainingTimes(e, until) ==
    IF Due(e, until)
    THEN PyRange(e.next, Horizon(e, until), Step(e, until))
    ELSE {}

(* times[-1]: the only one of the taken times that becomes a task          *)
(* (_compress_past_task_times drops the others).                           *)
LastDue(e, until) == PyRangeLast(e.next, Horizon(e, until), Step(e, until))

(* Mutants of TakeUntil: the last time taken stays in the series; a        *)
(* periodic entry restarts from `until`; a one-shot entry keeps its flag.  *)
TakeUntilKeepsLast(e, until) ==
    CASE ~Due(e, until) -> e
      [] Due(e, until) /\ e.interval # None ->
             [e EXCEPT !.next = LastDue(e, until)]
      [] OTHER -> [e EXCEPT !.active = FALSE]

TakeUntilDrifts(e, until) ==
    CASE ~Due(e, until) -> e
      [] Due(e, until) /\ e.interval # None ->
             [e EXCEPT !.next = (until - 1) + e.interval]
      [] OTHER -> [e EXCEPT !.active = FALSE]

TakeUntilOneShotStays(e, until) ==
    IF Due(e, until) /\ e.interval # None
    THEN [e EXCEPT !.next = LastDue(e, until) + e.interval]
    ELSE e

(* take_until(until): what is left of the entry once its due times are     *)
(* taken.                                                                  *)
TakeUntil(e, until) ==
    CASE ~Due(e, until) -> e
      [] Due(e, until) /\ e.interval # None ->
             [e EXCEPT !.next = LastDue(e, until) + e.interval]
      [] OTHER -> [e EXCEPT !.active = FALSE]

(* Mutant: the stop time counts as one of the times. *)
HasRemainingAtStop(e) == e.active /\ (e.stop # None => e.next <= e.stop)

(* has_remaining_times(): next_task_time \in get_remaining_times(None). *)
HasRemaining(e) == e.active /\ (e.stop # None => e.next < e.stop)

(* next_schedulable_timefn *)
NextSchedulable(now) == now + 1

(* Mutant: task ids count from 0. *)
NewEntryFromZero(start, relativeStop, interval, prio) ==
    [active   |-> TRUE,
     start    |-> start,
     stop     |-> IF relativeStop = None THEN None ELSE start + relativeStop,
     interval |-> interval,
     prio     |-> prio,
     next     |-> start,
     id       |-> 0]

(* __init__: a new entry starts its series at start; relative_stop counts  *)
(* from start.                                                             *)
NewEntry(start, relativeStop, interval, prio) ==
    [active   |-> TRUE,
     start    |-> start,
     stop     |-> IF relativeStop = None THEN None ELSE start + relativeStop,
     interval |-> interval,
     prio     |-> prio,
     next     |-> start,
     id       |-> 1]

(* save() of an instance loaded as `old` and modified into `new`: a new    *)
(* start or interval restarts the series, never in the past.               *)
OnSave(old, new, now) ==
    IF new.start # old.start \/ new.interval # old.interval
    THEN [new EXCEPT !.next = IF NextSchedulable(now) < new.start
                              THEN new.start ELSE NextSchedulable(now)]
    ELSE new
==============================================================================
