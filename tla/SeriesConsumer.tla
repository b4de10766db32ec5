--------------------------- MODULE SeriesConsumer ---------------------------
(***************************************************************************)
(* One entry whose due times the scheduler takes at arbitrary moments, as  *)
(* _take_pending_task_time and _cancel_if_completed do on every pass.  The *)
(* times taken and the times left are compared with the series the entry's *)
(* start, stop and interval define.                                        *)
(***************************************************************************)
EXTENDS ScheduleTimes

CONSTANTS MaxTime,     \* the clock's bound
          Series       \* the entries that may be scheduled

(* The entries are new ones, and the clock's bound lies beyond their start *)
(* and their interval: 2 * MaxTime is past the next time of any of them.   *)
ASSUME SeriesAssumption ==
    /\ MaxTime \in Nat
    /\ \A e \in Series :
           /\ e \in Entry /\ e.active /\ e.next = e.start
           /\ e.start <= MaxTime
           /\ e.interval # None => e.interval <= MaxTime

VARIABLES now,         \* timefn()
          entry,       \* the entry, as its row and the snapshot agree on it
          taken,       \* every time take_pending has returned
          tasks        \* the most recent time of each take: a task each

vars == <<now, entry, taken, tasks>>

Init ==
    /\ now = 0
    /\ entry \in Series
    /\ taken = {}
    /\ tasks = {}

Tick ==
    /\ now < MaxTime
    /\ now' = now + 1
    /\ UNCHANGED <<entry, taken, tasks>>

(* Mutant: take_until(now) leaves the time that is due this very second. *)
TakePendingLate ==
    /\ taken' = taken \cup RemainingTimes(entry, now)
    /\ tasks' = IF Due(entry, now) THEN tasks \cup {LastDue(entry, now)} ELSE tasks
    /\ entry' = TakeUntil(entry, now)
    /\ UNCHANGED now

(* _take_pending_task_time *)
TakePending ==
    /\ taken' = taken \cup RemainingTimes(entry, now + 1)
    /\ tasks' = IF Due(entry, now + 1) THEN tasks \cup {LastDue(entry, now + 1)} ELSE tasks
    /\ entry' = TakeUntil(entry, now + 1)
    /\ UNCHANGED now

(* _cancel_if_completed *)
CancelIfCompleted ==
    /\ entry.active
    /\ ~HasRemaining(entry)
    /\ entry' = [entry EXCEPT !.active = FALSE]
    /\ UNCHANGED <<now, taken, tasks>>

Next == Tick \/ TakePending \/ CancelIfCompleted

Spec == Init /\ [][Next]_vars /\ WF_vars(Tick) /\ WF_vars(TakePending)
             /\ WF_vars(CancelIfCompleted)
------------------------------------------------------------------------------
(* The series itself, from the entry's documentation: start, then every    *)
(* interval seconds (once, without an interval), before stop.              *)
SeriesTimes ==
    {t \in entry.start .. (2 * MaxTime) :
        /\ entry.stop # None => t < entry.stop
        /\ IF entry.interval = None
           THEN t = entry.start
           ELSE \E k \in 0 .. (2 * MaxTime - entry.start) :
                    t = entry.start + k * entry.interval}

(* Taking splits the series: what was taken and what remains are disjoint, *)
(* and together they are the series, none lost and none added              *)
(* (schedule_entry.py, take_until and get_remaining_times).                *)
SplitsSeries ==
    LET left == RemainingTimes(entry, 2 * MaxTime + 1) IN
    /\ taken \cap left = {}
    /\ taken \cup left = SeriesTimes

(* has_remaining_times, which decides whether an entry is cancelled, agrees *)
(* with the times that are left (schedule_entry.py, has_remaining_times).   *)
CancelsOnlyFinished ==
    HasRemaining(entry) <=> RemainingTimes(entry, 2 * MaxTime + 1) # {}

(* After a take at `now` no time up to now is left, so the next pass        *)
(* cannot make a second task of a second that has passed; the task made is  *)
(* the latest such time (scheduler.py, _compress_past_task_times).          *)
TakesEverythingDue ==
    [][\A t \in taken' \ taken :
           /\ \A s \in SeriesTimes : s <= now => s \in taken'
           /\ \E m \in tasks' \ tasks : t <= m]_vars

(* An entry whose series ends within the run is eventually inactive with   *)
(* every one of its times taken: nothing due is left behind.               *)
FiniteSeriesEnds ==
    (\A t \in SeriesTimes : t <= MaxTime)
        ~> (~entry.active /\ taken = SeriesTimes)
==============================================================================
