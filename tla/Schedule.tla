------------------------------ MODULE Schedule ------------------------------
(***************************************************************************)
(* What the sensor promises about a schedule while nobody edits it, told   *)
(* without threads, queues and tables.  Every entry stands for a series of *)
(* times.  They are taken in order; a taking skips what is late but the    *)
(* last, and owes a run at that time.  A time owed is run once, after all  *)
(* earlier runs of its entry, or lost when the process is.                 *)
(***************************************************************************)
EXTENDS Integers

CONSTANTS Names,     \* names an entry may have
          None       \* no entry, no stop, no interval

VARIABLES series,    \* the entries: a Series or None for each name
          front,     \* what is before it has been taken
          open,      \* the names whose series is not over
          owed,      \* times taken and not run yet
          runs       \* times run

vars == <<series, front, open, owed, runs>>

Series == [start : Int, stop : Int \cup {None}, interval : (Nat \ {0}) \cup {None}]

OnSeries(s, t) ==
    /\ s.start <= t
    /\ s.stop # None => t < s.stop
    /\ IF s.interval = None THEN t = s.start ELSE (t - s.start) % s.interval = 0

Init ==
    /\ series = [n \in Names |-> None]
    /\ front = [n \in Names |-> 0]
    /\ open = {}
    /\ owed = {}
    /\ runs = {}

Post(n) ==
    /\ series[n] = None
    /\ series'[n] \in Series
    /\ series' = [series EXCEPT ![n] = series'[n]]
    /\ front' = [front EXCEPT ![n] = series'[n].start]
    /\ open' = open \cup {n}
    /\ runs' = {r \in runs : r.name # n}
    /\ UNCHANGED owed

(* o is the last time that is due; the next one is an interval later.      *)
Take(o) ==
    /\ o.name \in open
    /\ OnSeries(series[o.name], o.time)
    /\ front[o.name] <= o.time
    /\ \A p \in owed : p.name # o.name
    /\ owed' = owed \cup {o}
    /\ IF series[o.name].interval = None
       THEN open' = open \ {o.name} /\ UNCHANGED front
       ELSE /\ front' = [front EXCEPT ![o.name] = o.time + series[o.name].interval]
            /\ UNCHANGED open
    /\ UNCHANGED <<series, runs>>

(* A series is over when what is left of it is past its stop. *)
Close(n) ==
    /\ n \in open
    /\ series[n].stop # None
    /\ series[n].stop <= front[n]
    /\ open' = open \ {n}
    /\ UNCHANGED <<series, front, owed, runs>>

Run(o) ==
    /\ o \in owed
    /\ \A r \in runs : r.name = o.name => r.time < o.time
    /\ owed' = owed \ {o}
    /\ runs' = runs \cup {o}
    /\ UNCHANGED <<series, front, open>>

(* All that is owed, never a part of it. *)
Lose ==
    /\ owed' = {}
    /\ UNCHANGED <<series, front, open, runs>>

Next ==
    \/ \E n \in Names : Post(n) \/ Close(n)
    \/ \E o \in owed' \ owed : Take(o)
    \/ \E o \in owed : Run(o)
    \/ Lose

Spec == Init /\ [][Next]_vars
==============================================================================
