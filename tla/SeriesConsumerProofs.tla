------------------------- MODULE SeriesConsumerProofs -------------------------
(***************************************************************************)
(* However late and however often the scheduler takes the due times of an  *)
(* entry, it takes the series that start, stop and interval define.        *)
(***************************************************************************)
EXTENDS SeriesConsumer, ScheduleTimesProofs

(* What was taken is the series up to next_task_time; an entry without     *)
(* interval is taken as a whole.                                           *)
TakenSoFar ==
    IF entry.interval = None
    THEN taken = IF entry.active THEN {} ELSE SeriesTimes
    ELSE /\ taken = {t \in SeriesTimes : t < entry.next}
         /\ entry.active \/ (entry.stop # None /\ entry.stop <= entry.next)

SeriesTypes ==
    /\ now \in 0 .. MaxTime
    /\ entry \in Entry
    /\ OnGrid(entry)
    /\ entry.next <= 2 * MaxTime
    /\ entry.interval # None => entry.interval <= MaxTime

SeriesInv == SeriesTypes /\ TakenSoFar /\ tasks \subseteq taken
------------------------------------------------------------------------------
LEMMA SeriesTimesAre ==
    ASSUME SeriesTypes
    PROVE  SeriesTimes = {t \in Int : InSeries(entry, t) /\ t <= 2 * MaxTime}
<1>1. /\ entry.start \in Int /\ MaxTime \in Nat
      /\ entry.interval # None => entry.interval \in Nat \ {0}
  BY SeriesAssumption DEF SeriesTypes, Entry
<1>2. ASSUME NEW t \in Int, entry.start <= t, t <= 2 * MaxTime, entry.interval # None
      PROVE  (t - entry.start) % entry.interval = 0
                 <=> \E k \in 0 .. (2 * MaxTime - entry.start) :
                         t = entry.start + k * entry.interval
  <2> DEFINE d == t - entry.start
             i == entry.interval
  <2>1. d \in Nat /\ i \in Nat \ {0} /\ d <= 2 * MaxTime - entry.start
    BY <1>1, <1>2
  <2>2. t = entry.start + d
    BY <1>1
  <2> HIDE DEF d, i
  <2>3. ASSUME d % i = 0 PROVE \E k \in 0 .. (2 * MaxTime - entry.start) : d = k * i
    <3>1. PICK k \in Nat : d = k * i /\ k <= d
      BY <2>1, <2>3, Multiple
    <3> QED
      BY <1>1, <2>1, <3>1
  <2>4. ASSUME NEW k \in 0 .. (2 * MaxTime - entry.start), d = k * i PROVE d % i = 0
    BY <1>1, <2>1, <2>4, MultipleRemainder
  <2>5. \A k \in 0 .. (2 * MaxTime - entry.start) : t = entry.start + k * i <=> d = k * i
    <3>1. ASSUME NEW k \in 0 .. (2 * MaxTime - entry.start)
          PROVE  t = entry.start + k * i <=> d = k * i
      <4>1. k * i \in Int
        BY <1>1, <2>1
      <4> QED
        BY <1>1, <2>1, <2>2, <4>1
    <3> QED
      BY <3>1
  <2>6. d % i = 0 <=> \E k \in 0 .. (2 * MaxTime - entry.start) : t = entry.start + k * i
    BY <2>3, <2>4, <2>5
  <2> QED
    BY <2>6 DEF d, i
<1>3. \A t : t \in entry.start .. (2 * MaxTime) <=>
                 t \in Int /\ entry.start <= t /\ t <= 2 * MaxTime
  BY <1>1
<1>4. \A t : t \in SeriesTimes <=> t \in Int /\ InSeries(entry, t) /\ t <= 2 * MaxTime
  <2>1. ASSUME NEW t \in Int, entry.start <= t, t <= 2 * MaxTime
        PROVE  t \in SeriesTimes <=> InSeries(entry, t)
    BY <1>2, <1>3, <2>1 DEF SeriesTimes, InSeries
  <2> QED
    BY <1>3, <2>1 DEF SeriesTimes, InSeries
<1> QED
  BY <1>4

(* What a take returns, in terms of the series.                            *)
LEMMA RemainingOfSeries ==
    ASSUME SeriesTypes, NEW until \in Int, until <= 2 * MaxTime + 1, Due(entry, until)
    PROVE  /\ RemainingTimes(entry, until) =
                  {t \in SeriesTimes : entry.next <= t /\ t < until}
           /\ LastDue(entry, until) \in RemainingTimes(entry, until)
           /\ \A t \in RemainingTimes(entry, until) : t <= LastDue(entry, until)
           /\ entry.interval # None =>
                  \A t \in SeriesTimes : t < TakeUntil(entry, until).next => t < until
<1>1. MaxTime \in Nat
  BY SeriesAssumption
<1>2. \A t \in Int : t < until => t <= 2 * MaxTime
  BY <1>1
<1> QED
  BY <1>2, SeriesTimesAre, RemainingTimesAreTheSeries DEF SeriesTypes

LEMMA InitSeries == Init => SeriesInv
<1> SUFFICES ASSUME Init PROVE SeriesInv
  OBVIOUS
<1>1. /\ entry \in Entry /\ entry.active /\ entry.next = entry.start /\ MaxTime \in Nat
      /\ entry.start \in Int /\ entry.start <= MaxTime
      /\ entry.interval # None => entry.interval \in Nat \ {0} /\ entry.interval <= MaxTime
  BY SeriesAssumption DEF Init, Entry
<1>2. OnGrid(entry)
  BY <1>1 DEF OnGrid
<1>3. SeriesTypes
  BY <1>1, <1>2 DEF Init, SeriesTypes
<1>4. \A t \in SeriesTimes : t \in Int /\ entry.start <= t
  BY <1>3, SeriesTimesAre DEF InSeries
<1>5. {t \in SeriesTimes : t < entry.next} = {}
  BY <1>1, <1>4
<1>6. TakenSoFar
  BY <1>1, <1>5 DEF Init, TakenSoFar
<1> QED
  BY <1>3, <1>6 DEF Init, SeriesInv

(* The entry after a take: on its grid, and past every time up to now.     *)
LEMMA TakenEntry ==
    ASSUME SeriesTypes, NEW until \in Int, until <= MaxTime + 1, Due(entry, until),
           entry' = TakeUntil(entry, until), UNCHANGED now
    PROVE  SeriesTypes' /\ SeriesTimes' = SeriesTimes
<1>1. /\ entry' \in Entry
      /\ entry'.start = entry.start /\ entry'.stop = entry.stop
      /\ entry'.interval = entry.interval
  BY TakeUntilType DEF SeriesTypes
<1>2. SeriesTimes' = SeriesTimes
  BY <1>1 DEF SeriesTimes
<1>3. /\ entry \in Entry /\ entry.next \in Int /\ MaxTime \in Nat /\ entry.next <= 2 * MaxTime
      /\ entry.interval # None => entry.interval \in Nat \ {0} /\ entry.interval <= MaxTime
      /\ OnGrid(entry) /\ entry.start \in Int
  BY SeriesAssumption DEF SeriesTypes, Entry
<1>4. CASE entry.interval = None
  <2>1. entry'.next = entry.next
    BY <1>3, <1>4 DEF TakeUntil, Entry
  <2> QED
    BY <1>1, <1>2, <1>4, <2>1 DEF SeriesTypes, OnGrid
<1>5. CASE entry.interval # None
  <2>1. entry'.next = LastDue(entry, until) + entry.interval
    BY <1>3, <1>5 DEF TakeUntil, Entry
  <2>2. LastDue(entry, until) \in Int /\ LastDue(entry, until) < until
    BY <1>3, LastDueIsDue
  <2>3. entry'.next <= 2 * MaxTime
    BY <1>3, <1>5, <2>1, <2>2
  <2>4. PICK k \in Nat : entry'.next = entry.next + k * entry.interval
    BY <1>3, <1>5, TakeUntilStaysOnGrid
  <2>5. OnGrid(entry')
    <3>1. entry.start <= entry.next /\ (entry.next - entry.start) % entry.interval = 0
      BY <1>3, <1>5 DEF OnGrid
    <3>2. /\ entry.start <= entry.next + k * entry.interval
          /\ ((entry.next + k * entry.interval) - entry.start) % entry.interval = 0
      BY <1>3, <1>5, <3>1, GridPoints
    <3> QED
      BY <1>1, <1>5, <2>4, <3>2 DEF OnGrid
  <2>6. OnGrid(entry)'
    BY <2>5 DEF OnGrid
  <2> QED
    BY <1>1, <1>2, <1>3, <2>3, <2>6 DEF SeriesTypes
<1> QED
  BY <1>4, <1>5

LEMMA TakePendingSeries ==
    ASSUME SeriesInv, TakePending
    PROVE  /\ SeriesInv'
           /\ \A t \in taken' \ taken :
                  /\ \A s \in SeriesTimes : s <= now => s \in taken'
                  /\ \E m \in tasks' \ tasks : t <= m
<1> DEFINE until == now + 1
<1>1. /\ SeriesTypes /\ TakenSoFar /\ tasks \subseteq taken
      /\ until \in Int /\ until <= MaxTime + 1 /\ until <= 2 * MaxTime + 1
      /\ now \in Int /\ \A s \in Int : s <= now <=> s < until
  BY SeriesAssumption DEF SeriesInv, SeriesTypes
<1>2. /\ taken' = taken \cup RemainingTimes(entry, until)
      /\ tasks' = IF Due(entry, until) THEN tasks \cup {LastDue(entry, until)} ELSE tasks
      /\ entry' = TakeUntil(entry, until)
      /\ UNCHANGED now
  BY DEF TakePending
<1> HIDE DEF until
<1>3. CASE ~Due(entry, until)
  <2>1. taken' = taken /\ tasks' = tasks /\ entry' = entry
    BY <1>2, <1>3 DEF RemainingTimes, TakeUntil
  <2> QED
    BY <1>1, <1>2, <2>1 DEF SeriesInv, SeriesTypes, TakenSoFar, SeriesTimes, OnGrid
<1>4. CASE Due(entry, until)
  <2> DEFINE last == LastDue(entry, until)
             due == {t \in SeriesTimes : entry.next <= t /\ t < until}
  <2>1. /\ taken' = taken \cup due
        /\ last \in due /\ \A t \in due : t <= last
        /\ entry.interval # None => \A t \in SeriesTimes : t < entry'.next => t < until
    BY <1>1, <1>2, <1>4, RemainingOfSeries
  <2>2. tasks' = tasks \cup {last}
    BY <1>2, <1>4
  <2>3. SeriesTypes' /\ SeriesTimes' = SeriesTimes
    BY <1>1, <1>2, <1>4, TakenEntry
  <2>4. /\ entry \in Entry /\ entry.next \in Int /\ entry.start \in Int
        /\ entry.active
        /\ \A t \in SeriesTimes : t \in Int /\ entry.start <= t /\ InSeries(entry, t)
    BY <1>1, <1>4, SeriesTimesAre DEF SeriesTypes, Entry, Due, InSeries
  <2>5. entry'.interval = entry.interval /\ entry'.stop = entry.stop
    BY <1>1, <1>2, <2>4, TakeUntilType
  <2>6. /\ TakenSoFar' /\ last \notin taken
        /\ \A s \in SeriesTimes : s < until => s \in taken'
    <3>1. CASE entry.interval = None
      <4>1. entry.next = entry.start
        BY <1>1, <3>1 DEF SeriesTypes, OnGrid
      <4>2. \A t \in SeriesTimes : t = entry.next
        BY <2>4, <3>1, <4>1 DEF InSeries
      <4>3. due = SeriesTimes
        BY <2>1, <4>2
      <4>4. taken = {}
        BY <1>1, <2>4, <3>1 DEF TakenSoFar
      <4>5. taken' = SeriesTimes /\ last \notin taken
        BY <2>1, <4>3, <4>4
      <4>6. entry'.active = FALSE
        BY <1>2, <1>4, <2>4, <3>1 DEF TakeUntil, Entry
      <4> HIDE DEF due, last
      <4> QED
        BY <2>3, <2>5, <3>1, <4>5, <4>6 DEF TakenSoFar
    <3>2. CASE entry.interval # None
      <4>1. taken = {t \in SeriesTimes : t < entry.next}
        BY <1>1, <3>2 DEF TakenSoFar
      <4>2. taken' = {t \in SeriesTimes : t < until \/ t < entry.next}
        BY <1>1, <2>1, <2>4, <4>1
      <4>3. last \notin taken
        BY <2>1, <2>4, <4>1
      <4>4. /\ until <= entry'.next \/ (entry.stop # None /\ entry.stop <= entry'.next)
            /\ entry.next <= entry'.next /\ entry'.next \in Int
        <5>1. entry'.next = last + entry.interval
          BY <1>2, <1>4, <2>4, <3>2 DEF TakeUntil, Entry
        <5>2. /\ last \in Int /\ entry.next <= last /\ Horizon(entry, until) <= last + entry.interval
              /\ entry.interval \in Nat
          BY <1>1, <1>4, <2>4, <3>2, LastDueIsDue, DueRange DEF Entry
        <5>3. Horizon(entry, until) = until
                  \/ (entry.stop # None /\ Horizon(entry, until) = entry.stop)
          BY DEF Horizon
        <5> HIDE DEF last
        <5> QED
          BY <2>4, <5>1, <5>2, <5>3
      <4>5. \A t \in SeriesTimes : t < entry'.next <=> t < until \/ t < entry.next
        <5>1. ASSUME NEW t \in SeriesTimes PROVE entry.stop # None => t < entry.stop
          BY <2>4 DEF InSeries
        <5>2. entry.stop # None => entry.stop \in Int
          BY <2>4 DEF Entry
        <5> QED
          BY <1>1, <2>1, <2>4, <3>2, <4>4, <5>1, <5>2
      <4>6. taken' = {t \in SeriesTimes : t < entry'.next}
        BY <4>2, <4>5
      <4>7. entry'.active
        BY <1>2, <1>4, <2>4, <3>2 DEF TakeUntil, Entry
      <4> HIDE DEF last, due
      <4> QED
        BY <2>3, <2>5, <3>2, <4>2, <4>3, <4>6, <4>7 DEF TakenSoFar
    <3> QED
      BY <3>1, <3>2
  <2>7. SeriesInv'
    BY <1>1, <2>1, <2>2, <2>3, <2>6 DEF SeriesInv
  <2>8. ASSUME NEW t \in taken' \ taken
        PROVE  /\ \A s \in SeriesTimes : s <= now => s \in taken'
               /\ \E m \in tasks' \ tasks : t <= m
    <3>1. last \in tasks' \ tasks
      BY <1>1, <2>2, <2>6
    <3>2. t <= last
      BY <2>1, <2>8
    <3> HIDE DEF last
    <3> QED
      BY <1>1, <2>4, <2>6, <3>1, <3>2
  <2> QED
    BY <2>7, <2>8
<1> QED
  BY <1>3, <1>4

LEMMA CancelSeries == ASSUME SeriesInv, CancelIfCompleted PROVE SeriesInv'
<1>1. /\ SeriesTypes /\ TakenSoFar /\ entry \in Entry /\ entry.active
      /\ entry.stop # None /\ ~(entry.next < entry.stop)
      /\ entry.next \in Int /\ entry.stop \in Int
  BY DEF SeriesInv, SeriesTypes, CancelIfCompleted, HasRemaining, Entry
<1>2. entry' = [entry EXCEPT !.active = FALSE] /\ UNCHANGED <<now, taken, tasks>>
  BY DEF CancelIfCompleted
<1>3. /\ entry' \in Entry /\ entry'.start = entry.start /\ entry'.stop = entry.stop
      /\ entry'.interval = entry.interval /\ entry'.next = entry.next
      /\ entry'.active = FALSE
  BY <1>1, <1>2 DEF Entry
<1>4. SeriesTypes' /\ SeriesTimes' = SeriesTimes
  BY <1>1, <1>2, <1>3 DEF SeriesTypes, OnGrid, SeriesTimes
<1>5. entry.interval = None => SeriesTimes = {}
  <2>1. \A t \in SeriesTimes : InSeries(entry, t)
    BY <1>1, SeriesTimesAre
  <2>2. entry.interval = None => entry.next = entry.start
    BY <1>1 DEF SeriesTypes, OnGrid
  <2> QED
    BY <1>1, <2>1, <2>2 DEF InSeries
<1>6. TakenSoFar'
  BY <1>1, <1>2, <1>3, <1>4, <1>5 DEF TakenSoFar
<1> QED
  BY <1>2, <1>4, <1>6 DEF SeriesInv

LEMMA NextSeries == ASSUME SeriesInv, [Next]_vars PROVE SeriesInv'
<1>1. CASE Tick
  <2>1. now' \in 0 .. MaxTime
    BY <1>1, SeriesAssumption DEF Tick, SeriesInv, SeriesTypes
  <2> QED
    BY <1>1, <2>1 DEF Tick, SeriesInv, SeriesTypes, TakenSoFar, SeriesTimes, OnGrid
<1>2. CASE UNCHANGED vars
  BY <1>2 DEF vars, SeriesInv, SeriesTypes, TakenSoFar, SeriesTimes, OnGrid
<1> QED
  BY <1>1, <1>2, TakePendingSeries, CancelSeries DEF Next

LEMMA SeriesInvariant == Spec => []SeriesInv
<1>1. SeriesInv /\ [Next]_vars => SeriesInv'
  BY NextSeries
<1> QED
  BY InitSeries, <1>1, PTL DEF Spec

(* has_remaining_times agrees with the times that are left.                *)
LEMMA RemainingLeft ==
    ASSUME SeriesInv
    PROVE  HasRemaining(entry) <=> Due(entry, 2 * MaxTime + 1)
<1>1. /\ entry.next \in Int /\ entry.stop \in Int \cup {None} /\ MaxTime \in Nat
      /\ entry.next <= 2 * MaxTime
  BY SeriesAssumption DEF SeriesInv, SeriesTypes, Entry
<1> QED
  BY <1>1 DEF HasRemaining, Due, Horizon
------------------------------------------------------------------------------
(* For every series, stop and interval: what was taken and what is left    *)
(* are disjoint and make up the series (schedule_entry.py, take_until).    *)
THEOREM TakesSplitSeries == Spec => []SplitsSeries
<1>1. ASSUME SeriesInv PROVE SplitsSeries
  <2> DEFINE until == 2 * MaxTime + 1
             left == RemainingTimes(entry, until)
  <2>1. /\ SeriesTypes /\ TakenSoFar /\ until \in Int /\ entry.next \in Int
        /\ entry.stop \in Int \cup {None}
        /\ \A t \in SeriesTimes : t \in Int /\ t < until /\ InSeries(entry, t)
    BY <1>1, SeriesAssumption, SeriesTimesAre DEF SeriesInv, SeriesTypes, Entry
  <2>2. CASE Due(entry, until)
    <3>1. left = {t \in SeriesTimes : entry.next <= t}
      BY <2>1, <2>2, RemainingOfSeries
    <3>2. CASE entry.interval = None
      <4>1. taken = {}
        BY <2>1, <2>2, <3>2 DEF TakenSoFar, Due
      <4>2. \A t \in SeriesTimes : t = entry.next
        BY <2>1, <3>2 DEF SeriesTypes, OnGrid, InSeries
      <4>3. left = SeriesTimes
        BY <2>1, <3>1, <4>2
      <4> HIDE DEF left
      <4> QED
        BY <4>1, <4>3 DEF SplitsSeries, left
    <3>3. CASE entry.interval # None
      <4>1. taken = {t \in SeriesTimes : t < entry.next}
        BY <2>1, <3>3 DEF TakenSoFar
      <4> QED
        BY <2>1, <3>1, <4>1 DEF SplitsSeries
    <3> QED
      BY <3>2, <3>3
  <2>3. CASE ~Due(entry, until)
    <3>1. left = {}
      BY <2>3 DEF RemainingTimes
    <3>2. ~HasRemaining(entry)
      BY <1>1, <2>3, RemainingLeft
    <3>3. taken = SeriesTimes
      <4>1. CASE entry.interval # None
        <5>1. entry.stop # None /\ entry.stop <= entry.next
          BY <2>1, <3>2, <4>1 DEF HasRemaining, TakenSoFar
        <5>2. \A t \in SeriesTimes : t < entry.next
          BY <2>1, <5>1 DEF InSeries
        <5> QED
          BY <2>1, <4>1, <5>2 DEF TakenSoFar
      <4>2. CASE entry.interval = None /\ ~entry.active
        BY <2>1, <4>2 DEF TakenSoFar
      <4>3. CASE entry.interval = None /\ entry.active
        <5>1. entry.stop # None /\ ~(entry.next < entry.stop)
          BY <3>2, <4>3 DEF HasRemaining
        <5>2. SeriesTimes = {}
          BY <2>1, <4>3, <5>1 DEF SeriesTypes, OnGrid, InSeries
        <5> QED
          BY <2>1, <4>3, <5>2 DEF TakenSoFar
      <4> QED
        BY <4>1, <4>2, <4>3
    <3> QED
      BY <3>1, <3>3 DEF SplitsSeries
  <2> QED
    BY <2>2, <2>3
<1> QED
  BY SeriesInvariant, <1>1, PTL

(* An entry is cancelled only when no time of its series is left           *)
(* (schedule_entry.py, has_remaining_times).                               *)
THEOREM CancelsFinishedOnly == Spec => []CancelsOnlyFinished
<1>1. ASSUME SeriesInv PROVE CancelsOnlyFinished
  <2>1. SeriesTypes /\ 2 * MaxTime + 1 \in Int
    BY <1>1, SeriesAssumption DEF SeriesInv
  <2>2. Due(entry, 2 * MaxTime + 1) <=> RemainingTimes(entry, 2 * MaxTime + 1) # {}
    BY <2>1, RemainingOfSeries DEF RemainingTimes
  <2> QED
    BY <1>1, <2>2, RemainingLeft DEF CancelsOnlyFinished
<1> QED
  BY SeriesInvariant, <1>1, PTL

(* A take leaves no time up to now, and makes a task of the latest: the    *)
(* times dropped by the compression are all earlier ones (scheduler.py,    *)
(* _compress_past_task_times).                                             *)
THEOREM TakesAllDue == Spec => TakesEverythingDue
<1> DEFINE A == \A t \in taken' \ taken :
                    /\ \A s \in SeriesTimes : s <= now => s \in taken'
                    /\ \E m \in tasks' \ tasks : t <= m
<1>1. SeriesInv /\ [Next]_vars => A
  <2> SUFFICES ASSUME SeriesInv, [Next]_vars PROVE A
    OBVIOUS
  <2>1. CASE TakePending
    BY <2>1, TakePendingSeries
  <2>2. CASE Tick \/ CancelIfCompleted \/ UNCHANGED vars
    BY <2>2 DEF Tick, CancelIfCompleted, vars
  <2> QED
    BY <2>1, <2>2 DEF Next
<1>2. SeriesInv /\ [Next]_vars => [A]_vars
  BY <1>1
<1> HIDE DEF A
<1>3. Spec => [][A]_vars
  BY SeriesInvariant, <1>2, PTL DEF Spec
<1> QED
  BY <1>3 DEF A, TakesEverythingDue
==============================================================================
