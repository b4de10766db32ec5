------------------------- MODULE ScheduleTimesProofs -------------------------
(* Facts about the times of one entry, for every entry and every time. *)
EXTENDS ScheduleTimes, TLAPS

(* The last member of a non-empty range(first, stop, step) is a member: it *)
(* lies from first to below stop, a whole number of steps after first      *)
(* (schedule_entry.py, take_until uses times[-1]).                         *)
LEMMA PyRangeLastBounds ==
    ASSUME NEW first \in Int, NEW stop \in Int, NEW step \in Nat \ {0}, first < stop
    PROVE  LET last == PyRangeLast(first, stop, step) IN
           /\ last \in Int
           /\ first <= last
           /\ last < stop
           /\ stop <= last + step
           /\ \E k \in Nat : last = first + k * step
<1> DEFINE d == (stop - 1) - first
           k == d \div step
           r == d % step
<1>1. d \in Nat
  OBVIOUS
<1>2. k \in Nat /\ r \in 0 .. (step - 1) /\ d = k * step + r
  BY <1>1
<1>3. k * step \in Nat
  BY <1>2
<1>4. PyRangeLast(first, stop, step) = first + k * step
  BY DEF PyRangeLast
<1> HIDE DEF k, r
<1> QED
  BY <1>2, <1>3, <1>4
------------------------------------------------------------------------------
(* When an entry is due, its horizon and step make a non-empty range. *)
LEMMA DueRange ==
    ASSUME NEW e \in Entry, NEW until \in Int, Due(e, until)
    PROVE  /\ Horizon(e, until) \in Int
           /\ Horizon(e, until) <= until
           /\ e.next < Horizon(e, until)
           /\ Step(e, until) \in Nat \ {0}
           /\ e.interval = None => e.next + Step(e, until) = Horizon(e, until)
           /\ e.interval # None => Step(e, until) = e.interval
  BY DEF Entry, Due, Horizon, Step

(* The task time of a take is one of the entry's remaining times, before   *)
(* `until` and before stop (scheduler.py, _take_pending_task_time).        *)
THEOREM LastDueIsDue ==
    ASSUME NEW e \in Entry, NEW until \in Int, Due(e, until)
    PROVE  LET last == LastDue(e, until) IN
           /\ last \in Int
           /\ e.next <= last
           /\ last < until
           /\ e.stop # None => last < e.stop
           /\ e.interval = None => last = e.next
           /\ e.interval # None => \E k \in Nat : last = e.next + k * e.interval
           /\ Horizon(e, until) <= last + Step(e, until)
<1> DEFINE h == Horizon(e, until)
           s == Step(e, until)
           last == LastDue(e, until)
<1>1. /\ h \in Int /\ h <= until /\ e.next < h /\ s \in Nat \ {0}
      /\ e.interval = None => e.next + s = h
      /\ e.interval # None => s = e.interval
  BY DueRange
<1>2. e.next \in Int /\ e.stop \in Int \cup {None}
  BY DEF Entry
<1>3. /\ last \in Int /\ e.next <= last /\ last < h /\ h <= last + s
      /\ \E k \in Nat : last = e.next + k * s
  <2>1. last = PyRangeLast(e.next, h, s)
    BY DEF LastDue
  <2> HIDE DEF h, s, last
  <2> QED
    BY <1>1, <1>2, <2>1, PyRangeLastBounds
<1>4. e.stop # None => h <= e.stop
  BY <1>2 DEF Horizon
<1>5. ASSUME e.interval = None
      PROVE  last = e.next
  <2>1. PICK k \in Nat : last = e.next + k * s
    BY <1>3
  <2>2. e.next + s = h
    BY <1>1, <1>5
  <2>3. k * s < s
    BY <1>1, <1>2, <1>3, <2>1, <2>2
  <2>4. k >= 1 => k * s >= s
    BY <1>1
  <2>5. k = 0
    BY <1>1, <2>3, <2>4
  <2> QED
    BY <1>1, <1>2, <2>1, <2>5
<1> HIDE DEF h, s, last
<1> QED
  BY <1>1, <1>2, <1>3, <1>4, <1>5 DEF h, s, last

(* Taking keeps the entry an entry and touches nothing but next_task_time  *)
(* and is_active.                                                          *)
LEMMA TakeUntilType ==
    ASSUME NEW e \in Entry, NEW until \in Int
    PROVE  /\ TakeUntil(e, until) \in Entry
           /\ TakeUntil(e, until).id = e.id
           /\ TakeUntil(e, until).start = e.start
           /\ TakeUntil(e, until).stop = e.stop
           /\ TakeUntil(e, until).interval = e.interval
           /\ TakeUntil(e, until).prio = e.prio
<1>1. CASE ~Due(e, until)
  BY <1>1 DEF TakeUntil
<1>2. CASE Due(e, until) /\ e.interval = None
  BY <1>2 DEF TakeUntil, Entry
<1>3. CASE Due(e, until) /\ e.interval # None
  <2>1. LastDue(e, until) + e.interval \in Int
    BY <1>3, LastDueIsDue DEF Entry
  <2> QED
    BY <1>3, <2>1 DEF TakeUntil, Entry
<1> QED
  BY <1>1, <1>2, <1>3

(* After a take no time before `until` is due any more: taking again at    *)
(* the same moment yields nothing (schedule_entry.py, take_until).         *)
THEOREM TakeUntilConsumes ==
    ASSUME NEW e \in Entry, NEW until \in Int
    PROVE  ~Due(TakeUntil(e, until), until)
<1>1. CASE ~Due(e, until)
  BY <1>1 DEF TakeUntil
<1>2. CASE Due(e, until) /\ e.interval = None
  BY <1>2 DEF TakeUntil, Due, Entry
<1>3. CASE Due(e, until) /\ e.interval # None
  <2>1. /\ TakeUntil(e, until).next = LastDue(e, until) + e.interval
        /\ TakeUntil(e, until).stop = e.stop
    BY <1>3 DEF TakeUntil, Entry
  <2>2. Horizon(e, until) <= LastDue(e, until) + e.interval
    BY <1>3, LastDueIsDue, DueRange
  <2>3. Horizon(TakeUntil(e, until), until) = Horizon(e, until)
    BY <2>1 DEF Horizon
  <2>4. Horizon(e, until) \in Int /\ LastDue(e, until) + e.interval \in Int
    BY <1>3, LastDueIsDue, DueRange DEF Entry
  <2> QED
    BY <2>1, <2>2, <2>3, <2>4 DEF Due
<1> QED
  BY <1>1, <1>2, <1>3

(* A take moves a periodic entry by whole intervals: its times stay on the *)
(* grid however late the take is (schedule_entry.py, take_until).          *)
THEOREM TakeUntilStaysOnGrid ==
    ASSUME NEW e \in Entry, NEW until \in Int, e.interval # None
    PROVE  \E k \in Nat : TakeUntil(e, until).next = e.next + k * e.interval
<1>1. e.next \in Int /\ e.interval \in Nat \ {0}
  BY DEF Entry
<1>2. CASE ~Due(e, until)
  <2>1. TakeUntil(e, until).next = e.next + 0 * e.interval
    BY <1>1, <1>2 DEF TakeUntil
  <2> QED
    BY <2>1
<1>3. CASE Due(e, until)
  <2>1. TakeUntil(e, until).next = LastDue(e, until) + e.interval
    BY <1>3 DEF TakeUntil, Entry
  <2>2. PICK k \in Nat : LastDue(e, until) = e.next + k * e.interval
    BY <1>3, LastDueIsDue
  <2>3. k * e.interval \in Int /\ (k + 1) * e.interval = k * e.interval + e.interval
    BY <1>1
  <2>4. TakeUntil(e, until).next = e.next + (k + 1) * e.interval
    BY <1>1, <2>1, <2>2, <2>3
  <2> QED
    BY <2>4
<1> QED
  BY <1>2, <1>3
------------------------------------------------------------------------------
(* The series of an entry. *)

(* next_task_time is a time of the series, but for its stop. *)
OnGrid(e) ==
    IF e.interval = None
    THEN e.next = e.start
    ELSE e.start <= e.next /\ (e.next - e.start) % e.interval = 0

(* start, then every interval seconds (once, without an interval), before  *)
(* stop.                                                                   *)
InSeries(e, t) ==
    /\ e.start <= t
    /\ e.stop # None => t < e.stop
    /\ IF e.interval = None
       THEN t = e.start
       ELSE (t - e.start) % e.interval = 0

(* A multiple leaves no remainder. *)
LEMMA MultipleRemainder ==
    ASSUME NEW k \in Nat, NEW i \in Nat \ {0}
    PROVE  (k * i) % i = 0
<1> DEFINE d == k * i
           q == d \div i
           r == d % i
<1>1. d \in Nat
  OBVIOUS
<1>2. q \in Nat /\ r \in 0 .. (i - 1) /\ d = q * i + r
  BY <1>1
<1>3. (k - q) * i = r
  BY <1>2
<1> HIDE DEF q, r
<1>4. k - q >= 1 => (k - q) * i >= i
  BY <1>2
<1>5. k - q <= -1 => (k - q) * i <= -i
  BY <1>2
<1>6. k - q = 0
  BY <1>2, <1>3, <1>4, <1>5
<1>7. r = 0
  BY <1>2, <1>3, <1>6
<1> QED
  BY <1>7 DEF r

(* From one point of a grid, whole intervals lead to others. *)
LEMMA GridPoints ==
    ASSUME NEW start \in Int, NEW next \in Int, NEW k \in Nat, NEW i \in Nat \ {0},
           start <= next, (next - start) % i = 0
    PROVE  start <= next + k * i /\ ((next + k * i) - start) % i = 0
<1> DEFINE d == next - start
           q == d \div i
<1>1. d \in Nat
  OBVIOUS
<1>2. q \in Nat /\ d = q * i + (d % i)
  BY <1>1
<1>3. d = q * i
  BY <1>2
<1> HIDE DEF q
<1>4. k * i \in Nat /\ q + k \in Nat /\ (q + k) * i = q * i + k * i
  BY <1>2
<1>5. (next + k * i) - start = (q + k) * i
  BY <1>3, <1>4
<1>6. ((q + k) * i) % i = 0
  BY <1>4, MultipleRemainder
<1> QED
  BY <1>4, <1>5, <1>6

(* A number without remainder is a multiple. *)
LEMMA Multiple ==
    ASSUME NEW d \in Nat, NEW i \in Nat \ {0}, d % i = 0
    PROVE  \E k \in Nat : d = k * i /\ k <= d
<1> DEFINE q == d \div i
<1>1. q \in Nat /\ d = q * i + (d % i)
  OBVIOUS
<1>2. d = q * i
  BY <1>1
<1> HIDE DEF q
<1>3. q <= q * i
  BY <1>1
<1> QED
  BY <1>1, <1>2, <1>3

(* Counted from one point of a grid or from an earlier one, the points     *)
(* after both are the same.                                                *)
LEMMA SameGrid ==
    ASSUME NEW start \in Int, NEW next \in Int, NEW t \in Int, NEW i \in Nat \ {0},
           start <= next, next <= t, (next - start) % i = 0
    PROVE  (t - next) % i = 0 <=> (t - start) % i = 0
<1>1. PICK k \in Nat : next - start = k * i
  BY Multiple
<1>2. ASSUME (t - next) % i = 0 PROVE (t - start) % i = 0
  <2>1. PICK m \in Nat : t - next = m * i
    BY <1>2, Multiple
  <2>2. t = next + m * i
    BY <2>1
  <2>3. ((next + m * i) - start) % i = 0
    BY GridPoints
  <2> QED
    BY <2>2, <2>3
<1>3. ASSUME (t - start) % i = 0 PROVE (t - next) % i = 0
  <2>1. PICK m \in Nat : t - start = m * i
    BY <1>3, Multiple
  <2>2. k * i \in Int /\ m * i \in Int /\ (m - k) * i = m * i - k * i
    BY <1>1
  <2>3. t - next = (m - k) * i
    BY <1>1, <2>1, <2>2
  <2>4. m - k <= -1 => (m - k) * i <= -i
    OBVIOUS
  <2>5. m - k \in Nat
    BY <2>3, <2>4
  <2> QED
    BY <2>3, <2>5, MultipleRemainder
<1> QED
  BY <1>2, <1>3

(* Two points of a grid less than a step apart.                            *)
LEMMA GridGap ==
    ASSUME NEW start \in Int, NEW k \in Nat, NEW m \in Nat, NEW i \in Nat \ {0},
           start + m * i < (start + k * i) + i
    PROVE  start + m * i <= start + k * i
<1>1. k * i \in Int /\ m * i \in Int /\ (m - k) * i = m * i - k * i
  OBVIOUS
<1>2. m - k >= 1 => (m - k) * i >= i
  OBVIOUS
<1>3. m - k <= 0
  BY <1>1, <1>2
<1>4. m - k <= 0 => (m - k) * i <= 0
  OBVIOUS
<1> QED
  BY <1>1, <1>3, <1>4

LEMMA SeriesMultiple ==
    ASSUME NEW e \in Entry, NEW t \in Int, InSeries(e, t), e.interval # None
    PROVE  \E k \in Nat : t = e.start + k * e.interval
<1>1. e.start \in Int /\ e.interval \in Nat \ {0}
  BY DEF Entry
<1>2. t - e.start \in Nat /\ (t - e.start) % e.interval = 0
  BY <1>1 DEF InSeries
<1>3. PICK k \in Nat : t - e.start = k * e.interval
  BY <1>1, <1>2, Multiple
<1>4. t = e.start + k * e.interval
  BY <1>1, <1>3
<1> QED
  BY <1>4

(* The remaining times of an entry are the times of its series from        *)
(* next_task_time to below the horizon; the task time is the last of them, *)
(* and a take skips no time of the series (schedule_entry.py,              *)
(* get_remaining_times and take_until).                                    *)
THEOREM RemainingTimesAreTheSeries ==
    ASSUME NEW e \in Entry, NEW until \in Int, OnGrid(e), Due(e, until)
    PROVE  /\ RemainingTimes(e, until) =
                  {t \in Int : InSeries(e, t) /\ e.next <= t /\ t < until}
           /\ LastDue(e, until) \in RemainingTimes(e, until)
           /\ \A t \in RemainingTimes(e, until) : t <= LastDue(e, until)
           /\ e.interval # None =>
                  \A t \in Int : InSeries(e, t) /\ t < TakeUntil(e, until).next => t < until
<1> DEFINE h == Horizon(e, until)
           s == Step(e, until)
           last == LastDue(e, until)
<1>1. /\ h \in Int /\ h <= until /\ e.next < h /\ s \in Nat \ {0}
      /\ e.interval = None => e.next + s = h
      /\ e.interval # None => s = e.interval
  BY DueRange
<1>2. /\ e.next \in Int /\ e.start \in Int /\ e.stop \in Int \cup {None}
      /\ e.interval # None => e.interval \in Nat \ {0}
  BY DEF Entry
<1>3. \A t \in Int : t < h <=> t < until /\ (e.stop # None => t < e.stop)
  BY <1>2 DEF Horizon
<1>4. /\ last \in Int /\ e.next <= last /\ last < h /\ h <= last + s
      /\ e.interval = None => last = e.next
      /\ e.interval # None => \E k \in Nat : last = e.next + k * e.interval
  <2>1. last < until /\ (e.stop # None => last < e.stop)
    BY LastDueIsDue
  <2> QED
    BY <1>3, <2>1, LastDueIsDue
<1>5. RemainingTimes(e, until) = {t \in e.next .. (h - 1) : (t - e.next) % s = 0}
  BY DEF RemainingTimes, PyRange
<1> HIDE DEF h, s, last
<1>6. ASSUME NEW t \in Int, e.next <= t, t < h
      PROVE  (t - e.next) % s = 0 <=> InSeries(e, t)
  <2>1. CASE e.interval = None
    <3>1. t - e.next \in 0 .. (s - 1)
      BY <1>1, <1>2, <1>6, <2>1
    <3>2. (t - e.next) % s = t - e.next
      BY <1>1, <3>1
    <3>3. (t - e.next) % s = 0 <=> t = e.next
      BY <1>2, <3>2
    <3> QED
      BY <1>2, <1>3, <1>6, <2>1, <3>3 DEF OnGrid, InSeries
  <2>2. CASE e.interval # None
    <3>1. e.start <= e.next /\ (e.next - e.start) % e.interval = 0
      BY <2>2 DEF OnGrid
    <3>2. (t - e.next) % e.interval = 0 <=> (t - e.start) % e.interval = 0
      BY <1>2, <1>6, <2>2, <3>1, SameGrid
    <3>3. e.start <= t
      BY <1>2, <1>6, <3>1
    <3> QED
      BY <1>1, <1>3, <1>6, <2>2, <3>2, <3>3 DEF InSeries
  <2> QED
    BY <2>1, <2>2
<1>7. RemainingTimes(e, until) = {t \in Int : InSeries(e, t) /\ e.next <= t /\ t < until}
  <2>1. \A t \in Int : InSeries(e, t) /\ t < until => t < h
    BY <1>3 DEF InSeries
  <2>2. \A t \in Int : t < h => t < until
    BY <1>3
  <2>3. \A t \in Int : t \in e.next .. (h - 1) <=> e.next <= t /\ t < h
    BY <1>1, <1>2
  <2>4. \A t : t \in e.next .. (h - 1) => t \in Int
    BY <1>1, <1>2
  <2>5. \A t : t \in RemainingTimes(e, until) <=>
                   t \in Int /\ InSeries(e, t) /\ e.next <= t /\ t < until
    BY <1>5, <1>6, <2>1, <2>2, <2>3, <2>4
  <2> QED
    BY <2>5
<1>8. InSeries(e, last)
  <2>1. CASE e.interval = None
    BY <1>2, <1>3, <1>4, <2>1 DEF OnGrid, InSeries
  <2>2. CASE e.interval # None
    <3>1. PICK k \in Nat : last = e.next + k * e.interval
      BY <1>4, <2>2
    <3>2. e.start <= last /\ (last - e.start) % e.interval = 0
      BY <1>2, <2>2, <3>1, GridPoints DEF OnGrid
    <3> QED
      BY <1>3, <1>4, <2>2, <3>2 DEF InSeries
  <2> QED
    BY <2>1, <2>2
<1>9. last \in RemainingTimes(e, until)
  BY <1>3, <1>4, <1>7, <1>8
<1>10. ASSUME NEW t \in Int, InSeries(e, t), t < last + s
       PROVE  t <= last
  <2>1. CASE e.interval = None
    BY <1>2, <1>4, <1>8, <1>10, <2>1 DEF InSeries
  <2>2. CASE e.interval # None
    <3>1. PICK m \in Nat : t = e.start + m * e.interval
      BY <1>10, <2>2, SeriesMultiple
    <3>2. PICK k \in Nat : last = e.start + k * e.interval
      BY <1>4, <1>8, <2>2, SeriesMultiple
    <3>3. e.start + m * e.interval < (e.start + k * e.interval) + e.interval
      BY <1>1, <1>10, <2>2, <3>1, <3>2
    <3> QED
      BY <1>2, <2>2, <3>1, <3>2, <3>3, GridGap
  <2> QED
    BY <2>1, <2>2
<1>11. \A t \in RemainingTimes(e, until) : t <= last
  <2>1. ASSUME NEW t \in Int, InSeries(e, t), t < until
        PROVE  t < last + s
    <3>1. t < h
      BY <1>3, <2>1 DEF InSeries
    <3> QED
      BY <1>1, <1>4, <3>1
  <2> QED
    BY <1>7, <1>10, <2>1
<1>12. ASSUME e.interval # None, NEW t \in Int, InSeries(e, t), t < TakeUntil(e, until).next
       PROVE  t < until
  <2>1. TakeUntil(e, until).next = last + s
    BY <1>1, <1>12 DEF TakeUntil, Entry, last
  <2> QED
    BY <1>1, <1>4, <1>10, <1>12, <2>1
<1> QED
  BY <1>7, <1>9, <1>11, <1>12 DEF last
------------------------------------------------------------------------------
(* New entries and saved entries are entries. *)
LEMMA NewEntryType ==
    ASSUME NEW start \in Int, NEW span \in (Nat \ {0}) \cup {None},
           NEW interval \in (Nat \ {0}) \cup {None}, NEW prio \in Int
    PROVE  NewEntry(start, span, interval, prio) \in Entry
  BY NoneAssumption DEF NewEntry, Entry

LEMMA OnSaveType ==
    ASSUME NEW old \in Entry, NEW new \in Entry, NEW now \in Int
    PROVE  OnSave(old, new, now) \in Entry
  BY DEF OnSave, Entry, NextSchedulable
==============================================================================
