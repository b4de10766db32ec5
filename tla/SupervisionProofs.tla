--------------------------- MODULE SupervisionProofs ---------------------------
(***************************************************************************)
(* For every setting of the intervals and timeouts: autoheal restarts only *)
(* what a probe found unhealthy, and, where the sleep is longer than the   *)
(* probes, rounds and refused restarts can take, the restart comes first.  *)
(***************************************************************************)
EXTENDS Supervision, TLAPS

(* What autoheal acts on comes from a probe of this container, or from a   *)
(* restart that was refused.                                               *)
CauseKnown ==
    /\ verdict = "unhealthy" => sick
    /\ healer = "sleeping" /\ marked => refusals > 0
    /\ healer = "restarting" => sick \/ refusals > 0

LEMMA InitCause == Init => TypeOK /\ CauseKnown
<1>1. /\ HealthInterval \in 0 .. HealthInterval /\ PollInterval \in Nat
      /\ ImportTime \in Nat /\ 0 \in 0 .. Sleep /\ 0 \in 0 .. WorkerTimeout
      /\ 0 \in 0 .. MaxTroubles /\ 0 \in 0 .. MaxRefusals
  BY SupervisionAssumption
<1> QED
  BY <1>1 DEF Init, TypeOK, CauseKnown

(* A step of the API container alone. *)
LEMMA ApiType ==
    ASSUME TypeOK, Settings \/ Initialize \/ WorkerTimesOut PROVE TypeOK'
<1>1. /\ \A t \in InitTimes : t \in Nat
      /\ ImportTime \in Nat /\ Sleep \in Nat /\ 0 \in 0 .. WorkerTimeout
      /\ 0 \in 0 .. Sleep /\ HealthInterval \in 0 .. HealthInterval
  BY SupervisionAssumption
<1>2. CASE Settings
  BY <1>1, <1>2 DEF TypeOK, Settings, Enter, Files, docker, autoheal
<1>3. CASE Initialize
  BY <1>1, <1>3 DEF TypeOK, Initialize, GoOn, Enter, Files, docker, autoheal
<1>4. CASE WorkerTimesOut
  BY <1>1, <1>4 DEF TypeOK, WorkerTimesOut, NewContainer, Enter, Files, docker, autoheal
<1> QED
  BY <1>2, <1>3, <1>4

LEMMA NextType == TypeOK /\ [Next]_vars => TypeOK'
<1> SUFFICES ASSUME TypeOK, [Next]_vars PROVE TypeOK'
  OBVIOUS
<1>1. /\ HealthInterval \in 0 .. HealthInterval /\ PollInterval \in Nat
      /\ ImportTime \in Nat /\ RestartTimes \subseteq Nat
      /\ Sleep \in 0 .. Sleep /\ 0 \in 0 .. Sleep /\ 0 \in 0 .. WorkerTimeout
      /\ WorkerTimeout \in Nat /\ MaxTroubles \in Nat /\ MaxRefusals \in Nat
      /\ 0 \in 0 .. MaxRefusals
  BY SupervisionAssumption
<1>2. CASE Settings \/ Initialize \/ WorkerTimesOut
  BY <1>2, ApiType
<1>3. CASE Environment
  <2>1. troubles' \in 0 .. MaxTroubles
    BY <1>1, <1>3 DEF Environment, SensorFails, SensorReturns, ActionsFail, SchedulerDies,
           Trouble, TypeOK
  <2> QED
    BY <1>1, <1>3, <2>1 DEF Environment, SensorFails, SensorReturns, ActionsFail,
           SchedulerDies, TypeOK, Files, api, docker, autoheal
<1>4. CASE Probe
  BY <1>1, <1>4 DEF Probe, Verdict, TypeOK, api, autoheal
<1>5. CASE Round
  BY <1>1, <1>5 DEF Round, TypeOK, api, docker
<1>6. CASE Restart
  BY <1>1, <1>6 DEF Restart, RoundEnds, NewContainer, Enter, TypeOK
<1>7. CASE Refuse
  BY <1>1, <1>7 DEF Refuse, RoundEnds, TypeOK, api, docker
<1>8. CASE Tick
  <2>1. \A s \in Nat : Less(s) \in Nat /\ Less(s) <= s
    BY DEF Less
  <2>2. left' \in Nat /\ nap' \in 0 .. Sleep
    BY <1>1, <1>8, <2>1 DEF Tick, TypeOK
  <2>3. age' \in 0 .. WorkerTimeout /\ probe' \in 0 .. HealthInterval /\ wait' \in Nat
    BY <1>1, <1>8 DEF Tick, TypeOK
  <2> QED
    BY <1>8, <2>2, <2>3 DEF Tick, TypeOK
<1>9. CASE UNCHANGED vars
  BY <1>9 DEF vars, api, docker, autoheal, TypeOK
<1> QED
  BY <1>2, <1>3, <1>4, <1>5, <1>6, <1>7, <1>8, <1>9 DEF Next, System

LEMMA NextCause == TypeOK /\ CauseKnown /\ [Next]_vars => CauseKnown'
<1> SUFFICES ASSUME TypeOK, CauseKnown, [Next]_vars PROVE CauseKnown'
  OBVIOUS
<1>1. CASE WorkerTimesOut
  BY <1>1 DEF WorkerTimesOut, NewContainer, CauseKnown, TypeOK, docker, autoheal
<1>2. CASE Probe
  BY <1>2 DEF Probe, Verdict, CauseKnown, autoheal
<1>3. CASE Round
  BY <1>3 DEF Round, CauseKnown, docker
<1>4. CASE Restart
  BY <1>4 DEF Restart, RoundEnds, NewContainer, CauseKnown
<1>5. CASE Refuse
  BY <1>5 DEF Refuse, RoundEnds, CauseKnown, TypeOK, docker
<1>6. CASE Settings \/ Initialize \/ Tick \/ Environment \/ UNCHANGED vars
  <2>1. UNCHANGED <<verdict, healer, marked, refusals, sick>>
    BY <1>6 DEF Settings, Initialize, Tick, Environment, SensorFails, SensorReturns,
           ActionsFail, SchedulerDies, vars, docker, autoheal
  <2> QED
    BY <2>1 DEF CauseKnown
<1> QED
  BY <1>1, <1>2, <1>3, <1>4, <1>5, <1>6 DEF Next, System

(* Types, whatever the intervals are. *)
THEOREM SupervisionTypes == Spec => []TypeOK
<1>1. Init => TypeOK
  BY InitCause
<1> QED
  BY <1>1, NextType, PTL DEF Spec

(* autoheal restarts a container only after a probe of this very container *)
(* has found a file, or after a refusal (autoheal_entrypoint.sh).          *)
THEOREM RestartsAreCaused == Spec => RestartsHaveCause
<1>1. TypeOK /\ CauseKnown /\ [Next]_vars =>
          [healer = "restarting" /\ healer' = "sleeping" /\ refusals' = 0
               => sick \/ refusals > 0]_vars
  BY DEF CauseKnown
<1> QED
  BY <1>1, InitCause, NextType, NextCause, PTL DEF Spec, RestartsHaveCause
------------------------------------------------------------------------------
(* Docker stops a container in `longest` seconds at most. *)
CONSTANT longest

(* Seconds from now within which a restart must come, if it must: what is  *)
(* left of the rounds that may be refused, of this round, and of the probe *)
(* it waits for.                                                           *)
Again == (MaxRefusals - refusals) * (PollInterval + longest)

Remaining ==
    IF healer = "restarting" THEN wait + Again
    ELSE IF marked \/ verdict = "unhealthy" THEN wait + longest + Again
    ELSE probe + PollInterval + longest + Again

(* The design rule: the sleep outlasts all of them.                        *)
SleepIsEnough ==
    /\ longest \in Nat
    /\ \A t \in RestartTimes : t <= longest
    /\ HealthInterval + PollInterval + longest + MaxRefusals * (PollInterval + longest) < Sleep

(* A thread that sleeps has left the file, which only a restart removes,   *)
(* and sleeps for longer than the restart can take.                        *)
Outlasts ==
    /\ wait <= IF healer = "restarting" THEN longest ELSE PollInterval
    /\ healer = "restarting" => marked
    /\ phase = "serving" => age = 0
    /\ nap > 0 => phase = "serving" /\ "sdr_unhealthy" \in files /\ Remaining < nap

LEMMA AgainRange ==
    ASSUME SleepIsEnough, TypeOK
    PROVE  /\ Again \in Nat /\ Again <= MaxRefusals * (PollInterval + longest)
           /\ refusals < MaxRefusals =>
                  Again = (MaxRefusals - (refusals + 1)) * (PollInterval + longest)
                              + PollInterval + longest
<1>1. /\ PollInterval + longest \in Nat /\ MaxRefusals - refusals \in Nat
      /\ MaxRefusals \in Nat /\ refusals \in Nat
  BY SupervisionAssumption DEF SleepIsEnough, TypeOK
<1>2. ASSUME NEW m \in Nat, NEW r \in Nat, NEW c \in Nat, r <= m
      PROVE  /\ (m - r) * c \in Nat /\ (m - r) * c <= m * c
             /\ r < m => (m - r) * c = (m - (r + 1)) * c + c
  BY <1>2
<1>3. refusals <= MaxRefusals
  BY <1>1 DEF TypeOK
<1> DEFINE c == PollInterval + longest
<1>4. Again = (MaxRefusals - refusals) * c
  BY DEF Again
<1>5. PollInterval \in Nat /\ longest \in Nat
  BY SupervisionAssumption DEF SleepIsEnough
<1>6. c \in Nat /\ c = PollInterval + longest
  BY <1>1
<1> HIDE DEF c
<1>7. /\ Again \in Nat /\ Again <= MaxRefusals * c
      /\ refusals < MaxRefusals => Again = (MaxRefusals - (refusals + 1)) * c + c
  BY <1>1, <1>2, <1>3, <1>4, <1>6
<1>8. refusals < MaxRefusals => (MaxRefusals - (refusals + 1)) * c \in Nat
  BY <1>1, <1>2, <1>6
<1> QED
  BY <1>5, <1>6, <1>7, <1>8

LEMMA NextOutlasts ==
    ASSUME SleepIsEnough, TypeOK, Outlasts, [Next]_vars
    PROVE  Outlasts' /\ (nap # 0 /\ nap' = 0 => phase' = "importing")
<1>1. /\ longest \in Nat /\ \A t \in RestartTimes : t \in Nat /\ t <= longest
      /\ HealthInterval \in Nat /\ PollInterval \in Nat /\ Sleep \in Nat
      /\ WorkerTimeout \in Nat /\ WorkerTimeout # 0
      /\ wait \in Nat /\ probe \in 0 .. HealthInterval /\ nap \in Nat
      /\ healer \in {"sleeping", "restarting"}
  BY SupervisionAssumption DEF SleepIsEnough, TypeOK
<1>2. Again \in Nat
  BY AgainRange
<1>3. CASE Settings \/ Initialize
  <2>1. phase \in {"importing", "initializing"} /\ nap = 0
    BY <1>1, <1>3 DEF Settings, Initialize, Outlasts
  <2>2. UNCHANGED <<nap, wait, healer, marked>> /\ (phase' = "serving" => age' = 0)
    BY <1>3 DEF Settings, Initialize, GoOn, Enter, autoheal
  <2> QED
    BY <2>1, <2>2 DEF Outlasts
<1>4. CASE WorkerTimesOut
  <2>1. phase # "serving" /\ nap = 0
    BY <1>1, <1>4 DEF WorkerTimesOut, Outlasts
  <2>2. nap' = 0 /\ UNCHANGED <<wait, healer, marked>> /\ phase' = "importing"
    BY <1>4, <2>1 DEF WorkerTimesOut, NewContainer, Enter, autoheal
  <2> QED
    BY <2>1, <2>2 DEF Outlasts
<1>5. CASE Restart
  BY <1>1, <1>5 DEF Restart, RoundEnds, NewContainer, Enter, Outlasts
<1>6. CASE Probe
  <2>1. UNCHANGED <<files, stage, phase, age, nap, healer, wait, marked, refusals, Again>>
    BY <1>6 DEF Probe, api, autoheal, Again
  <2>2. "sdr_unhealthy" \in files => verdict' = "unhealthy"
    BY <1>6 DEF Probe, Verdict
  <2>3. "sdr_unhealthy" \in files => Remaining' <= Remaining
    BY <1>1, <1>2, <1>6, <2>1, <2>2 DEF Probe, Remaining, Outlasts
  <2>4. nap > 0 => Remaining' \in Nat /\ Remaining \in Nat
    BY <1>1, <1>2, <2>1, <2>2 DEF Remaining, Outlasts
  <2> QED
    BY <1>1, <2>1, <2>3, <2>4 DEF Outlasts
<1>7. CASE Round
  <2>1. UNCHANGED <<files, phase, age, nap, verdict, probe, refusals, Again>>
    BY <1>7 DEF Round, api, docker, Again
  <2>2. /\ healer = "sleeping" /\ wait = 0
        /\ marked' = (marked \/ verdict = "unhealthy")
        /\ \/ marked' /\ healer' = "restarting" /\ wait' \in RestartTimes
           \/ ~marked' /\ healer' = "sleeping" /\ wait' = PollInterval
    BY <1>7 DEF Round
  <2>3. CASE marked'
    <3>1. Remaining = longest + Again /\ Remaining' = wait' + Again
      <4>1. marked \/ verdict = "unhealthy"
        BY <2>2, <2>3
      <4>2. Remaining = wait + longest + Again
        BY <2>2, <4>1 DEF Remaining
      <4>3. Remaining' = wait' + Again
        BY <2>1, <2>2, <2>3 DEF Remaining
      <4> QED
        BY <1>1, <1>2, <2>2, <4>2, <4>3
    <3> QED
      BY <1>1, <1>2, <2>1, <2>2, <2>3, <3>1 DEF Outlasts
  <2>4. CASE ~marked'
    <3>1. Remaining' = Remaining
      BY <2>1, <2>2, <2>4 DEF Remaining
    <3> QED
      BY <1>1, <2>1, <2>2, <2>4, <3>1 DEF Outlasts
  <2> QED
    BY <2>3, <2>4
<1>8. CASE Refuse
  <2>1. /\ UNCHANGED <<files, phase, age, nap, verdict, probe, marked>>
        /\ healer = "restarting" /\ wait = 0 /\ healer' = "sleeping"
        /\ wait' = PollInterval
        /\ refusals < MaxRefusals /\ refusals' = refusals + 1
    BY <1>8 DEF Refuse, RoundEnds, api, docker
  <2>2. Again = Again' + PollInterval + longest /\ Again' \in Nat
    <3>1. Again' = (MaxRefusals - (refusals + 1)) * (PollInterval + longest)
      BY <2>1 DEF Again
    <3> QED
      BY <1>1, <2>1, <3>1, AgainRange, SupervisionAssumption DEF TypeOK
  <2>3. marked /\ marked'
    BY <2>1 DEF Outlasts
  <2>4. Remaining = Again /\ Remaining' = PollInterval + longest + Again'
    BY <1>1, <1>2, <2>1, <2>2, <2>3 DEF Remaining
  <2>5. Remaining' = Remaining
    BY <1>1, <1>2, <2>2, <2>4
  <2>6. wait' <= IF healer' = "restarting" THEN longest ELSE PollInterval
    BY <1>1, <2>1
  <2> QED
    BY <2>1, <2>3, <2>5, <2>6 DEF Outlasts
<1>9. CASE ActionsFail
  <2>1. /\ phase = "serving" /\ phase' = phase /\ age' = age
        /\ "sdr_unhealthy" \in files' /\ nap = 0 /\ nap' = Sleep
        /\ UNCHANGED <<verdict, probe, healer, wait, marked, refusals>>
    BY <1>9 DEF ActionsFail, Works, docker, autoheal
  <2>2. Remaining' = Remaining
    BY <2>1 DEF Remaining, Again
  <2>3. Remaining \in Nat /\ Remaining < Sleep
    <3>1. MaxRefusals * (PollInterval + longest) \in Nat
      BY <1>1, SupervisionAssumption
    <3> QED
      BY <1>1, <1>2, <3>1, AgainRange DEF Remaining, Outlasts, SleepIsEnough
  <2> QED
    BY <1>1, <2>1, <2>2, <2>3 DEF Outlasts
<1>10. CASE SensorFails \/ SensorReturns \/ SchedulerDies \/ UNCHANGED vars
  <2>1. /\ files \subseteq files'
        /\ UNCHANGED <<phase, age, nap, verdict, probe, healer, wait, marked, refusals>>
    BY <1>10 DEF SensorFails, SensorReturns, SchedulerDies, vars, api, docker, autoheal
  <2>2. Remaining' = Remaining
    BY <2>1 DEF Remaining, Again
  <2> QED
    BY <2>1, <2>2 DEF Outlasts
<1>11. CASE Tick
  <2>1. /\ UNCHANGED <<files, phase, verdict, healer, marked, refusals, Again>>
        /\ wait > 0 /\ probe > 0 /\ wait' = wait - 1 /\ probe' = probe - 1
        /\ nap' = IF nap = 0 THEN 0 ELSE nap - 1
        /\ phase = "serving" => age' = 0
    BY <1>11 DEF Tick, Less, Booting, Again
  <2>2. Remaining' = Remaining - 1 /\ Remaining \in Nat /\ Remaining > 0
    BY <1>1, <1>2, <2>1 DEF Remaining
  <2> QED
    BY <1>1, <2>1, <2>2 DEF Outlasts
<1> QED
  BY <1>3, <1>4, <1>5, <1>6, <1>7, <1>8, <1>9, <1>10, <1>11 DEF Next, System, Environment

(* "sleep to prevent running next task until restart completed": where the *)
(* sleep outlasts a probe, a round and the restarts that may be refused,   *)
(* the restart comes before the thread has slept, wherever probes and      *)
(* rounds stand when the file is written (health_check_handler.py).        *)
THEOREM SleepersAreRestarted ==
    ASSUME SleepIsEnough PROVE Spec => RestartedInSleep
<1>1. Init => TypeOK /\ Outlasts
  <2>1. Init => Outlasts
    BY SupervisionAssumption DEF Init, Outlasts
  <2> QED
    BY <2>1, InitCause
<1>2. TypeOK /\ Outlasts /\ [Next]_vars =>
          Outlasts' /\ [nap # 0 /\ nap' = 0 => phase' = "importing"]_vars
  BY NextOutlasts
<1> QED
  BY <1>1, <1>2, NextType, PTL DEF Spec, RestartedInSleep
==============================================================================
