----------------------------- MODULE Supervision -----------------------------
(***************************************************************************)
(* What becomes of a health file, second by second.  Docker probes the API *)
(* container for the files, the autoheal container polls Docker's verdict  *)
(* and restarts what is unhealthy, the container comes up again through    *)
(* the migrations and a gunicorn worker, each of which imports the         *)
(* settings and initializes the sensor, and gunicorn replaces a worker     *)
(* that takes too long.  Meanwhile the thread that asked for the restart   *)
(* sleeps, counting on it.                                                 *)
(***************************************************************************)
EXTENDS Naturals

CONSTANTS
    HealthInterval,     \* seconds between the probes of the API container
    PollInterval,       \* seconds autoheal sleeps between its rounds
    RestartTimes,       \* seconds Docker may take to stop a container
    WorkerTimeout,      \* seconds gunicorn waits for a silent worker
    Sleep,              \* seconds slept after asking for a restart
    ImportTime,         \* seconds from the start of a process to its settings
    InitTimes,          \* seconds the initialization may take
    MaxRefusals,        \* bound on restarts in a row that Docker refuses
    MaxTroubles,        \* bound on failures of the sensor and the scheduler
    MayDie              \* the scheduler thread may die

ASSUME SupervisionAssumption ==
    /\ HealthInterval \in Nat \ {0} /\ PollInterval \in Nat \ {0}
    /\ RestartTimes \subseteq Nat /\ WorkerTimeout \in Nat \ {0} /\ Sleep \in Nat \ {0}
    /\ ImportTime \in Nat \ {0} /\ InitTimes \subseteq Nat \ {0}
    /\ WorkerTimeout < Sleep
    /\ MaxRefusals \in Nat /\ MaxTroubles \in Nat /\ MayDie \in BOOLEAN

VARIABLES
    files,        \* health files in the API container
    device,       \* the signal analyzer is there and healthy
    stage,        \* which process of the container runs
    phase,        \* how far it has come
    left,         \* seconds left of the phase
    age,          \* seconds since gunicorn heard of its worker
    nap,          \* seconds the finalizer that asked for a restart sleeps on
    verdict,      \* Docker's health status of the container
    probe,        \* seconds to the next probe
    healer,       \* what autoheal is doing
    wait,         \* seconds it goes on doing so
    marked,       \* the container's file in /tmp/restart
    refusals,     \* restarts refused in a row
    troubles,     \* failures of the sensor and the scheduler so far
    sick          \* history: a probe of this container found a file

docker == <<verdict, probe>>
autoheal == <<healer, wait, marked, refusals>>
api == <<stage, phase, left, age, nap>>
vars == <<files, device, api, docker, autoheal, troubles, sick>>

Files == {"sdr_unhealthy", "scheduler_dead"}

(* A timer that does not run is 0. *)
TypeOK ==
    /\ files \in SUBSET Files
    /\ device \in BOOLEAN
    /\ stage \in {"migrate", "serve"}
    /\ phase \in {"importing", "initializing", "sleeping", "serving"}
    /\ left \in Nat /\ age \in 0 .. WorkerTimeout /\ nap \in 0 .. Sleep
    /\ verdict \in {"starting", "healthy", "unhealthy"}
    /\ probe \in 0 .. HealthInterval
    /\ healer \in {"sleeping", "restarting"}
    /\ wait \in Nat
    /\ marked \in BOOLEAN
    /\ refusals \in 0 .. MaxRefusals
    /\ troubles \in 0 .. MaxTroubles
    /\ sick \in BOOLEAN

Init ==
    /\ files = {}
    /\ device = TRUE
    /\ stage = "migrate" /\ phase = "importing" /\ left = ImportTime
    /\ age = 0 /\ nap = 0
    /\ verdict = "starting" /\ probe = HealthInterval
    /\ healer = "sleeping" /\ wait = PollInterval /\ marked = FALSE /\ refusals = 0
    /\ troubles = 0
    /\ sick = FALSE
------------------------------------------------------------------------------
(* The API container. *)

Enter(s, p, seconds) == stage' = s /\ phase' = p /\ left' = seconds

(* Mutant: the settings leave the files alone. *)
SettingsKeepFiles ==
    /\ phase = "importing" /\ left = 0
    /\ \E t \in InitTimes : Enter(stage, "initializing", t)
    /\ UNCHANGED <<files, device, age, nap, docker, autoheal, troubles, sick>>

(* Each process of the container removes the sensor's file when it imports *)
(* the settings; the scheduler's stays.                                    *)
Settings ==
    /\ phase = "importing" /\ left = 0
    /\ files' = files \ {"sdr_unhealthy"}
    /\ \E t \in InitTimes : Enter(stage, "initializing", t)
    /\ UNCHANGED <<device, age, nap, docker, autoheal, troubles, sick>>

(* What follows the initialization: gunicorn after the migrations; in the  *)
(* worker, the scheduler, which removes its file.                          *)
GoOn ==
    IF stage = "migrate"
    THEN Enter("serve", "importing", ImportTime) /\ UNCHANGED <<files, age>>
    ELSE /\ Enter("serve", "serving", 0)
         /\ files' = files \ {"scheduler_dead"}
         /\ age' = 0

(* The sensor is looked for.  The migrations miss it only when it is not   *)
(* there at all; the worker misses one that is not healthy, too.  The      *)
(* sleep that follows has no end of its own here: a restart or, for the    *)
(* worker, gunicorn comes before it (without one, this model would stop).  *)
Initialize ==
    /\ phase = "initializing" /\ left = 0
    /\ \/ /\ device \/ stage = "migrate"
          /\ GoOn
       \/ /\ ~device
          /\ Enter(stage, "sleeping", Sleep)
          /\ files' = files \cup {"sdr_unhealthy"}
          /\ UNCHANGED age
    /\ UNCHANGED <<device, nap, docker, autoheal, troubles, sick>>

NewContainer ==
    /\ Enter("migrate", "importing", ImportTime)
    /\ age' = 0 /\ nap' = 0
    /\ verdict' = "starting" /\ probe' = HealthInterval
    /\ sick' = FALSE

(* gunicorn tells a worker it has not heard of to exit.  That is caught,   *)
(* as one more failure of the initialization, and the file written again.  *)
(* Either gunicorn replaces the worker, or the worker goes on to import    *)
(* the scheduler, which fails without a sensor: gunicorn gives up, the     *)
(* container exits and Docker starts it again (restart: always).           *)
WorkerTimesOut ==
    /\ age = WorkerTimeout
    /\ files' = files \cup {"sdr_unhealthy"}
    /\ \/ /\ Enter("serve", "importing", ImportTime)
          /\ age' = 0
          /\ UNCHANGED <<nap, docker, sick>>
       \/ healer # "restarting" /\ NewContainer
    /\ UNCHANGED <<device, autoheal, troubles>>
------------------------------------------------------------------------------
(* Trouble. *)

Trouble == troubles < MaxTroubles /\ troubles' = troubles + 1

Works == phase = "serving" /\ nap = 0 /\ "scheduler_dead" \notin files

SensorFails ==
    /\ Trouble
    /\ device' = FALSE
    /\ UNCHANGED <<files, api, docker, autoheal, sick>>

SensorReturns ==
    /\ ~device
    /\ device' = TRUE
    /\ UNCHANGED <<files, api, docker, autoheal, troubles, sick>>

(* Mutant: the thread sleeps for as long as Docker needs to notice. *)
ActionsFailBriefly ==
    /\ Works
    /\ Trouble
    /\ files' = files \cup {"sdr_unhealthy"}
    /\ nap' = HealthInterval
    /\ UNCHANGED <<device, stage, phase, left, age, docker, autoheal, sick>>

(* MAX_FAILURES actions fail; trigger_api_restart_callback sleeps in the   *)
(* thread that finalizes the last of them.                                 *)
ActionsFail ==
    /\ Works
    /\ Trouble
    /\ files' = files \cup {"sdr_unhealthy"}
    /\ nap' = Sleep
    /\ UNCHANGED <<device, stage, phase, left, age, docker, autoheal, sick>>

SchedulerDies ==
    /\ MayDie
    /\ Works
    /\ Trouble
    /\ files' = files \cup {"scheduler_dead"}
    /\ UNCHANGED <<device, api, docker, autoheal, sick>>
------------------------------------------------------------------------------
(* Docker and autoheal. *)

(* Mutant: the exit status is taken for the verdict. *)
VerdictIsStatus(found) == IF found = {} THEN "success" ELSE "failure"

Verdict(found) == IF found = {} THEN "healthy" ELSE "unhealthy"

(* Mutant: the test is for one of the files. *)
ProbeSensor ==
    /\ probe = 0
    /\ verdict' = Verdict(files \cap {"sdr_unhealthy"})
    /\ probe' = HealthInterval
    /\ sick' = (sick \/ files # {})
    /\ UNCHANGED <<files, device, api, autoheal, troubles>>

(* test ! -e /sdr_unhealthy && test ! -e /scheduler_dead, retries: 1 *)
Probe ==
    /\ probe = 0
    /\ verdict' = Verdict(files)
    /\ probe' = HealthInterval
    /\ sick' = (sick \/ files # {})
    /\ UNCHANGED <<files, device, api, autoheal, troubles>>

(* A round of autoheal: what is unhealthy is marked, what is marked is     *)
(* restarted.                                                              *)
Round ==
    /\ healer = "sleeping" /\ wait = 0
    /\ marked' = (marked \/ verdict = "unhealthy")
    /\ IF marked'
       THEN healer' = "restarting" /\ wait' \in RestartTimes
       ELSE wait' = PollInterval /\ UNCHANGED healer
    /\ UNCHANGED <<files, device, api, docker, refusals, troubles, sick>>

RoundEnds ==
    /\ healer = "restarting" /\ wait = 0
    /\ healer' = "sleeping" /\ wait' = PollInterval

(* Mutant: the mark is not removed. *)
RestartKeepsMark ==
    /\ RoundEnds
    /\ NewContainer
    /\ refusals' = 0
    /\ UNCHANGED <<files, device, marked, troubles>>

(* The container's processes are new, its files are not. *)
Restart ==
    /\ RoundEnds
    /\ NewContainer
    /\ marked' = FALSE /\ refusals' = 0
    /\ UNCHANGED <<files, device, troubles>>

(* The request fails: the mark stays for the next round. *)
Refuse ==
    /\ RoundEnds
    /\ refusals < MaxRefusals
    /\ refusals' = refusals + 1
    /\ UNCHANGED <<files, device, api, docker, marked, troubles, sick>>
------------------------------------------------------------------------------
Booting == phase # "serving"

Less(seconds) == IF seconds = 0 THEN 0 ELSE seconds - 1

(* A second passes once nothing is left to do in this one. *)
Tick ==
    /\ Booting => left > 0
    /\ age < WorkerTimeout /\ probe > 0 /\ wait > 0
    /\ left' = Less(left)
    /\ age' = IF stage = "serve" /\ Booting THEN age + 1 ELSE 0
    /\ nap' = Less(nap)
    /\ probe' = probe - 1
    /\ wait' = wait - 1
    /\ UNCHANGED <<files, device, stage, phase, verdict, healer, marked, refusals,
                   troubles, sick>>

System ==
    \/ Settings \/ Initialize \/ WorkerTimesOut
    \/ Probe \/ Round \/ Restart \/ Refuse
    \/ Tick

Environment == SensorFails \/ SensorReturns \/ ActionsFail \/ SchedulerDies

Next == System \/ Environment

Spec == Init /\ [][Next]_vars

(* Processes run and time passes; nothing makes a sensor fail or return.   *)
FairSpec == Spec /\ WF_vars(System)
------------------------------------------------------------------------------
(* "sleep to prevent running next task until restart completed": the       *)
(* restart comes before the thread that asked for it has slept, wherever   *)
(* the probes and rounds stand when the file is written, and although some *)
(* restarts are refused (health_check_handler.py; compose.yaml; autoheal). *)
RestartedInSleep == [][nap # 0 /\ nap' = 0 => phase' = "importing"]_vars

(* autoheal restarts a container only after a probe of this very container *)
(* has found a file: a verdict never outlives its container, and a mark    *)
(* only after a refusal (autoheal_entrypoint.sh).                          *)
RestartsHaveCause ==
    [][healer = "restarting" /\ healer' = "sleeping" /\ refusals' = 0
       => sick \/ refusals > 0]_vars

(* Whatever writes a file while the container serves, it is restarted.     *)
(* (compose.yaml healthcheck; autoheal_entrypoint.sh)                      *)
FilesRestart == (phase = "serving" /\ files # {}) ~> phase = "importing"

(* Once the sensor is there for good, the container ends up serving, and   *)
(* healthy: the files of failed initializations, and restarts half done    *)
(* while the sensor returned, do not keep it restarting                    *)
(* (settings.py; initialization/__init__.py; autoheal_entrypoint.sh).      *)
ServesInTheEnd ==
    <>[](device /\ "scheduler_dead" \notin files) => <>[](phase = "serving" /\ files = {})

(* "Cleanup any existing healtcheck files" (settings.py): what a process   *)
(* has left behind is gone once another one has started.                   *)
DeathHeals == ("scheduler_dead" \in files) ~> ("scheduler_dead" \notin files)
==============================================================================
