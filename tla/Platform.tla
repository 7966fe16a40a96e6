------------------------------ MODULE Platform ------------------------------
(***************************************************************************)
(* The shared state of the IAnoIE back end and the primitive operations on *)
(* it: the two tables the lifecycle of an app is driven from               *)
(* (`installations' and `jobs', PostgreSQL), the Celery broker, the        *)
(* sessions of the workers, the containers and volumes of the Docker       *)
(* engine, the orphan reaper and the API requests in flight.  The modules  *)
(* that extend this one hold the actions, one module per source file.      *)
(***************************************************************************)
EXTENDS Naturals, FiniteSets

CONSTANTS
    Apps,             \* (user, app) pairs: what create_installation checks for
    MaxInstallations, \* bound: installation ids are 1..MaxInstallations
    MaxJobs,          \* bound: job ids are 1..MaxJobs
    NumServices,      \* containers of the template, in dependency order
    Workers,          \* slots of the Celery pool (--concurrency)
    Requests,         \* concurrent create_installation requests
    UserOps,          \* the job types users ask for in this instance
    InstallRetries,   \* max_retries of install_app (3 in the code)
    OpRetries,        \* max_retries of every other task (2 in the code)
    Beat,             \* whether Celery beat runs the orphan reaper
    DockerErrors,     \* whether a swallowed Docker call may fail
    MaxFaults         \* bound: crashes and redeliveries

JobTypes == {"install", "uninstall", "start", "stop", "restart",
             "update", "reconfigure"}

ASSUME PlatformAssumption ==
    /\ MaxInstallations \in Nat
    /\ MaxJobs \in Nat
    /\ NumServices \in Nat \ {0}
    /\ InstallRetries \in Nat
    /\ OpRetries \in Nat
    /\ MaxFaults \in Nat
    /\ Beat \in BOOLEAN
    /\ DockerErrors \in BOOLEAN
    /\ UserOps \subseteq JobTypes
    /\ "none" \notin Apps

VARIABLES
    row,        \* installations: id -> [app, status, ids]
    job,        \* jobs: id -> [type, inst, status, runs]
    unsent,     \* jobs committed by the API whose task is not yet published
    queue,      \* broker: the messages no worker holds
    worker,     \* slot -> the task it executes and its database session
    containers, \* the Docker engine's managed containers
    volumes,    \* the Docker engine's data volumes
    reaper,     \* the orphan reaper's local variables
    request,    \* create_installation between its check and its insert
    lost,       \* history: the jobs whose message came to nothing
    faults      \* how many faults happened

vars == <<row, job, unsent, queue, worker, containers, volumes, reaper,
          request, lost, faults>>

-----------------------------------------------------------------------------
(* Identifiers and record types.                                           *)

Installations == 1..MaxInstallations
Jobs == 1..MaxJobs
Services == 1..NumServices

\* The statuses of a row.  "free": the id is not allocated yet; "deleted":
\* the row is gone (ids come from a sequence and are never used again).
LiveStatus == {"pending", "installing", "running", "stopped", "error",
               "uninstalling"}
RowStatus == LiveStatus \cup {"free", "deleted"}

JobStatus == {"pending", "running", "completed", "failed"}

\* A container id.  A run of a task creates at most one container per service,
\* so the job, the run of it and the service tell two containers apart.
ContainerId == [job: Jobs, run: Nat, svc: Services]

\* A container: its label ianoie.installation_id, its id, and whether it is up.
\* Its name (ianoie-{installation id}-{service}) is determined by inst and svc.
Container == [inst: Installations, id: ContainerId, up: BOOLEAN]

Volume == [inst: Installations, labelled: BOOLEAN]

Row == [app: Apps \cup {"none"}, status: RowStatus, ids: SUBSET ContainerId]

FreeJob == [type |-> "none", inst |-> 0, status |-> "free", runs |-> 0]
InsertedJob == [type: JobTypes, inst: Installations, status: JobStatus,
                runs: Nat]
Job == {FreeJob} \cup InsertedJob

Message == [job: Jobs, retries: Nat]

\* The program counters of a task.
PC == {"load", "pull", "remove", "create", "start", "ready", "volumes",
       "delete", "flush", "power", "commit", "finish", "undo", "failjob", "failinst"}

\* A worker slot: the task's program counter, job, run and retry count, the
\* next service of the loop over container_configs (the containers in
\* created_ids are those of the services before it), the status and the
\* container ids the session holds for the row, the jobs that the flush of a
\* deletion has found, and whether the session is deactivated by a failed flush.
IdleSlot == [pc |-> "idle", job |-> 0, run |-> 0, retries |-> 0, svc |-> 1,
             seen |-> "none", ids |-> {}, unlinked |-> {}, dead |-> FALSE]
BusySlot == [pc: PC, job: Jobs, run: Nat, retries: Nat,
             svc: 1..(NumServices + 1), seen: LiveStatus \cup {"none"},
             ids: SUBSET ContainerId, unlinked: SUBSET Jobs, dead: BOOLEAN]
Slot == {IdleSlot} \cup BusySlot

FreeRow == [app |-> "none", status |-> "free", ids |-> {}]
IdleReaper == [pc |-> "idle", live |-> {}, orphans |-> {}]

-----------------------------------------------------------------------------
(* The database.                                                           *)

Live(i) == row[i].status \in LiveStatus

\* The ids are handed out in order.
NextInstallation(i) ==
    /\ row[i].status = "free"
    /\ \A k \in Installations : k < i => row[k].status # "free"

NextJob(j) ==
    /\ job[j].status = "free"
    /\ \A k \in Jobs : k < j => job[k].status # "free"

\* Insert a pending job and leave its task to be published after the commit.
InsertJob(j, t, i) ==
    /\ NextJob(j)
    /\ job' = [job EXCEPT ![j] = [type |-> t, inst |-> i, status |-> "pending",
                                  runs |-> 0]]
    /\ unsent' = unsent \cup {j}

-----------------------------------------------------------------------------
(* The Docker engine, through ContainerManager and VolumeManager.          *)

Id(j, r, s) == [job |-> j, run |-> r, svc |-> s]

\* list_managed: the lookup by label.
ListManaged(i) == {c \in containers : c.inst = i}

ById(ids) == {c \in containers : c.id \in ids}

NameTaken(i, s) == \E c \in containers : c.inst = i /\ c.id.svc = s

\* Calls whose exceptions the code swallows reach all their containers or,
\* when Docker misbehaves, only some of them.
Reached(cs) == IF DockerErrors THEN SUBSET cs ELSE {cs}

Switched(cs, up) == (containers \ cs) \cup {[c EXCEPT !.up = up] : c \in cs}

\* Faulty variant: the stored ids only, as before the lookup by label.
RemoveStoredContainers(i, ids) ==
    \E gone \in Reached(ById(ids)) : containers' = containers \ gone

\* remove_installation_containers: every labelled container, then the stored
\* ids the lookup missed.
RemoveInstallationContainers(i, ids) ==
    \E gone \in Reached(ListManaged(i) \cup ById(ids)) :
        containers' = containers \ gone

\* remove_installation_volumes: the lookup is by label.
RemoveInstallationVolumes(i) ==
    volumes' = {v \in volumes : ~(v.inst = i /\ v.labelled)}

\* Creating a container creates the named volumes it mounts; Docker gives a
\* volume made this way no label.
MountVolumes(i) ==
    volumes' = IF \E v \in volumes : v.inst = i THEN volumes
               ELSE volumes \cup {[inst |-> i, labelled |-> FALSE]}

-----------------------------------------------------------------------------
Init ==
    /\ row = [i \in Installations |-> FreeRow]
    /\ job = [j \in Jobs |-> FreeJob]
    /\ unsent = {}
    /\ queue = {}
    /\ worker = [w \in Workers |-> IdleSlot]
    /\ containers = {}
    /\ volumes = {}
    /\ reaper = IdleReaper
    /\ request = [r \in Requests |-> "none"]
    /\ lost = {}
    /\ faults = 0
=============================================================================
