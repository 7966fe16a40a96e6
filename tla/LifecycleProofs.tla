-------------------------- MODULE LifecycleProofs ---------------------------
(***************************************************************************)
(* Theorems about Lifecycle, for every number of installations, jobs,      *)
(* services, slots and requests: its types, and that deleted is deleted.   *)
(* The lemmas on the steps that all tasks share are used by JobSafety and  *)
(* ContainerSafety as well.                                                *)
(***************************************************************************)
EXTENDS Lifecycle, TLAPS

-----------------------------------------------------------------------------
(* The steps of the tasks, whichever task takes them.                      *)

\* The tasks that create containers, and where a task may fail.
Creators == install \cup recreate
Failing == {"pull", "remove", "create", "start", "ready", "volumes"}

\* What a slot can do, with the operators of TaskRuntime that the tasks share
\* applied to some set of tasks.
SharedStep(w, types) ==
    \/ \E m \in queue : ClientFails(w, m) \/ Begin(w, m, types)
    \/ \E next \in {"remove", "pull", "power"} : LoadRow(w, types, next)
    \/ CreateContainer(w, types) /\ types \subseteq Creators
    \/ StartContainer(w, types)
    \/ ContainerReady(w, types)
    \/ \E pcs \in SUBSET PC, handler \in {"undo", "failjob"} :
           /\ TaskFails(w, types, pcs, handler)
           /\ pcs \subseteq Failing
           /\ handler = "failjob" => types = uninstall
    \/ RecordContainers(w, types) /\ types \subseteq Creators
    \/ CompleteJob(w, types)
    \/ Rollback(w, types)
    \/ HandlerRaises(w, types)
    \/ FailJob(w, types)
    \/ FailInstallation(w, types) /\ types \subseteq Creators
    \/ FailJobAndRetry(w, types)
    \/ RemoveOld(w, types)

\* The steps only one task takes.
OwnStep(w) ==
    \/ InstallMark(w)
    \/ UninstallMark(w)
    \/ UpdatePull(w)
    \/ UninstallContainers(w)
    \/ UninstallVolumes(w)
    \/ UninstallUnlink(w)
    \/ UninstallDelete(w)
    \/ StartContainers(w)
    \/ StopContainers(w)
    \/ RestartContainers(w)
    \/ PowerRecord(w)

LEMMA TaskStepCases ==
    ASSUME NEW w \in Workers, TaskStep(w)
    PROVE  OwnStep(w) \/ \E types \in SUBSET JobTypes : SharedStep(w, types)
<1> DEFINE Goal == OwnStep(w) \/ \E types \in SUBSET JobTypes : SharedStep(w, types)
<1>t. /\ install \in SUBSET JobTypes /\ uninstall \in SUBSET JobTypes
      /\ reconfigure \in SUBSET JobTypes /\ update \in SUBSET JobTypes
      /\ recreate \in SUBSET JobTypes /\ power \in SUBSET JobTypes
  BY DEF install, uninstall, reconfigure, update, recreate, power, JobTypes
<1>p. \A pcs \in {{"create", "start", "ready"},
                  {"remove", "create", "start", "ready"},
                  {"pull", "remove", "create", "start", "ready"},
                  {"remove", "volumes"}} :
          pcs \in SUBSET PC /\ pcs \subseteq Failing
  BY DEF PC, Failing
<1>c. install \subseteq Creators /\ reconfigure \subseteq Creators /\ update \subseteq Creators
  BY DEF Creators, recreate
<1>1. CASE InstallStep(w)
  <2>1. OwnStep(w) \/ SharedStep(w, install)
    BY <1>1, <1>p, <1>c DEF InstallStep, InstallBegin, InstallCreate, InstallStart,
       InstallReady, InstallRecord, InstallComplete, InstallFails,
       InstallRollback, InstallHandlerRaises, InstallFailJob,
       InstallFailInstallation, OwnStep, SharedStep
  <2> QED BY <2>1, <1>t
<1>2. CASE ReconfigureStep(w)
  <2>1. OwnStep(w) \/ SharedStep(w, reconfigure)
    BY <1>2, <1>p, <1>c DEF ReconfigureStep, ReconfigureBegin, ReconfigureLoad,
       ReconfigureRemove, ReconfigureLoop, ReconfigureRecord, ReconfigureFails,
       ReconfigureHandler, OwnStep, SharedStep
  <2> QED BY <2>1, <1>t
<1>3. CASE UpdateStep(w)
  <2>1. OwnStep(w) \/ SharedStep(w, update)
    BY <1>3, <1>p, <1>c DEF UpdateStep, UpdateBegin, UpdateLoad, UpdateRemove,
       UpdateLoop, UpdateRecord, UpdateFails, UpdateHandler, OwnStep, SharedStep
  <2> QED BY <2>1, <1>t
<1>4. CASE RecreateComplete(w)
  <2>1. SharedStep(w, recreate)
    BY <1>4 DEF RecreateComplete, SharedStep
  <2> QED BY <2>1, <1>t
<1>5. CASE UninstallStep(w)
  <2>1. OwnStep(w) \/ SharedStep(w, uninstall)
    BY <1>5, <1>p DEF UninstallStep, UninstallBegin, UninstallComplete,
       UninstallFails, UninstallHandler, OwnStep, SharedStep
  <2> QED BY <2>1, <1>t
<1>6. CASE PowerStep(w)
  <2>1. OwnStep(w) \/ SharedStep(w, power)
    BY <1>6 DEF PowerStep, PowerBegin, PowerLoad, PowerComplete, PowerHandler,
       OwnStep, SharedStep
  <2> QED BY <2>1, <1>t
<1>7. ASSUME NEW m \in queue, ClientFails(w, m) PROVE Goal
  <2>1. SharedStep(w, install)
    BY <1>7 DEF SharedStep
  <2> QED BY <2>1, <1>t
<1> QED BY <1>1, <1>2, <1>3, <1>4, <1>5, <1>6, <1>7 DEF TaskStep, RecreateStep

-----------------------------------------------------------------------------
(* Type correctness.                                                       *)

Inserted(j) == job[j].status # "free"

\* What the types need to be inductive: a task creates and starts containers
\* only for services of the template, and enters the loop at the first.
LoopIndex ==
    \A w \in Workers :
        /\ worker[w].pc \in {"load", "pull", "remove"} => worker[w].svc = 1
        /\ worker[w].pc \in {"create", "start"} => worker[w].svc <= NumServices

TypeInv == TypeOK /\ LoopIndex

\* A slot that moves on stays well typed.
LEMMA GotoType ==
    ASSUME worker \in [Workers -> Slot], NEW w \in Workers,
           worker[w].pc # "idle", NEW pc \in PC, Goto(w, pc)
    PROVE  /\ worker' \in [Workers -> Slot]
           /\ worker'[w].pc = pc /\ worker'[w].svc = worker[w].svc
           /\ \A v \in Workers : v # w => worker'[v] = worker[v]
<1>1. worker[w] \in BusySlot
  BY DEF Slot, IdleSlot
<1>2. [worker[w] EXCEPT !.pc = pc] \in BusySlot
  BY <1>1 DEF BusySlot
<1> QED BY <1>1, <1>2 DEF Goto, Slot, BusySlot

\* A slot whose record is replaced by a well typed one.
LEMMA SlotType ==
    ASSUME worker \in [Workers -> Slot], LoopIndex, NEW w \in Workers,
           NEW slot \in BusySlot, worker' = [worker EXCEPT ![w] = slot],
           slot.pc \in {"load", "pull", "remove"} => slot.svc = 1,
           slot.pc \in {"create", "start"} => slot.svc <= NumServices
    PROVE  worker' \in [Workers -> Slot] /\ LoopIndex'
  BY DEF Slot, LoopIndex

\* Switching containers on or off leaves them containers.
LEMMA SwitchedType ==
    ASSUME containers \subseteq Container, NEW cs \in SUBSET containers,
           NEW up \in BOOLEAN
    PROVE  Switched(cs, up) \subseteq Container
<1>1. ASSUME NEW c \in Container
      PROVE  [c EXCEPT !.up = up] \in Container
  BY DEF Container
<1> QED BY <1>1 DEF Switched

\* The facts about the executing slot that the step lemmas start from.
LEMMA SlotFacts ==
    ASSUME TypeOK, NEW w \in Workers, NEW types \in SUBSET JobTypes,
           worker[w].pc # "idle", Type(w) \in types
    PROVE  /\ worker[w] \in BusySlot
           /\ worker[w].job \in Jobs
           /\ job[worker[w].job] \in InsertedJob
           /\ Target(w) \in Installations
<1>1. worker[w] \in BusySlot
  BY DEF TypeOK, Slot, IdleSlot
<1>2. worker[w].job \in Jobs
  BY <1>1 DEF BusySlot
<1>3. job[worker[w].job] \in InsertedJob
  BY <1>2 DEF TypeOK, Job, FreeJob, Type, JobTypes
<1> QED BY <1>1, <1>2, <1>3 DEF Target, InsertedJob

\* A step that only moves the slot on, outside the loop's entry.
LEMMA TypeGoto ==
    ASSUME TypeInv, NEW w \in Workers, worker[w].pc # "idle", NEW pc \in PC,
           pc \in {"load", "pull", "remove"} => worker[w].svc = 1,
           pc \in {"create", "start"} => worker[w].svc <= NumServices,
           Goto(w, pc), job' \in [Jobs -> Job], row' \in [Installations -> Row],
           queue' \subseteq Message, containers' \subseteq Container,
           volumes' \subseteq Volume, UNCHANGED <<unsent, reaper, request, lost, faults>>
    PROVE  TypeInv'
<1>1. worker' \in [Workers -> Slot] /\ LoopIndex'
  BY GotoType DEF TypeInv, TypeOK, LoopIndex
<1> QED BY <1>1 DEF TypeInv, TypeOK

\* A step after which the slot is idle.
LEMMA TypeIdle ==
    ASSUME TypeInv, NEW w \in Workers,
           worker' = [worker EXCEPT ![w] = IdleSlot],
           job' \in [Jobs -> Job], row' \in [Installations -> Row],
           queue' \subseteq Message, containers' \subseteq Container,
           volumes' \subseteq Volume, UNCHANGED <<unsent, reaper, request, lost>>,
           faults' \in 0..MaxFaults
    PROVE  TypeInv'
<1>1. worker' \in [Workers -> Slot]
  BY DEF TypeInv, TypeOK, Slot
<1>2. LoopIndex'
  BY DEF TypeInv, TypeOK, LoopIndex, IdleSlot
<1> QED BY <1>1, <1>2 DEF TypeInv, TypeOK

LEMMA TypeClientFails ==
    ASSUME TypeInv, NEW w \in Workers, NEW m \in queue, ClientFails(w, m)
    PROVE  TypeInv'
<1>1. m.job \in Jobs
  BY DEF TypeInv, TypeOK, Message
<1> QED BY <1>1 DEF TypeInv, TypeOK, LoopIndex, ClientFails, Deliver

LEMMA TypeBegin ==
    ASSUME TypeInv, NEW w \in Workers, NEW types \in SUBSET JobTypes,
           NEW m \in queue, Begin(w, m, types)
    PROVE  TypeInv'
<1> USE DEF TypeInv
<1>1. m.job \in Jobs /\ m.retries \in Nat
  BY DEF TypeOK, Message
<1>2. job[m.job] \in InsertedJob
  BY <1>1 DEF TypeOK, Begin, Job, FreeJob, JobTypes
<1>3. job' \in [Jobs -> Job]
  <2> DEFINE record == [job[m.job] EXCEPT !.status = "running", !.runs = @ + 1]
  <2>1. record \in Job
    <3>1. job[m.job].runs + 1 \in Nat
      BY <1>2 DEF InsertedJob
    <3>2. record \in InsertedJob
      BY <1>2, <3>1 DEF InsertedJob, JobStatus
    <3> QED BY <3>2 DEF Job
  <2>2. job' = [job EXCEPT ![m.job] = record]
    BY <1>1 DEF Begin, TypeOK
  <2> QED
    <3> HIDE DEF record
    <3> QED BY <2>1, <2>2 DEF TypeOK
<1> DEFINE slot == [IdleSlot EXCEPT !.pc = "load", !.job = m.job,
                                    !.run = job[m.job].runs + 1,
                                    !.retries = m.retries]
<1>4. slot \in BusySlot /\ slot.pc = "load" /\ slot.svc = 1
  <2>1. 1 \in 1..(NumServices + 1)
    BY PlatformAssumption
  <2>2. job[m.job].runs + 1 \in Nat
    BY <1>2 DEF InsertedJob
  <2> QED BY <1>1, <2>1, <2>2 DEF BusySlot, IdleSlot, PC
<1>5. worker' = [worker EXCEPT ![w] = slot]
  BY DEF Begin
<1>6. worker' \in [Workers -> Slot] /\ LoopIndex'
  <2> HIDE DEF slot
  <2> QED BY <1>4, <1>5, SlotType DEF TypeOK
<1> QED BY <1>3, <1>6 DEF TypeOK, Begin, Deliver, taskFrame

LEMMA TypeLoadRow ==
    ASSUME TypeInv, NEW w \in Workers, NEW types \in SUBSET JobTypes,
           NEW next \in {"remove", "pull", "power"}, LoadRow(w, types, next)
    PROVE  TypeInv'
<1> USE DEF TypeInv
<1> DEFINE i == Target(w)
<1>1. worker[w] \in BusySlot /\ i \in Installations /\ worker[w].svc = 1
  BY SlotFacts DEF LoadRow, At, LoopIndex
<1>2. CASE Live(i)
  <2>1. worker' = [worker EXCEPT ![w].pc = next, ![w].seen = row[i].status,
                                 ![w].ids = row[i].ids]
    BY <1>2 DEF LoadRow
  <2>2. row[i].status \in LiveStatus /\ row[i].ids \in SUBSET ContainerId
    BY <1>1, <1>2 DEF Live, TypeOK, Row
  <2> DEFINE slot == [worker[w] EXCEPT !.pc = next, !.seen = row[i].status,
                                       !.ids = row[i].ids]
  <2>3. slot \in BusySlot /\ slot.pc = next /\ slot.svc = 1
    BY <1>1, <2>2 DEF BusySlot, PC
  <2>4. worker' = [worker EXCEPT ![w] = slot]
    BY <2>1 DEF TypeOK
  <2>5. worker' \in [Workers -> Slot] /\ LoopIndex'
    <3> HIDE DEF slot
    <3> QED BY <2>3, <2>4, SlotType DEF TypeOK
  <2> QED BY <2>5 DEF TypeOK, LoadRow, taskFrame
<1>3. CASE ~Live(i)
  <2>1. Goto(w, "failjob")
    BY <1>3 DEF LoadRow
  <2> QED BY <2>1, TypeGoto DEF TypeOK, LoadRow, taskFrame, PC, At
<1> QED BY <1>2, <1>3

LEMMA TypeLoadAndMark ==
    ASSUME TypeInv, NEW w \in Workers, NEW types \in SUBSET JobTypes,
           NEW status \in LiveStatus, NEW next \in {"create", "remove"},
           LoadAndMark(w, types, status, next)
    PROVE  TypeInv'
<1> USE DEF TypeInv
<1> DEFINE i == Target(w)
<1>1. worker[w] \in BusySlot /\ i \in Installations /\ worker[w].svc = 1
  BY SlotFacts DEF LoadAndMark, At, LoopIndex
<1>2. CASE Live(i)
  <2>1. /\ worker' = [worker EXCEPT ![w].pc = next, ![w].seen = status,
                                    ![w].ids = row[i].ids]
        /\ row' = [row EXCEPT ![i].status = status]
    BY <1>2 DEF LoadAndMark
  <2>2. row[i] \in Row
    BY <1>1 DEF TypeOK
  <2> DEFINE slot == [worker[w] EXCEPT !.pc = next, !.seen = status,
                                       !.ids = row[i].ids]
  <2>3. slot \in BusySlot /\ slot.pc = next /\ slot.svc = 1
    BY <1>1, <2>2 DEF BusySlot, PC, Row
  <2>4. worker' = [worker EXCEPT ![w] = slot]
    BY <2>1 DEF TypeOK
  <2>5. [row[i] EXCEPT !.status = status] \in Row
    BY <2>2 DEF Row, RowStatus
  <2>6. row' \in [Installations -> Row]
    BY <2>1, <2>5 DEF TypeOK
  <2>7. 1 <= NumServices
    BY PlatformAssumption
  <2>8. worker' \in [Workers -> Slot] /\ LoopIndex'
    <3> HIDE DEF slot
    <3> QED BY <2>3, <2>4, <2>7, SlotType DEF TypeOK
  <2> QED BY <2>6, <2>8 DEF TypeOK, LoadAndMark, taskFrame
<1>3. CASE ~Live(i)
  <2>1. Goto(w, "failjob") /\ UNCHANGED row
    BY <1>3 DEF LoadAndMark
  <2> QED BY <2>1, TypeGoto DEF TypeOK, LoadAndMark, taskFrame, PC, At
<1> QED BY <1>2, <1>3

LEMMA TypeCreateContainer ==
    ASSUME TypeInv, NEW w \in Workers, NEW types \in SUBSET JobTypes,
           CreateContainer(w, types)
    PROVE  TypeInv'
<1> USE DEF TypeInv
<1> DEFINE i == Target(w)
           s == worker[w].svc
<1>1. /\ worker[w] \in BusySlot /\ i \in Installations
      /\ s \in Services /\ s <= NumServices
  BY SlotFacts, PlatformAssumption DEF CreateContainer, At, LoopIndex, BusySlot,
     Services
<1>2. OwnId(w, s) \in ContainerId
  BY <1>1 DEF OwnId, Id, ContainerId, BusySlot
<1> DEFINE c == [inst |-> i, id |-> OwnId(w, s), up |-> FALSE]
           v == [inst |-> i, labelled |-> FALSE]
<1>3. containers' \subseteq Container
  <2>1. c \in Container
    BY <1>1, <1>2 DEF Container
  <2>2. containers' = containers \cup {c}
    BY DEF CreateContainer
  <2> QED BY <2>1, <2>2 DEF TypeOK
<1>4. volumes' \subseteq Volume
  <2>1. v \in Volume
    BY <1>1 DEF Volume
  <2>2. volumes' = volumes \/ volumes' = volumes \cup {v}
    BY DEF CreateContainer, MountVolumes
  <2> QED BY <2>1, <2>2 DEF TypeOK
<1> QED BY <1>1, <1>3, <1>4, TypeGoto DEF CreateContainer, TypeOK, taskFrame, PC, At

LEMMA TypeStartContainer ==
    ASSUME TypeInv, NEW w \in Workers, NEW types \in SUBSET JobTypes,
           StartContainer(w, types)
    PROVE  TypeInv'
<1> USE DEF TypeInv
<1>1. worker[w] \in BusySlot /\ worker[w].svc <= NumServices
  BY SlotFacts DEF StartContainer, At, LoopIndex
<1> DEFINE slot == [worker[w] EXCEPT !.pc = "ready", !.svc = @ + 1]
<1>2. slot \in BusySlot /\ slot.pc = "ready"
  <2>1. worker[w].svc + 1 \in 1..(NumServices + 1)
    BY <1>1, PlatformAssumption DEF BusySlot
  <2> QED BY <1>1, <2>1 DEF BusySlot, PC
<1>3. worker' = [worker EXCEPT ![w] = slot]
  BY DEF StartContainer, TypeOK
<1>4. worker' \in [Workers -> Slot] /\ LoopIndex'
  <2> HIDE DEF slot
  <2> QED BY <1>2, <1>3, SlotType DEF TypeOK
<1>5. containers' \subseteq Container
  BY SwitchedType DEF StartContainer, ById, TypeOK
<1> QED BY <1>4, <1>5 DEF StartContainer, TypeOK, taskFrame

LEMMA TypeContainerReady ==
    ASSUME TypeInv, NEW w \in Workers, NEW types \in SUBSET JobTypes,
           ContainerReady(w, types)
    PROVE  TypeInv'
<1>1. worker[w] \in BusySlot
  BY SlotFacts DEF TypeInv, ContainerReady, At
<1>2. /\ AfterReady(w) \in {"commit", "create"}
      /\ AfterReady(w) = "create" => worker[w].svc <= NumServices
  BY <1>1, PlatformAssumption DEF AfterReady, BusySlot
<1> QED BY <1>2, TypeGoto DEF TypeInv, TypeOK, ContainerReady, taskFrame, PC, At

LEMMA TypeTaskFails ==
    ASSUME TypeInv, NEW w \in Workers, NEW types \in SUBSET JobTypes,
           NEW pcs \in SUBSET PC, NEW handler \in {"undo", "failjob"},
           TaskFails(w, types, pcs, handler)
    PROVE  TypeInv'
<1>1. worker[w].pc # "idle"
  BY DEF TaskFails, PC
<1> QED BY <1>1, TypeGoto DEF TypeInv, TypeOK, TaskFails, taskFrame, PC

\* A job of the executing slot whose status changes is still a job.
LEMMA JobStatusType ==
    ASSUME TypeOK, NEW j \in Jobs, job[j] \in InsertedJob,
           NEW status \in JobStatus
    PROVE  [job EXCEPT ![j].status = status] \in [Jobs -> Job]
<1>1. [job[j] EXCEPT !.status = status] \in InsertedJob
  BY DEF InsertedJob
<1> QED BY <1>1 DEF TypeOK, Job

\* A row whose status changes is still a row.
LEMMA RowStatusType ==
    ASSUME TypeOK, NEW i \in Installations, NEW status \in RowStatus
    PROVE  [row EXCEPT ![i].status = status] \in [Installations -> Row]
<1>1. [row[i] EXCEPT !.status = status] \in Row
  BY DEF TypeOK, Row
<1> QED BY <1>1 DEF TypeOK

\* Publishing a retry keeps the queue well typed.
LEMMA RetryType ==
    ASSUME TypeOK, NEW w \in Workers, worker[w] \in BusySlot, Retry(w)
    PROVE  queue' \subseteq Message
<1>1. [job |-> worker[w].job, retries |-> worker[w].retries + 1] \in Message
  BY DEF Message, BusySlot
<1> QED BY <1>1 DEF TypeOK, Retry

\* created_ids are container ids.
LEMMA CreatedIdsType ==
    ASSUME TypeOK, NEW w \in Workers, worker[w] \in BusySlot
    PROVE  CreatedIds(w) \in SUBSET ContainerId
<1>1. ASSUME NEW s \in Services PROVE OwnId(w, s) \in ContainerId
  BY DEF OwnId, Id, ContainerId, BusySlot
<1> QED BY <1>1 DEF CreatedIds

LEMMA TypeRecordContainers ==
    ASSUME TypeInv, NEW w \in Workers, NEW types \in SUBSET JobTypes,
           RecordContainers(w, types)
    PROVE  TypeInv'
<1> USE DEF TypeInv
<1> DEFINE i == Target(w)
<1>1. worker[w] \in BusySlot /\ i \in Installations
  BY SlotFacts DEF RecordContainers, At
<1>2. CASE Live(i)
  <2> DEFINE record == [row[i] EXCEPT
                          !.status = IF worker[w].seen = "running" THEN @
                                     ELSE "running",
                          !.ids = CreatedIds(w)]
             slot == [worker[w] EXCEPT !.pc = "finish", !.seen = "running"]
  <2>1. record \in Row
    BY <1>1, CreatedIdsType DEF TypeOK, Row, RowStatus, LiveStatus
  <2>2. row' = [row EXCEPT ![i] = record]
    BY <1>1, <1>2 DEF RecordContainers, WriteSuccess, TypeOK
  <2>3. row' \in [Installations -> Row]
    <3> HIDE DEF record
    <3> QED BY <2>1, <2>2 DEF TypeOK
  <2>4. slot \in BusySlot /\ slot.pc = "finish"
    BY <1>1 DEF BusySlot, PC, LiveStatus
  <2>5. worker' = [worker EXCEPT ![w] = slot]
    BY <1>2 DEF RecordContainers, TypeOK
  <2>6. worker' \in [Workers -> Slot] /\ LoopIndex'
    <3> HIDE DEF slot
    <3> QED BY <2>4, <2>5, SlotType DEF TypeOK
  <2> QED BY <2>3, <2>6 DEF TypeOK, RecordContainers, taskFrame
<1>3. CASE ~Live(i)
  <2> DEFINE slot == [worker[w] EXCEPT !.pc = "undo", !.dead = TRUE]
  <2>1. slot \in BusySlot /\ slot.pc = "undo"
    BY <1>1 DEF BusySlot, PC
  <2>2. worker' = [worker EXCEPT ![w] = slot] /\ UNCHANGED row
    BY <1>3 DEF RecordContainers, TypeOK
  <2>3. worker' \in [Workers -> Slot] /\ LoopIndex'
    <3> HIDE DEF slot
    <3> QED BY <2>1, <2>2, SlotType DEF TypeOK
  <2> QED BY <2>2, <2>3 DEF TypeOK, RecordContainers, taskFrame
<1> QED BY <1>2, <1>3

LEMMA TypeCompleteJob ==
    ASSUME TypeInv, NEW w \in Workers, NEW types \in SUBSET JobTypes,
           CompleteJob(w, types)
    PROVE  TypeInv'
<1>1. worker[w].job \in Jobs /\ job[worker[w].job] \in InsertedJob
  BY SlotFacts DEF TypeInv, CompleteJob, At
<1>2. job' \in [Jobs -> Job]
  BY <1>1, JobStatusType DEF TypeInv, CompleteJob, JobStatus
<1> QED BY <1>2, TypeIdle DEF TypeInv, TypeOK, CompleteJob, taskFrame

LEMMA TypeHandler ==
    ASSUME TypeInv, NEW w \in Workers, NEW types \in SUBSET JobTypes,
           \/ Rollback(w, types)
           \/ HandlerRaises(w, types)
           \/ FailJob(w, types)
           \/ FailInstallation(w, types)
           \/ FailJobAndRetry(w, types)
    PROVE  TypeInv'
<1> USE DEF TypeInv
<1>1. /\ worker[w] \in BusySlot /\ Target(w) \in Installations
      /\ worker[w].job \in Jobs /\ job[worker[w].job] \in InsertedJob
      /\ worker[w].pc # "idle"
  BY SlotFacts DEF Rollback, HandlerRaises, FailJob, FailInstallation,
     FailJobAndRetry, At
<1>2. CASE Rollback(w, types)
  <2>1. containers' \subseteq Container
    BY <1>2 DEF Rollback, RemoveCreated, TypeOK
  <2> QED BY <1>1, <1>2, <2>1, TypeGoto DEF Rollback, TypeOK, taskFrame, PC
<1>3. CASE HandlerRaises(w, types)
  BY <1>3, TypeIdle DEF HandlerRaises, TypeOK, taskFrame
<1>4. ASSUME MarkFailed(w) PROVE job' \in [Jobs -> Job]
  BY <1>1, <1>4, JobStatusType DEF MarkFailed, JobStatus
<1>5. CASE FailJob(w, types)
  BY <1>1, <1>4, <1>5, TypeGoto DEF FailJob, TypeOK, taskFrame, PC
<1>6. CASE FailInstallation(w, types)
  <2>1. row' \in [Installations -> Row]
    BY <1>1, <1>6, RowStatusType DEF FailInstallation, WriteError, TypeOK,
       RowStatus, LiveStatus
  <2>2. queue' \subseteq Message
    BY <1>1, <1>6, RetryType DEF FailInstallation, TypeOK
  <2> QED BY <1>6, <2>1, <2>2, TypeIdle DEF FailInstallation, TypeOK, taskFrame
<1>7. CASE FailJobAndRetry(w, types)
  <2>1. queue' \subseteq Message
    BY <1>1, <1>7, RetryType DEF FailJobAndRetry
  <2> QED BY <1>4, <1>7, <2>1, TypeIdle DEF FailJobAndRetry, TypeOK, taskFrame
<1> QED BY <1>2, <1>3, <1>5, <1>6, <1>7

\* Removing an installation's containers leaves a set of containers.
LEMMA RemovalType ==
    ASSUME TypeOK, NEW i, NEW ids, RemoveInstallationContainers(i, ids)
    PROVE  containers' \subseteq Container
  BY DEF RemoveInstallationContainers, TypeOK

LEMMA TypeRemoveOld ==
    ASSUME TypeInv, NEW w \in Workers, NEW types \in SUBSET JobTypes,
           RemoveOld(w, types)
    PROVE  TypeInv'
<1>1. worker[w].svc = 1 /\ 1 <= NumServices
  BY PlatformAssumption DEF TypeInv, RemoveOld, At, LoopIndex
<1>2. containers' \subseteq Container
  BY RemovalType DEF TypeInv, RemoveOld
<1> QED BY <1>1, <1>2, TypeGoto DEF TypeInv, TypeOK, RemoveOld, taskFrame, PC, At

LEMMA TypeSharedStep ==
    ASSUME TypeInv, NEW w \in Workers, NEW types \in SUBSET JobTypes,
           SharedStep(w, types)
    PROVE  TypeInv'
  BY TypeClientFails, TypeBegin, TypeLoadRow, TypeCreateContainer, TypeStartContainer,
     TypeContainerReady, TypeTaskFails, TypeRecordContainers, TypeCompleteJob,
     TypeHandler, TypeRemoveOld DEF SharedStep

LEMMA TypeOwnStep ==
    ASSUME TypeInv, NEW w \in Workers, OwnStep(w)
    PROVE  TypeInv'
<1> USE DEF TypeInv
<1>t. /\ install \in SUBSET JobTypes /\ uninstall \in SUBSET JobTypes
      /\ update \in SUBSET JobTypes /\ power \in SUBSET JobTypes
      /\ {"start"} \in SUBSET JobTypes /\ {"stop"} \in SUBSET JobTypes
      /\ {"restart"} \in SUBSET JobTypes
  BY DEF install, uninstall, update, power, JobTypes
<1>1. CASE InstallMark(w)
  BY <1>t, <1>1, TypeLoadAndMark DEF InstallMark, LiveStatus
<1>2. CASE UninstallMark(w)
  BY <1>t, <1>2, TypeLoadAndMark DEF UninstallMark, LiveStatus
<1>3. CASE UpdatePull(w)
  BY <1>3, TypeGoto DEF UpdatePull, TypeOK, LoopIndex, taskFrame, PC, At
<1>4. CASE UninstallContainers(w)
  BY <1>4, RemovalType, TypeGoto DEF UninstallContainers, TypeOK, taskFrame, PC, At
<1>5. CASE UninstallVolumes(w)
  BY <1>5, TypeGoto DEF UninstallVolumes, RemoveInstallationVolumes, TypeOK,
     taskFrame, PC, At
<1>6. CASE UninstallDelete(w)
  <2>1. worker[w] \in BusySlot /\ Target(w) \in Installations
    BY <1>t, <1>6, SlotFacts DEF UninstallDelete, At
  <2>2. [FreeRow EXCEPT !.status = "deleted"] \in Row
    BY DEF FreeRow, Row, RowStatus
  <2>3. CASE Live(Target(w)) /\ Referenced(w)
    <3> DEFINE slot == [worker[w] EXCEPT !.pc = "failjob", !.dead = TRUE]
    <3>1. slot \in BusySlot /\ slot.pc = "failjob"
      BY <2>1 DEF BusySlot, PC
    <3>2. worker' = [worker EXCEPT ![w] = slot] /\ UNCHANGED row
      BY <1>6, <2>3 DEF UninstallDelete, TypeOK
    <3>3. worker' \in [Workers -> Slot] /\ LoopIndex'
      <4> HIDE DEF slot
      <4> QED BY <3>1, <3>2, SlotType DEF TypeOK
    <3> QED BY <1>6, <3>2, <3>3 DEF UninstallDelete, TypeOK, taskFrame
  <2>4. CASE ~(Live(Target(w)) /\ Referenced(w))
    <3>1. Goto(w, "finish") /\ row' \in [Installations -> Row]
      BY <1>6, <2>1, <2>2, <2>4 DEF UninstallDelete, TypeOK
    <3> QED BY <1>6, <3>1, TypeGoto DEF UninstallDelete, TypeOK, taskFrame, PC, At
  <2> QED BY <2>3, <2>4
<1>7. ASSUME NEW up \in BOOLEAN, SwitchStored(w, up), worker[w].pc = "power"
      PROVE  TypeInv'
  <2>1. PICK cs \in Reached(ById(worker[w].ids)) : containers' = Switched(cs, up)
    BY <1>7 DEF SwitchStored
  <2>2. containers' \subseteq Container
    BY <2>1, SwitchedType DEF Reached, ById, TypeOK
  <2> QED BY <1>7, <2>2, TypeGoto DEF SwitchStored, TypeOK, taskFrame, PC
<1>8. CASE StartContainers(w)
  BY <1>7, <1>8 DEF StartContainers, At
<1>9. CASE StopContainers(w)
  BY <1>7, <1>9 DEF StopContainers, At
<1>10. CASE RestartContainers(w)
  <2> DEFINE mine == ById(worker[w].ids)
  <2>1. PICK off \in Reached(mine), on \in Reached(mine) :
            containers' = (containers \ mine)
               \cup {[c EXCEPT !.up = c \in on \/ (c.up /\ c \notin off)] :
                         c \in mine}
    BY <1>10 DEF RestartContainers
  <2>2. ASSUME NEW c \in Container, NEW b \in BOOLEAN
        PROVE  [c EXCEPT !.up = b] \in Container
    BY DEF Container
  <2>3. \A c \in containers :
            [c EXCEPT !.up = c \in on \/ (c.up /\ c \notin off)] \in Container
    <3> SUFFICES ASSUME NEW c \in containers
                 PROVE  [c EXCEPT !.up = c \in on \/ (c.up /\ c \notin off)]
                            \in Container
      OBVIOUS
    <3>1. c \in Container /\ (c \in on \/ (c.up /\ c \notin off)) \in BOOLEAN
      BY DEF TypeOK
    <3> QED BY <2>2, <3>1
  <2>4. mine \subseteq containers
    BY DEF ById
  <2>5. containers' \subseteq Container
    BY <2>1, <2>3, <2>4 DEF TypeOK
  <2> QED BY <1>10, <2>5, TypeGoto DEF RestartContainers, TypeOK, taskFrame, PC, At
<1>11. CASE PowerRecord(w)
  <2> DEFINE i == Target(w)
             aim == Aim(Type(w))
  <2>1. worker[w] \in BusySlot /\ i \in Installations /\ worker[w].pc # "idle"
    BY <1>t, <1>11, SlotFacts DEF PowerRecord, At
  <2>2. aim \in RowStatus
    BY DEF Aim, RowStatus, LiveStatus
  <2>3. CASE worker[w].seen = aim \/ Live(i)
    <3>1. Goto(w, "finish")
      BY <1>11, <2>3 DEF PowerRecord
    <3>2. row' \in [Installations -> Row]
      BY <1>11, <2>1, <2>2, <2>3, RowStatusType DEF PowerRecord, TypeOK
    <3> QED BY <1>11, <2>1, <3>1, <3>2, TypeGoto DEF PowerRecord, TypeOK,
               taskFrame, PC
  <2>4. CASE worker[w].seen # aim /\ ~Live(i)
    <3> DEFINE slot == [worker[w] EXCEPT !.pc = "failjob", !.dead = TRUE]
    <3>1. slot \in BusySlot /\ slot.pc = "failjob"
      BY <2>1 DEF BusySlot, PC
    <3>2. worker' = [worker EXCEPT ![w] = slot] /\ UNCHANGED row
      BY <1>11, <2>4 DEF PowerRecord, TypeOK
    <3>3. worker' \in [Workers -> Slot] /\ LoopIndex'
      <4> HIDE DEF slot
      <4> QED BY <3>1, <3>2, SlotType DEF TypeOK
    <3> QED BY <1>11, <3>2, <3>3 DEF PowerRecord, TypeOK, taskFrame
  <2> QED BY <2>3, <2>4
<1>12. CASE UninstallUnlink(w)
  <2> DEFINE found == {j \in Jobs : job[j].inst = Target(w)}
             slot == [worker[w] EXCEPT !.pc = "flush", !.unlinked = found]
  <2>1. worker[w] \in BusySlot
    BY <1>t, <1>12, SlotFacts DEF UninstallUnlink, At
  <2>2. slot \in BusySlot /\ slot.pc = "flush"
    BY <2>1 DEF BusySlot, PC
  <2>3. worker' = [worker EXCEPT ![w] = slot]
    BY <1>12 DEF UninstallUnlink, TypeOK
  <2>4. worker' \in [Workers -> Slot] /\ LoopIndex'
    <3> HIDE DEF slot
    <3> QED BY <2>2, <2>3, SlotType DEF TypeOK
  <2> QED BY <1>12, <2>4 DEF UninstallUnlink, TypeOK, taskFrame
<1> QED BY <1>1, <1>2, <1>3, <1>4, <1>5, <1>6, <1>8, <1>9, <1>10, <1>11, <1>12
        DEF OwnStep

LEMMA TypeApi ==
    ASSUME TypeInv, ApiNext
    PROVE  TypeInv'
<1> USE DEF TypeInv
<1>1. ASSUME NEW j \in Jobs, NEW t \in JobTypes, NEW i \in Installations,
             InsertJob(j, t, i)
      PROVE  job' \in [Jobs -> Job] /\ unsent' \subseteq Jobs
  <2>1. [type |-> t, inst |-> i, status |-> "pending", runs |-> 0] \in Job
    BY DEF Job, InsertedJob, JobStatus
  <2> QED BY <1>1, <2>1 DEF InsertJob, TypeOK
<1>2. UNCHANGED worker => LoopIndex'
  BY DEF LoopIndex
<1>3. ASSUME NEW r \in Requests, NEW a \in Apps, CheckExisting(r, a)
      PROVE  TypeInv'
  BY <1>2, <1>3 DEF CheckExisting, TypeOK, apiFrame
<1>4. ASSUME NEW r \in Requests, NEW i \in Installations, NEW j \in Jobs,
             CreateInstallation(r, i, j)
      PROVE  TypeInv'
  <2>1. [app |-> request[r], status |-> "pending", ids |-> {}] \in Row
    BY DEF TypeOK, Row, RowStatus, LiveStatus
  <2>2. row' \in [Installations -> Row]
    BY <1>4, <2>1 DEF CreateInstallation, TypeOK
  <2>3. "install" \in JobTypes
    BY DEF JobTypes
  <2> QED BY <1>1, <1>2, <1>4, <2>2, <2>3 DEF CreateInstallation, TypeOK, apiFrame
<1>5. ASSUME NEW i \in Installations, NEW j \in Jobs, Uninstall(i, j)
      PROVE  TypeInv'
  <2>1. "uninstall" \in JobTypes /\ "uninstalling" \in RowStatus
    BY DEF JobTypes, RowStatus, LiveStatus
  <2> QED BY <1>1, <1>2, <1>5, <2>1, RowStatusType DEF Uninstall, TypeOK, apiFrame
<1>6. ASSUME NEW i \in Installations, NEW j \in Jobs, NEW t \in JobTypes,
             RequestOperation(i, j, t)
      PROVE  TypeInv'
  BY <1>1, <1>2, <1>6 DEF RequestOperation, TypeOK, apiFrame
<1>7. ASSUME NEW i \in Installations, NEW j \in Jobs, UpdateConfig(i, j)
      PROVE  TypeInv'
  <2>1. "reconfigure" \in JobTypes
    BY DEF JobTypes
  <2> QED BY <1>1, <1>2, <1>7, <2>1 DEF UpdateConfig, TypeOK, apiFrame
<1>8. ASSUME NEW j \in Jobs, Delay(j)
      PROVE  TypeInv'
  <2>1. [job |-> j, retries |-> 0] \in Message
    BY DEF Message
  <2> QED BY <1>2, <1>8, <2>1 DEF Delay, TypeOK
<1>9. ASSUME NEW j \in Jobs, DelayFails(j)
      PROVE  TypeInv'
  BY <1>2, <1>9 DEF DelayFails, TypeOK, apiFrame
<1> QED BY <1>3, <1>4, <1>5, <1>6, <1>7, <1>8, <1>9 DEF ApiNext

LEMMA TypeReaper ==
    ASSUME TypeInv, ReaperNext
    PROVE  TypeInv'
<1> USE DEF TypeInv
<1> DEFINE ReaperType == [pc: {"idle", "list", "reap"},
                          live: SUBSET Installations,
                          orphans: SUBSET ContainerId]
<1>1. UNCHANGED worker => LoopIndex'
  BY DEF LoopIndex
<1>2. IdleReaper \in ReaperType
  BY DEF IdleReaper
<1>3. CASE ReaperReadIds
  <2>1. reaper' \in ReaperType
    BY <1>3 DEF ReaperReadIds, TypeOK
  <2> QED BY <1>1, <1>3, <2>1 DEF ReaperReadIds, TypeOK, reaperFrame
<1>4. CASE ReaperList
  <2>1. {c.id : c \in Orphans} \in SUBSET ContainerId
    BY DEF Orphans, TypeOK, Container
  <2>2. reaper' \in ReaperType
    BY <1>2, <1>4, <2>1 DEF ReaperList, IdleReaper
  <2> QED BY <1>1, <1>4, <2>2 DEF ReaperList, TypeOK, reaperFrame
<1>5. CASE ReaperRemove
  <2>1. containers' \subseteq Container /\ volumes' \subseteq Volume
    BY <1>5 DEF ReaperRemove, TypeOK
  <2> QED BY <1>1, <1>2, <1>5, <2>1 DEF ReaperRemove, TypeOK, reaperFrame
<1>6. CASE ReaperFails
  BY <1>1, <1>2, <1>6 DEF ReaperFails, TypeOK, reaperFrame
<1> QED BY <1>3, <1>4, <1>5, <1>6 DEF ReaperNext

LEMMA TypeFault ==
    ASSUME TypeInv, FaultNext
    PROVE  TypeInv'
<1> USE DEF TypeInv
<1> PICK w \in Workers : WorkerCrash(w) \/ Redelivery(w) \/ ChildLost(w)
  BY DEF FaultNext
<1>1. worker[w] \in BusySlot
  BY DEF TypeOK, Slot, IdleSlot, WorkerCrash, Redelivery, ChildLost, Fault
<1>2. Held(w) \in Message
  BY <1>1 DEF Held, Message, BusySlot
<1>3. faults' \in 0..MaxFaults
  BY PlatformAssumption DEF WorkerCrash, Redelivery, ChildLost, Fault, TypeOK
<1>4. CASE WorkerCrash(w)
  BY <1>2, <1>3, <1>4, TypeIdle DEF WorkerCrash, TypeOK, taskFrame
<1>5. CASE Redelivery(w)
  BY <1>2, <1>3, <1>5 DEF Redelivery, TypeOK, LoopIndex, taskFrame
<1>6. CASE ChildLost(w)
  BY <1>3, <1>6, TypeIdle DEF ChildLost, TypeOK, taskFrame
<1> QED BY <1>4, <1>5, <1>6

LEMMA TypeInit == Init => TypeInv
<1> SUFFICES ASSUME Init PROVE TypeInv
  OBVIOUS
<1> USE DEF Init
<1>1. FreeRow \in Row
  BY DEF FreeRow, Row, RowStatus
<1>2. 0 \in 0..MaxFaults
  BY PlatformAssumption
<1>3. TypeOK
  BY <1>1, <1>2 DEF TypeOK, Job, Slot, IdleReaper
<1>4. LoopIndex
  BY DEF LoopIndex, IdleSlot
<1> QED BY <1>3, <1>4 DEF TypeInv

LEMMA TypeStep == TypeInv /\ [Next]_vars => TypeInv'
<1> SUFFICES ASSUME TypeInv, [Next]_vars PROVE TypeInv'
  OBVIOUS
<1>1. CASE ApiNext
  BY <1>1, TypeApi
<1>2. ASSUME NEW w \in Workers, TaskStep(w) PROVE TypeInv'
  BY <1>2, TaskStepCases, TypeSharedStep, TypeOwnStep
<1>3. CASE ReaperNext
  BY <1>3, TypeReaper
<1>4. CASE FaultNext
  BY <1>4, TypeFault
<1>5. CASE UNCHANGED vars
  BY <1>5 DEF TypeInv, TypeOK, LoopIndex, vars
<1> QED BY <1>1, <1>2, <1>3, <1>4, <1>5 DEF Next

\* In every reachable state every variable has its type: whatever the tasks
\* and their failures do, a slot holds a real job of a real installation and
\* the loop over the services stays within the template.
THEOREM TypeCorrect == Spec => []TypeOK
<1>1. TypeInv => TypeOK
  BY DEF TypeInv
<1> QED BY TypeInit, TypeStep, <1>1, PTL DEF Spec

-----------------------------------------------------------------------------
(* A deleted installation.                                                 *)

\* A deleted row has no contents, so deleting it again changes nothing.
DeletedEmpty ==
    \A i \in Installations :
        row[i].status = "deleted" => row[i] = [FreeRow EXCEPT !.status = "deleted"]

\* What a step does to the rows: it leaves them alone, or inserts a new one, or
\* changes a live one, or deletes one.
RowStep ==
    \/ UNCHANGED row
    \/ \E i \in Installations :
           /\ row' = [row EXCEPT ![i] = row'[i]]
           /\ \/ row[i].status = "free" /\ row'[i].status \in LiveStatus
              \/ Live(i) /\ row'[i].status \in LiveStatus
              \/ row'[i] = [FreeRow EXCEPT !.status = "deleted"]

LEMMA RowSharedStep ==
    ASSUME TypeInv, NEW w \in Workers, NEW types \in SUBSET JobTypes,
           SharedStep(w, types)
    PROVE  RowStep
<1>1. CASE RecordContainers(w, types)
  <2>1. Target(w) \in Installations
    BY <1>1, SlotFacts DEF RecordContainers, At, TypeInv
  <2>2. CASE Live(Target(w))
    <3> DEFINE i == Target(w)
    <3>1. row' = [row EXCEPT ![i].status = IF worker[w].seen = "running" THEN @
                                           ELSE "running",
                             ![i].ids = CreatedIds(w)]
      BY <1>1, <2>2 DEF RecordContainers, WriteSuccess
    <3>2. row[i] \in Row
      BY <2>1 DEF TypeInv, TypeOK
    <3>3. row'[i].status \in {row[i].status, "running"}
      BY <2>1, <3>1, <3>2 DEF TypeInv, TypeOK, Row
    <3>4. row' = [row EXCEPT ![i] = row'[i]]
      BY <2>1, <3>1 DEF TypeInv, TypeOK
    <3> QED BY <2>1, <2>2, <3>3, <3>4 DEF RowStep, Live, LiveStatus
  <2>3. CASE ~Live(Target(w))
    BY <1>1, <2>3 DEF RecordContainers, RowStep
  <2> QED BY <2>2, <2>3
<1>2. CASE FailInstallation(w, types)
  <2>1. Target(w) \in Installations
    BY <1>2, SlotFacts DEF FailInstallation, At, TypeInv
  <2>2. CASE row' = row
    BY <2>2 DEF RowStep
  <2>3. CASE row' # row
    <3> DEFINE i == Target(w)
    <3>1. Live(i) /\ row' = [row EXCEPT ![i].status = "error"]
      BY <1>2, <2>3 DEF FailInstallation, WriteError
    <3>2. row[i] \in Row
      BY <2>1 DEF TypeInv, TypeOK
    <3>3. row'[i].status = "error" /\ row' = [row EXCEPT ![i] = row'[i]]
      BY <2>1, <3>1, <3>2 DEF TypeInv, TypeOK, Row
    <3> QED BY <2>1, <3>1, <3>3 DEF RowStep, LiveStatus
  <2> QED BY <2>2, <2>3
<1>3. CASE UNCHANGED row
  BY <1>3 DEF RowStep
<1> QED BY <1>1, <1>2, <1>3 DEF SharedStep, Begin, LoadRow, CreateContainer,
        StartContainer, ContainerReady, TaskFails, CompleteJob, Rollback,
        HandlerRaises, FailJob, FailJobAndRetry, RemoveOld, ClientFails

LEMMA RowMarked ==
    ASSUME TypeInv, NEW i \in Installations, Live(i), NEW status \in LiveStatus,
           row' = [row EXCEPT ![i].status = status]
    PROVE  RowStep
<1>1. row[i] \in Row
  BY DEF TypeInv, TypeOK
<1>2. row'[i].status = status /\ row' = [row EXCEPT ![i] = row'[i]]
  BY <1>1 DEF TypeInv, TypeOK, Row
<1> QED BY <1>2 DEF RowStep

LEMMA RowOwnStep ==
    ASSUME TypeInv, NEW w \in Workers, OwnStep(w)
    PROVE  RowStep
<1>t. /\ install \in SUBSET JobTypes /\ uninstall \in SUBSET JobTypes
      /\ power \in SUBSET JobTypes
  BY DEF install, uninstall, power, JobTypes
<1>1. ASSUME NEW types \in SUBSET JobTypes, NEW status \in LiveStatus, NEW next,
             LoadAndMark(w, types, status, next)
      PROVE  RowStep
  <2>1. Target(w) \in Installations
    BY <1>1, SlotFacts DEF LoadAndMark, At, TypeInv
  <2> QED BY <1>1, <2>1, RowMarked DEF LoadAndMark, RowStep
<1>2. CASE InstallMark(w)
  BY <1>1, <1>2, <1>t DEF InstallMark, LiveStatus
<1>3. CASE UninstallMark(w)
  BY <1>1, <1>3, <1>t DEF UninstallMark, LiveStatus
<1>4. CASE UninstallDelete(w)
  <2>1. Target(w) \in Installations
    BY <1>4, <1>t, SlotFacts DEF UninstallDelete, At, TypeInv, uninstall
  <2>2. \/ UNCHANGED row
        \/ /\ row' = [row EXCEPT ![Target(w)] = row'[Target(w)]]
           /\ row'[Target(w)] = [FreeRow EXCEPT !.status = "deleted"]
    BY <1>4, <2>1 DEF UninstallDelete, TypeInv, TypeOK
  <2> QED BY <2>1, <2>2 DEF RowStep
<1>5. CASE PowerRecord(w)
  <2>1. Target(w) \in Installations
    BY <1>5, <1>t, SlotFacts DEF PowerRecord, At, TypeInv
  <2>2. Aim(Type(w)) \in LiveStatus
    BY DEF Aim, LiveStatus
  <2> QED BY <1>5, <2>1, <2>2, RowMarked DEF PowerRecord, RowStep
<1>6. CASE UNCHANGED row
  BY <1>6 DEF RowStep
<1> QED BY <1>2, <1>3, <1>4, <1>5, <1>6 DEF OwnStep, UpdatePull,
        UninstallContainers, UninstallVolumes, UninstallUnlink, StartContainers,
        StopContainers, SwitchStored, RestartContainers

LEMMA RowApi ==
    ASSUME TypeInv, ApiNext
    PROVE  RowStep
<1>1. ASSUME NEW r \in Requests, NEW i \in Installations, NEW j \in Jobs,
             CreateInstallation(r, i, j)
      PROVE  RowStep
  <2>1. /\ row' = [row EXCEPT ![i] = row'[i]]
        /\ row[i].status = "free" /\ row'[i].status = "pending"
    BY <1>1 DEF CreateInstallation, NextInstallation, TypeInv, TypeOK
  <2> QED BY <2>1 DEF RowStep, LiveStatus
<1>2. ASSUME NEW i \in Installations, NEW j \in Jobs, Uninstall(i, j)
      PROVE  RowStep
  BY <1>2, RowMarked DEF Uninstall, LiveStatus
<1> QED BY <1>1, <1>2 DEF ApiNext, CheckExisting, RequestOperation,
        UpdateConfig, Delay, DelayFails, RowStep

LEMMA RowNext ==
    ASSUME TypeInv, [Next]_vars
    PROVE  RowStep
<1>1. ASSUME NEW w \in Workers, TaskStep(w) PROVE RowStep
  BY <1>1, TaskStepCases, RowSharedStep, RowOwnStep
<1>2. CASE UNCHANGED row
  BY <1>2 DEF RowStep
<1> QED BY <1>1, <1>2, RowApi DEF Next, ReaperNext, ReaperReadIds, ReaperList,
        ReaperRemove, ReaperFails, reaperFrame, FaultNext, WorkerCrash,
        Redelivery, ChildLost, vars

LEMMA DeletedStep ==
    ASSUME TypeInv, DeletedEmpty, RowStep
    PROVE  /\ DeletedEmpty'
           /\ \A i \in Installations : row[i].status = "deleted" => row'[i] = row[i]
<1>1. CASE UNCHANGED row
  BY <1>1 DEF DeletedEmpty
<1>2. ASSUME NEW i \in Installations, row' = [row EXCEPT ![i] = row'[i]],
             \/ row[i].status = "free" /\ row'[i].status \in LiveStatus
             \/ Live(i) /\ row'[i].status \in LiveStatus
             \/ row'[i] = [FreeRow EXCEPT !.status = "deleted"]
      PROVE  /\ DeletedEmpty'
             /\ \A k \in Installations :
                    row[k].status = "deleted" => row'[k] = row[k]
  <2>1. \A k \in Installations : k # i => row'[k] = row[k]
    BY <1>2 DEF TypeInv, TypeOK
  <2>2. row[i].status = "deleted" => row'[i] = row[i]
    BY <1>2 DEF Live, LiveStatus, DeletedEmpty
  <2>3. row'[i].status = "deleted" => row'[i] = [FreeRow EXCEPT !.status = "deleted"]
    BY <1>2 DEF LiveStatus
  <2> QED BY <2>1, <2>2, <2>3 DEF DeletedEmpty
<1> QED BY <1>1, <1>2 DEF RowStep

\* Once the row of an installation is deleted nothing changes it any more:
\* neither a task that was under way, nor a retry, nor a redelivery.
THEOREM DeletedStaysDeleted == Spec => DeletedIsFinal
<1> DEFINE Inv == TypeInv /\ DeletedEmpty
           Kept == \A i \in Installations :
                       row[i].status = "deleted" => row'[i] = row[i]
<1>1. Init => Inv
  BY TypeInit DEF Init, DeletedEmpty, FreeRow
<1>2. Inv /\ [Next]_vars => Inv' /\ Kept
  BY TypeStep, RowNext, DeletedStep
<1>3. Inv /\ [Next]_vars => [Kept]_vars
  BY <1>2
<1> QED BY <1>1, <1>2, <1>3, PTL DEF Spec, DeletedIsFinal
=============================================================================
