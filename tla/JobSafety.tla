----------------------------- MODULE JobSafety ------------------------------
(***************************************************************************)
(* Theorems about jobs and their executions, for runs without faults: a    *)
(* redelivery duplicates an execution, and a crash leaves one unfinished.  *)
(***************************************************************************)
EXTENDS LifecycleProofs

-----------------------------------------------------------------------------
(* What the step of a slot does to its job, whichever task it executes.    *)

\* A task that goes on with the same job and message.
Stays(w) ==
    /\ worker[w].pc # "idle" /\ worker'[w].pc # "idle"
    /\ worker' = [worker EXCEPT ![w] = worker'[w]]
    /\ worker'[w].job = worker[w].job
    /\ worker'[w].run = worker[w].run
    /\ worker'[w].retries = worker[w].retries
    /\ UNCHANGED queue

\* A task that ends.
Leaves(w) ==
    worker[w].pc # "idle" /\ worker' = [worker EXCEPT ![w] = IdleSlot]

MarkedJob(w, status) == job' = [job EXCEPT ![worker[w].job].status = status]

\* It takes a message.
Takes(w) ==
    \E m \in queue :
        /\ worker[w].pc = "idle"
        /\ queue' = queue \ {m}
        /\ job' = [job EXCEPT ![m.job].status = "running", ![m.job].runs = @ + 1]
        /\ worker' = [worker EXCEPT ![w] = worker'[w]]
        /\ worker'[w].pc = "load" /\ worker'[w].job = m.job
        /\ worker'[w].run = job[m.job].runs + 1
        /\ worker'[w].retries = m.retries
        /\ worker'[w].dead = FALSE

\* The jobs the flush of a deletion has to find.
JobsOf(i) == {j \in Jobs : job[j].inst = i}

\* It works; the session dies only on a row that is gone, or on one whose
\* deletion is refused.
Works(w) ==
    /\ Stays(w)
    /\ worker[w].pc # "failinst"
    /\ worker'[w].pc # "failinst"
    /\ worker'[w].pc = "flush" => worker'[w].unlinked = JobsOf(Target(w))
    /\ worker'[w].dead => \/ worker[w].dead
                          \/ ~Live(Target(w))
                          \/ At(w, "flush", uninstall) /\ Referenced(w)
    /\ UNCHANGED job

\* It marks its job failed and goes on to the installation.
Fails(w) ==
    /\ Stays(w)
    /\ worker'[w].pc = "failinst"
    /\ worker'[w].dead = worker[w].dead
    /\ MarkedJob(w, "failed")

Completes(w) ==
    /\ Leaves(w) /\ worker[w].pc # "failinst"
    /\ MarkedJob(w, "completed") /\ UNCHANGED queue

\* It ends as failed, with or without a retry.
GivesUp(w) ==
    /\ Leaves(w)
    /\ MarkedJob(w, "failed") \/ (worker[w].pc = "failinst" /\ UNCHANGED job)
    /\ Retry(w) \/ UNCHANGED queue

\* Its handler raises.
Raises(w) == Leaves(w) /\ worker[w].dead /\ UNCHANGED <<job, queue>>

SlotStep(w) ==
    /\ UNCHANGED <<unsent, lost>>
    /\ Takes(w) \/ Works(w) \/ Fails(w) \/ Completes(w) \/ GivesUp(w) \/ Raises(w)

\* A slot that only moves on works.
LEMMA GotoWorks ==
    ASSUME TypeInv, NEW w \in Workers, worker[w].pc \notin {"idle", "failinst"},
           NEW pc \in PC, pc \notin {"failinst", "flush"}, Goto(w, pc),
           UNCHANGED <<job, queue, unsent, lost>>
    PROVE  SlotStep(w)
<1>1. worker[w] \in BusySlot
  BY DEF TypeInv, TypeOK, Slot, IdleSlot
<1>2. worker'[w] = [worker[w] EXCEPT !.pc = pc]
  BY DEF Goto, TypeInv, TypeOK
<1>3. worker' = [worker EXCEPT ![w] = worker'[w]]
  BY <1>2 DEF Goto, TypeInv, TypeOK
<1>4. /\ worker'[w].pc = pc /\ worker'[w].job = worker[w].job
      /\ worker'[w].run = worker[w].run /\ worker'[w].dead = worker[w].dead
      /\ worker'[w].retries = worker[w].retries
  BY <1>1, <1>2 DEF BusySlot
<1>5. pc # "idle"
  BY DEF PC
<1> QED BY <1>3, <1>4, <1>5 DEF SlotStep, Works, Stays

\* A slot whose record changes in other fields works.
LEMMA UpdateWorks ==
    ASSUME TypeInv, NEW w \in Workers, worker[w].pc \notin {"idle", "failinst"},
           NEW slot, worker' = [worker EXCEPT ![w] = slot],
           slot.pc \in PC \ {"failinst"}, slot.job = worker[w].job,
           slot.run = worker[w].run, slot.retries = worker[w].retries,
           slot.pc = "flush" => slot.unlinked = JobsOf(Target(w)),
           slot.dead => \/ worker[w].dead
                        \/ ~Live(Target(w))
                        \/ At(w, "flush", uninstall) /\ Referenced(w),
           UNCHANGED <<job, queue, unsent, lost>>
    PROVE  SlotStep(w)
<1>1. worker'[w] = slot
  BY DEF TypeInv, TypeOK
<1>2. slot.pc # "idle"
  BY DEF PC
<1> QED BY <1>1, <1>2 DEF SlotStep, Works, Stays

LEMMA SharedSlotStep ==
    ASSUME TypeInv, NEW w \in Workers, NEW types \in SUBSET JobTypes,
           SharedStep(w, types)
    PROVE  SlotStep(w) \/ \E m \in queue : ClientFails(w, m)
<1>1. ASSUME NEW m \in queue, Begin(w, m, types)
      PROVE  SlotStep(w)
  <2> DEFINE slot == [IdleSlot EXCEPT !.pc = "load", !.job = m.job,
                                      !.run = job[m.job].runs + 1,
                                      !.retries = m.retries]
  <2>1. worker' = [worker EXCEPT ![w] = slot] /\ worker'[w] = slot
    BY <1>1 DEF Begin, TypeInv, TypeOK
  <2>2. /\ slot.pc = "load" /\ slot.job = m.job /\ slot.retries = m.retries
        /\ slot.run = job[m.job].runs + 1 /\ slot.dead = FALSE
    BY DEF IdleSlot
  <2> HIDE DEF slot
  <2> QED BY <1>1, <2>1, <2>2 DEF Begin, Deliver, SlotStep, Takes, taskFrame
<1>2. ASSUME worker[w].pc # "idle" PROVE worker[w] \in BusySlot
  BY <1>2 DEF TypeInv, TypeOK, Slot, IdleSlot
<1>3. ASSUME NEW next \in {"remove", "pull", "power"}, LoadRow(w, types, next)
      PROVE  SlotStep(w)
  <2> DEFINE i == Target(w)
             slot == [worker[w] EXCEPT !.pc = next, !.seen = row[i].status,
                                       !.ids = row[i].ids]
  <2>1. worker[w].pc \notin {"idle", "failinst"} /\ worker[w] \in BusySlot
    BY <1>2, <1>3 DEF LoadRow, At
  <2>2. CASE Live(i)
    <3>1. worker' = [worker EXCEPT ![w] = slot]
      BY <1>3, <2>2 DEF LoadRow, TypeInv, TypeOK
    <3>2. /\ slot.pc = next /\ slot.job = worker[w].job
          /\ slot.run = worker[w].run /\ slot.retries = worker[w].retries
          /\ slot.dead = worker[w].dead
      BY <2>1 DEF BusySlot
    <3> HIDE DEF slot
    <3> QED BY <1>3, <2>1, <3>1, <3>2, UpdateWorks DEF LoadRow, taskFrame, PC
  <2>3. CASE ~Live(i)
    BY <1>3, <2>1, <2>3, GotoWorks DEF LoadRow, taskFrame, PC
  <2> QED BY <2>2, <2>3
<1>4. CASE CreateContainer(w, types)
  BY <1>4, GotoWorks DEF CreateContainer, At, taskFrame, PC
<1>5. CASE StartContainer(w, types)
  <2> DEFINE slot == [worker[w] EXCEPT !.pc = "ready", !.svc = @ + 1]
  <2>1. worker[w].pc \notin {"idle", "failinst"} /\ worker[w] \in BusySlot
    BY <1>2, <1>5 DEF StartContainer, At
  <2>2. worker' = [worker EXCEPT ![w] = slot]
    BY <1>5 DEF StartContainer, TypeInv, TypeOK
  <2>3. /\ slot.pc = "ready" /\ slot.job = worker[w].job
        /\ slot.run = worker[w].run /\ slot.retries = worker[w].retries
        /\ slot.dead = worker[w].dead
    BY <2>1 DEF BusySlot
  <2> HIDE DEF slot
  <2> QED BY <1>5, <2>1, <2>2, <2>3, UpdateWorks DEF StartContainer, taskFrame, PC
<1>6. CASE ContainerReady(w, types)
  <2>1. AfterReady(w) \in PC /\ AfterReady(w) \notin {"failinst", "flush"}
    BY DEF AfterReady, PC
  <2> QED BY <1>6, <2>1, GotoWorks DEF ContainerReady, At, taskFrame
<1>7. ASSUME NEW pcs \in SUBSET PC, NEW handler \in {"undo", "failjob"},
             TaskFails(w, types, pcs, handler), pcs \subseteq Failing
      PROVE  SlotStep(w)
  BY <1>7, GotoWorks DEF TaskFails, taskFrame, PC, Failing
<1>8. CASE RecordContainers(w, types)
  <2> DEFINE done == [worker[w] EXCEPT !.pc = "finish", !.seen = "running"]
             gone == [worker[w] EXCEPT !.pc = "undo", !.dead = TRUE]
  <2>1. worker[w].pc \notin {"idle", "failinst"} /\ worker[w] \in BusySlot
    BY <1>2, <1>8 DEF RecordContainers, At
  <2>2. CASE Live(Target(w))
    <3>1. worker' = [worker EXCEPT ![w] = done]
      BY <1>8, <2>2 DEF RecordContainers, TypeInv, TypeOK
    <3>2. /\ done.pc = "finish" /\ done.job = worker[w].job
          /\ done.run = worker[w].run /\ done.retries = worker[w].retries
          /\ done.dead = worker[w].dead
      BY <2>1 DEF BusySlot
    <3> HIDE DEF done
    <3> QED BY <1>8, <2>1, <3>1, <3>2, UpdateWorks DEF RecordContainers,
               taskFrame, PC
  <2>3. CASE ~Live(Target(w))
    <3>1. worker' = [worker EXCEPT ![w] = gone]
      BY <1>8, <2>3 DEF RecordContainers, TypeInv, TypeOK
    <3>2. /\ gone.pc = "undo" /\ gone.job = worker[w].job
          /\ gone.run = worker[w].run /\ gone.retries = worker[w].retries
      BY <2>1 DEF BusySlot
    <3> HIDE DEF gone
    <3> QED BY <1>8, <2>1, <2>3, <3>1, <3>2, UpdateWorks DEF RecordContainers,
               taskFrame, PC
  <2> QED BY <2>2, <2>3
<1>9. CASE CompleteJob(w, types)
  BY <1>9 DEF CompleteJob, At, SlotStep, Completes, Leaves, MarkedJob, taskFrame
<1>10. CASE Rollback(w, types)
  BY <1>10, GotoWorks DEF Rollback, At, taskFrame, PC
<1>11. CASE HandlerRaises(w, types)
  BY <1>11 DEF HandlerRaises, At, SlotStep, Raises, Leaves, taskFrame
<1>12. CASE FailJob(w, types)
  <2>1. worker[w].pc # "idle" /\ worker[w] \in BusySlot
    BY <1>2, <1>12 DEF FailJob, At
  <2>2. worker'[w] = [worker[w] EXCEPT !.pc = "failinst"]
    BY <1>12 DEF FailJob, Goto, TypeInv, TypeOK
  <2>3. worker' = [worker EXCEPT ![w] = worker'[w]]
    BY <1>12, <2>2 DEF FailJob, Goto, TypeInv, TypeOK
  <2>4. /\ worker'[w].pc = "failinst" /\ worker'[w].job = worker[w].job
        /\ worker'[w].run = worker[w].run /\ worker'[w].dead = worker[w].dead
        /\ worker'[w].retries = worker[w].retries
    BY <2>1, <2>2 DEF BusySlot
  <2> QED BY <1>12, <2>1, <2>3, <2>4 DEF FailJob, MarkFailed, MarkedJob, SlotStep,
             Fails, Stays, taskFrame
<1>13. CASE FailInstallation(w, types)
  BY <1>13 DEF FailInstallation, At, SlotStep, GivesUp, Leaves, taskFrame
<1>14. CASE FailJobAndRetry(w, types)
  BY <1>14 DEF FailJobAndRetry, MarkFailed, MarkedJob, At, SlotStep, GivesUp,
     Leaves, taskFrame
<1>15. CASE RemoveOld(w, types)
  BY <1>15, GotoWorks DEF RemoveOld, At, taskFrame, PC
<1> QED BY <1>1, <1>3, <1>4, <1>5, <1>6, <1>7, <1>8, <1>9, <1>10, <1>11, <1>12,
           <1>13, <1>14, <1>15 DEF SharedStep

LEMMA OwnSlotStep ==
    ASSUME TypeInv, NEW w \in Workers, OwnStep(w)
    PROVE  SlotStep(w)
<1>1. ASSUME worker[w].pc # "idle" PROVE worker[w] \in BusySlot
  BY <1>1 DEF TypeInv, TypeOK, Slot, IdleSlot
<1>2. ASSUME NEW types, NEW status, NEW next \in {"create", "remove"},
             LoadAndMark(w, types, status, next)
      PROVE  SlotStep(w)
  <2> DEFINE i == Target(w)
             slot == [worker[w] EXCEPT !.pc = next, !.seen = status,
                                       !.ids = row[i].ids]
  <2>1. worker[w].pc \notin {"idle", "failinst"} /\ worker[w] \in BusySlot
    BY <1>1, <1>2 DEF LoadAndMark, At
  <2>2. CASE Live(i)
    <3>1. worker' = [worker EXCEPT ![w] = slot]
      BY <1>2, <2>2 DEF LoadAndMark, TypeInv, TypeOK
    <3>2. /\ slot.pc = next /\ slot.job = worker[w].job
          /\ slot.run = worker[w].run /\ slot.retries = worker[w].retries
          /\ slot.dead = worker[w].dead
      BY <2>1 DEF BusySlot
    <3> HIDE DEF slot
    <3> QED BY <1>2, <2>1, <3>1, <3>2, UpdateWorks DEF LoadAndMark, taskFrame, PC
  <2>3. CASE ~Live(i)
    BY <1>2, <2>1, <2>3, GotoWorks DEF LoadAndMark, taskFrame, PC
  <2> QED BY <2>2, <2>3
<1>3. CASE InstallMark(w) \/ UninstallMark(w)
  BY <1>2, <1>3 DEF InstallMark, UninstallMark
<1>4. CASE UpdatePull(w) \/ UninstallContainers(w) \/ UninstallVolumes(w)
  BY <1>4, GotoWorks DEF UpdatePull, UninstallContainers, UninstallVolumes, At,
     taskFrame, PC
<1>7. CASE UninstallUnlink(w)
  <2> DEFINE slot == [worker[w] EXCEPT !.pc = "flush", !.unlinked = JobsOf(Target(w))]
  <2>1. worker[w].pc \notin {"idle", "failinst"} /\ worker[w] \in BusySlot
    BY <1>1, <1>7 DEF UninstallUnlink, At
  <2>2. worker' = [worker EXCEPT ![w] = slot]
    BY <1>7 DEF UninstallUnlink, TypeInv, TypeOK, JobsOf
  <2>3. /\ slot.pc = "flush" /\ slot.job = worker[w].job
        /\ slot.run = worker[w].run /\ slot.retries = worker[w].retries
        /\ slot.dead = worker[w].dead /\ slot.unlinked = JobsOf(Target(w))
    BY <2>1 DEF BusySlot
  <2> HIDE DEF slot
  <2> QED BY <1>7, <2>1, <2>2, <2>3, UpdateWorks DEF UninstallUnlink, taskFrame, PC
<1>8. CASE UninstallDelete(w)
  <2> DEFINE slot == [worker[w] EXCEPT !.pc = "failjob", !.dead = TRUE]
  <2>1. worker[w].pc \notin {"idle", "failinst"} /\ worker[w] \in BusySlot
    BY <1>1, <1>8 DEF UninstallDelete, At
  <2>2. CASE Goto(w, "finish")
    BY <1>8, <2>1, <2>2, GotoWorks DEF UninstallDelete, taskFrame, PC
  <2>3. CASE Referenced(w) /\ worker' = [worker EXCEPT ![w] = slot]
    <3>1. /\ slot.pc = "failjob" /\ slot.job = worker[w].job
          /\ slot.run = worker[w].run /\ slot.retries = worker[w].retries
      BY <2>1 DEF BusySlot
    <3> HIDE DEF slot
    <3> QED BY <1>8, <2>1, <2>3, <3>1, UpdateWorks DEF UninstallDelete, taskFrame, PC
  <2>4. Goto(w, "finish") \/ ( /\ Referenced(w)
                               /\ worker' = [worker EXCEPT ![w].pc = "failjob",
                                                           ![w].dead = TRUE])
    BY <1>8 DEF UninstallDelete
  <2>5. [worker EXCEPT ![w].pc = "failjob", ![w].dead = TRUE]
            = [worker EXCEPT ![w] = slot]
    BY DEF TypeInv, TypeOK
  <2> QED BY <2>2, <2>3, <2>4, <2>5
<1>5. CASE StartContainers(w) \/ StopContainers(w) \/ RestartContainers(w)
  BY <1>5, GotoWorks DEF StartContainers, StopContainers, SwitchStored,
     RestartContainers, At, taskFrame, PC
<1>6. CASE PowerRecord(w)
  <2> DEFINE slot == [worker[w] EXCEPT !.pc = "failjob", !.dead = TRUE]
  <2>1. worker[w].pc \notin {"idle", "failinst"} /\ worker[w] \in BusySlot
    BY <1>1, <1>6 DEF PowerRecord, At
  <2>2. CASE Goto(w, "finish")
    BY <1>6, <2>1, <2>2, GotoWorks DEF PowerRecord, taskFrame, PC
  <2>3. CASE ~Live(Target(w)) /\ worker' = [worker EXCEPT ![w] = slot]
    <3>1. /\ slot.pc = "failjob" /\ slot.job = worker[w].job
          /\ slot.run = worker[w].run /\ slot.retries = worker[w].retries
      BY <2>1 DEF BusySlot
    <3> HIDE DEF slot
    <3> QED BY <1>6, <2>1, <2>3, <3>1, UpdateWorks DEF PowerRecord, taskFrame, PC
  <2>4. Goto(w, "finish") \/ ( /\ ~Live(Target(w))
                               /\ worker' = [worker EXCEPT ![w].pc = "failjob",
                                                           ![w].dead = TRUE])
    BY <1>6 DEF PowerRecord
  <2>5. [worker EXCEPT ![w].pc = "failjob", ![w].dead = TRUE]
            = [worker EXCEPT ![w] = slot]
    BY DEF TypeInv, TypeOK
  <2> QED BY <2>2, <2>3, <2>4, <2>5
<1> QED BY <1>3, <1>4, <1>5, <1>6, <1>7, <1>8 DEF OwnStep

-----------------------------------------------------------------------------
(* What any step does to jobs when nothing fails outside the tasks.        *)

\* The API commits a job of an installation that has a row.
Inserts ==
    /\ \E j \in Jobs, t \in JobTypes, i \in Installations :
           InsertJob(j, t, i) /\ row'[i].status # "free"
    /\ UNCHANGED <<queue, worker, lost>>

\* A job that is not published, or whose message is used up, is lost.
Loses ==
    /\ \/ \E j \in unsent : /\ unsent' = unsent \ {j}
                             /\ lost' = lost \cup {j}
                             /\ UNCHANGED queue
       \/ \E m \in queue : /\ queue' = queue \ {m}
                            /\ lost' = lost \cup {m.job}
                            /\ UNCHANGED unsent
    /\ UNCHANGED <<job, worker>>

JobStep ==
    \/ Inserts
    \/ \E j \in unsent : Delay(j)
    \/ Loses
    \/ \E w \in Workers : SlotStep(w)
    \/ UNCHANGED <<job, unsent, queue, worker, lost>>

LEMMA JobNext ==
    ASSUME TypeInv, MaxFaults = 0, [Next]_vars
    PROVE  JobStep
<1>1. faults = 0
  BY DEF TypeInv, TypeOK
<1>2. ~FaultNext
  BY <1>1 DEF FaultNext, WorkerCrash, Redelivery, ChildLost, Fault
<1>3. ASSUME NEW w \in Workers, TaskStep(w) PROVE JobStep
  <2>1. ASSUME NEW m \in queue, ClientFails(w, m) PROVE JobStep
    BY <2>1 DEF ClientFails, Deliver, JobStep, Loses
  <2> QED BY <1>3, <2>1, TaskStepCases, SharedSlotStep, OwnSlotStep DEF JobStep
<1>13. ASSUME NEW j \in Jobs, DelayFails(j) PROVE JobStep
  BY <1>13 DEF DelayFails, JobStep, Loses
<1>4. ASSUME NEW r \in Requests, NEW i \in Installations, NEW j \in Jobs,
             CreateInstallation(r, i, j)
      PROVE  JobStep
  <2>1. row'[i].status = "pending" /\ "install" \in JobTypes
    BY <1>4 DEF CreateInstallation, TypeInv, TypeOK, JobTypes
  <2> QED BY <1>4, <2>1 DEF CreateInstallation, JobStep, Inserts, apiFrame
<1>5. ASSUME NEW i \in Installations, NEW j \in Jobs, Uninstall(i, j)
      PROVE  JobStep
  <2>1. row[i] \in Row
    BY DEF TypeInv, TypeOK
  <2>2. row'[i].status = "uninstalling" /\ "uninstall" \in JobTypes
    BY <1>5, <2>1 DEF Uninstall, TypeInv, TypeOK, JobTypes, Row
  <2> QED BY <1>5, <2>2 DEF Uninstall, JobStep, Inserts, apiFrame
<1>6. ASSUME NEW i \in Installations, NEW j \in Jobs,
             (\E t \in JobTypes : RequestOperation(i, j, t)) \/ UpdateConfig(i, j)
      PROVE  JobStep
  <2>1. row'[i].status # "free" /\ "reconfigure" \in JobTypes
    BY <1>6 DEF RequestOperation, UpdateConfig, Live, LiveStatus, JobTypes
  <2> QED BY <1>6, <2>1 DEF RequestOperation, UpdateConfig, JobStep, Inserts,
             apiFrame
<1>7. ASSUME NEW j \in Jobs, Delay(j) PROVE JobStep
  BY <1>7 DEF Delay, JobStep
<1>8. CASE UNCHANGED <<job, unsent, queue, worker, lost>>
  BY <1>8 DEF JobStep
<1>9. ASSUME NEW r \in Requests, NEW a \in Apps, CheckExisting(r, a) PROVE JobStep
  BY <1>8, <1>9 DEF CheckExisting, apiFrame
<1>10. CASE ApiNext
  BY <1>4, <1>5, <1>6, <1>7, <1>9, <1>10, <1>13 DEF ApiNext
<1>11. CASE ReaperNext
  BY <1>8, <1>11 DEF ReaperNext, ReaperReadIds, ReaperList, ReaperRemove,
     ReaperFails, reaperFrame
<1>12. CASE UNCHANGED vars
  BY <1>8, <1>12 DEF vars
<1> QED BY <1>2, <1>3, <1>10, <1>11, <1>12 DEF Next

-----------------------------------------------------------------------------
(* Every job has one token, and the token counts its runs.                 *)

\* A token is held for an inserted job only, so a new job has none; a message
\* carries the number of runs so far, and no more than the task may have.
TokenCount ==
    /\ \A j \in unsent : job[j].status = "pending" /\ job[j].runs = 0
    /\ \A m \in queue :
           /\ Inserted(m.job) /\ job[m.job].status # "completed"
           /\ m.retries = job[m.job].runs
           /\ m.retries <= MaxRetries(job[m.job].type)
    /\ \A w \in Workers :
           worker[w].pc # "idle" =>
               /\ Inserted(worker[w].job) /\ job[worker[w].job].status # "completed"
               /\ job[worker[w].job].runs = worker[w].retries + 1
    /\ \A j \in Jobs : job[j].runs <= MaxRetries(job[j].type) + 1

TokenInv == OneExecution /\ TokenCount

\* Types of what the lemmas below talk about.
LEMMA TokenTypes ==
    ASSUME TypeInv
    PROVE  /\ \A j \in Jobs : job[j] \in Job /\ job[j].runs \in Nat
           /\ \A m \in queue : m.job \in Jobs /\ m.retries \in Nat
           /\ \A w \in Workers :
                  worker[w].pc # "idle" =>
                      /\ worker[w].job \in Jobs /\ worker[w].retries \in Nat
                      /\ worker[w].run \in Nat
           /\ \A t : MaxRetries(t) \in Nat
<1>1. ASSUME NEW j \in Jobs PROVE job[j] \in Job /\ job[j].runs \in Nat
  BY DEF TypeInv, TypeOK, Job, FreeJob, InsertedJob
<1>2. ASSUME NEW m \in queue PROVE m.job \in Jobs /\ m.retries \in Nat
  BY DEF TypeInv, TypeOK, Message
<1>3. ASSUME NEW w \in Workers, worker[w].pc # "idle"
      PROVE  /\ worker[w].job \in Jobs /\ worker[w].retries \in Nat
             /\ worker[w].run \in Nat
  BY <1>3 DEF TypeInv, TypeOK, Slot, IdleSlot, BusySlot
<1>4. \A t : MaxRetries(t) \in Nat
  BY PlatformAssumption DEF MaxRetries
<1> QED BY <1>1, <1>2, <1>3, <1>4

\* A job whose status is marked keeps the rest.
LEMMA MarkedFields ==
    ASSUME TypeInv, NEW w \in Workers, worker[w].pc # "idle",
           Inserted(worker[w].job), NEW status \in JobStatus, MarkedJob(w, status)
    PROVE  /\ job'[worker[w].job].status = status
           /\ \A j \in Jobs : /\ job'[j].runs = job[j].runs
                              /\ job'[j].type = job[j].type
                              /\ job'[j].inst = job[j].inst
           /\ \A j \in Jobs : j # worker[w].job => job'[j] = job[j]
<1>1. worker[w].job \in Jobs
  BY TokenTypes
<1>2. job[worker[w].job] \in InsertedJob
  BY <1>1 DEF TypeInv, TypeOK, Job, FreeJob, Inserted
<1> QED BY <1>1, <1>2 DEF MarkedJob, TypeInv, TypeOK, InsertedJob

\* A slot that becomes idle, and the others.
LEMMA LeavesFields ==
    ASSUME TypeInv, NEW w \in Workers, Leaves(w)
    PROVE  /\ worker'[w].pc = "idle"
           /\ \A v \in Workers : v # w => worker'[v] = worker[v]
  BY DEF Leaves, TypeInv, TypeOK, IdleSlot

LEMMA StaysFields ==
    ASSUME TypeInv, NEW w \in Workers, Stays(w)
    PROVE  \A v \in Workers : v # w => worker'[v] = worker[v]
  BY DEF Stays, TypeInv, TypeOK

\* The message of a retry.
LEMMA RetryFields ==
    ASSUME TypeInv, NEW w \in Workers, worker[w].pc # "idle", Retry(w), queue' # queue
    PROVE  /\ worker[w].retries < MaxRetries(Type(w))
           /\ queue' = queue \cup {[job |-> worker[w].job,
                                    retries |-> worker[w].retries + 1]}
  BY DEF Retry

LEMMA TokenInserts ==
    ASSUME TypeInv, TokenInv, Inserts, UNCHANGED worker
    PROVE  TokenInv'
<1> PICK j \in Jobs, t \in JobTypes, i \in Installations : InsertJob(j, t, i)
  BY DEF Inserts
<1> USE TokenTypes
<1>1. job[j].status = "free" /\ unsent' = unsent \cup {j}
  BY DEF InsertJob, NextJob
<1>2. /\ job'[j].status = "pending" /\ job'[j].runs = 0
      /\ \A k \in Jobs : k # j => job'[k] = job[k]
  BY DEF InsertJob, TypeInv, TypeOK
<1>3. /\ \A m \in queue : m.job # j
      /\ \A w \in Workers : worker[w].pc # "idle" => worker[w].job # j
  BY <1>1 DEF TokenInv, TokenCount, Inserted
<1>4. OneExecution'
  BY <1>1, <1>3 DEF Inserts, TokenInv, OneExecution, Executes, Queued
<1>5. TokenCount'
  <2>1. \A k \in Jobs : job'[k].runs <= MaxRetries(job'[k].type) + 1
    BY <1>2 DEF TokenInv, TokenCount
  <2>2. \A k \in unsent' : job'[k].status = "pending" /\ job'[k].runs = 0
    BY <1>1, <1>2 DEF TokenInv, TokenCount, TypeInv, TypeOK
  <2> QED BY <1>2, <1>3, <2>1, <2>2 DEF Inserts, TokenInv, TokenCount, Inserted
<1> QED BY <1>4, <1>5 DEF TokenInv

LEMMA TokenDelay ==
    ASSUME TypeInv, TokenInv, NEW j \in unsent, Delay(j)
    PROVE  TokenInv'
<1> USE TokenTypes
<1> DEFINE m == [job |-> j, retries |-> 0]
<1>1. /\ unsent' = unsent \ {j} /\ queue' = queue \cup {m}
      /\ UNCHANGED <<job, worker>>
  BY DEF Delay
<1>2. /\ \A n \in queue : n.job # j
      /\ \A w \in Workers : ~Executes(w, j)
  BY DEF TokenInv, OneExecution, Queued
<1>3. m.job = j /\ m.retries = 0
  OBVIOUS
<1> HIDE DEF m
<1>4. OneExecution'
  BY <1>1, <1>2, <1>3 DEF TokenInv, OneExecution, Executes, Queued
<1>5. TokenCount'
  BY <1>1, <1>3 DEF TokenInv, TokenCount, Inserted
<1> QED BY <1>4, <1>5 DEF TokenInv

LEMMA TokenLoses ==
    ASSUME TypeInv, TokenInv, Loses
    PROVE  TokenInv'
<1>1. /\ queue' \subseteq queue /\ unsent' \subseteq unsent
      /\ UNCHANGED <<job, worker>>
  BY DEF Loses
<1>2. OneExecution'
  BY <1>1 DEF TokenInv, OneExecution, Executes, Queued
<1>3. TokenCount'
  BY <1>1 DEF TokenInv, TokenCount, Inserted, MaxRetries
<1> QED BY <1>2, <1>3 DEF TokenInv

LEMMA TokenTakes ==
    ASSUME TypeInv, TokenInv, NEW w \in Workers, Takes(w), UNCHANGED unsent
    PROVE  TokenInv'
<1> USE TokenTypes
<1> PICK m \in queue :
        /\ worker[w].pc = "idle"
        /\ queue' = queue \ {m}
        /\ job' = [job EXCEPT ![m.job].status = "running", ![m.job].runs = @ + 1]
        /\ worker' = [worker EXCEPT ![w] = worker'[w]]
        /\ worker'[w].pc = "load" /\ worker'[w].job = m.job
        /\ worker'[w].run = job[m.job].runs + 1
        /\ worker'[w].retries = m.retries
  BY DEF Takes
<1>1. job[m.job] \in InsertedJob
  BY DEF TokenInv, TokenCount, Inserted, Job, FreeJob
<1>2. /\ job'[m.job].status = "running"
      /\ job'[m.job].runs = job[m.job].runs + 1
      /\ job'[m.job].type = job[m.job].type
      /\ \A k \in Jobs : k # m.job => job'[k] = job[k]
  BY <1>1 DEF TypeInv, TypeOK, InsertedJob
<1>3. \A v \in Workers : v # w => worker'[v] = worker[v]
  BY DEF TypeInv, TypeOK
<1>4. /\ m.job \notin unsent
      /\ \A n \in queue' : n.job # m.job /\ n \in queue
      /\ \A v \in Workers : worker[v].pc # "idle" => worker[v].job # m.job
  BY DEF TokenInv, OneExecution, Queued, Executes
<1>5. OneExecution'
  <2>1. \A v, u \in Workers :
            worker'[v].pc # "idle" /\ worker'[u].pc # "idle" /\ v # u
                => worker'[v].job # worker'[u].job
    BY <1>3, <1>4 DEF TokenInv, OneExecution
  <2>2. \A n \in queue', v \in Workers : ~(worker'[v].pc # "idle" /\ worker'[v].job = n.job)
    BY <1>3, <1>4 DEF TokenInv, OneExecution, Executes
  <2>3. \A j \in unsent' : /\ \A n \in queue' : n.job # j
                           /\ \A v \in Workers :
                                  ~(worker'[v].pc # "idle" /\ worker'[v].job = j)
    BY <1>3, <1>4 DEF TokenInv, OneExecution, Executes, Queued
  <2>4. \A n, k \in queue' : n.job = k.job => n = k
    BY <1>4 DEF TokenInv, OneExecution
  <2> QED BY <2>1, <2>2, <2>3, <2>4 DEF OneExecution, Executes, Queued
<1>6. TokenCount'
  <2>1. \A j \in unsent' : job'[j].status = "pending" /\ job'[j].runs = 0
    BY <1>2, <1>4 DEF TokenInv, TokenCount, TypeInv, TypeOK
  <2>2. \A n \in queue' : /\ job'[n.job].status # "free"
                          /\ job'[n.job].status # "completed"
                          /\ n.retries = job'[n.job].runs
                          /\ n.retries <= MaxRetries(job'[n.job].type)
    BY <1>2, <1>4 DEF TokenInv, TokenCount, Inserted
  <2>3. \A v \in Workers :
            worker'[v].pc # "idle" =>
                /\ job'[worker'[v].job].status # "free"
                /\ job'[worker'[v].job].status # "completed"
                /\ job'[worker'[v].job].runs = worker'[v].retries + 1
    <3> SUFFICES ASSUME NEW v \in Workers, worker'[v].pc # "idle"
                 PROVE  /\ job'[worker'[v].job].status # "free"
                        /\ job'[worker'[v].job].status # "completed"
                        /\ job'[worker'[v].job].runs = worker'[v].retries + 1
      OBVIOUS
    <3>1. CASE v = w
      <4>1. m.retries = job[m.job].runs
        BY DEF TokenInv, TokenCount
      <4> QED BY <1>2, <3>1, <4>1
    <3>2. CASE v # w
      <4>1. worker'[v] = worker[v] /\ worker[v].pc # "idle"
        BY <1>3, <3>2
      <4>2. worker[v].job # m.job /\ worker[v].job \in Jobs
        BY <1>4, <4>1
      <4>3. job'[worker[v].job] = job[worker[v].job]
        BY <1>2, <4>2
      <4>4. /\ Inserted(worker[v].job) /\ job[worker[v].job].status # "completed"
            /\ job[worker[v].job].runs = worker[v].retries + 1
        BY <4>1 DEF TokenInv, TokenCount
      <4> QED BY <4>1, <4>3, <4>4 DEF Inserted
    <3> QED BY <3>1, <3>2
  <2>4. \A j \in Jobs : job'[j].runs <= MaxRetries(job'[j].type) + 1
    <3>1. job[m.job].runs + 1 <= MaxRetries(job[m.job].type) + 1
      BY DEF TokenInv, TokenCount
    <3> QED BY <1>2, <3>1 DEF TokenInv, TokenCount
  <2> QED BY <2>1, <2>2, <2>3, <2>4 DEF TokenCount, Inserted, MaxRetries
<1> QED BY <1>5, <1>6 DEF TokenInv

\* A slot that goes on with its job.
LEMMA TokenStays ==
    ASSUME TypeInv, TokenInv, NEW w \in Workers, Stays(w), UNCHANGED unsent,
           UNCHANGED job \/ MarkedJob(w, "failed")
    PROVE  TokenInv'
<1> USE TokenTypes
<1>1. /\ worker[w].pc # "idle" /\ worker'[w].pc # "idle"
      /\ worker'[w].job = worker[w].job /\ worker'[w].retries = worker[w].retries
      /\ queue' = queue
      /\ \A v \in Workers : v # w => worker'[v] = worker[v]
  BY StaysFields DEF Stays
<1>2. OneExecution'
  BY <1>1 DEF TokenInv, OneExecution, Executes, Queued
<1>3. /\ \A j \in Jobs : job'[j].runs = job[j].runs /\ job'[j].type = job[j].type
      /\ \A j \in Jobs : j # worker[w].job => job'[j] = job[j]
      /\ job'[worker[w].job].status \in {job[worker[w].job].status, "failed"}
  BY <1>1, MarkedFields DEF TokenInv, TokenCount, JobStatus
<1>4. worker[w].job \notin unsent
  BY <1>1 DEF TokenInv, OneExecution, Executes
<1>5. TokenCount'
  <2>1. \A j \in unsent' : job'[j].status = "pending" /\ job'[j].runs = 0
    BY <1>3, <1>4 DEF TokenInv, TokenCount, TypeInv, TypeOK
  <2>2. \A n \in queue' : /\ job'[n.job].status # "free"
                          /\ job'[n.job].status # "completed"
                          /\ n.retries = job'[n.job].runs
                          /\ n.retries <= MaxRetries(job'[n.job].type)
    BY <1>1, <1>3 DEF TokenInv, TokenCount, Inserted
  <2>3. \A v \in Workers :
            worker'[v].pc # "idle" =>
                /\ job'[worker'[v].job].status # "free"
                /\ job'[worker'[v].job].status # "completed"
                /\ job'[worker'[v].job].runs = worker'[v].retries + 1
    BY <1>1, <1>3 DEF TokenInv, TokenCount, Inserted
  <2>4. \A j \in Jobs : job'[j].runs <= MaxRetries(job'[j].type) + 1
    BY <1>3 DEF TokenInv, TokenCount
  <2> QED BY <2>1, <2>2, <2>3, <2>4 DEF TokenCount, Inserted, MaxRetries
<1> QED BY <1>2, <1>5 DEF TokenInv

\* A slot that ends its task without a message.
LEMMA TokenLeaves ==
    ASSUME TypeInv, TokenInv, NEW w \in Workers, Leaves(w),
           UNCHANGED <<unsent, queue>>,
           UNCHANGED job \/ MarkedJob(w, "failed") \/ MarkedJob(w, "completed")
    PROVE  TokenInv'
<1> USE TokenTypes
<1>1. /\ worker[w].pc # "idle" /\ worker'[w].pc = "idle"
      /\ \A v \in Workers : v # w => worker'[v] = worker[v]
  BY LeavesFields DEF Leaves
<1>2. OneExecution'
  BY <1>1 DEF TokenInv, OneExecution, Executes, Queued
<1>3. /\ \A j \in Jobs : job'[j].runs = job[j].runs /\ job'[j].type = job[j].type
      /\ \A j \in Jobs : j # worker[w].job => job'[j] = job[j]
  BY <1>1, MarkedFields DEF TokenInv, TokenCount, JobStatus
<1>4. /\ worker[w].job \notin unsent
      /\ \A n \in queue : n.job # worker[w].job
      /\ \A v \in Workers : v # w /\ worker[v].pc # "idle"
                                => worker[v].job # worker[w].job
  BY <1>1 DEF TokenInv, OneExecution, Executes
<1>5. TokenCount'
  <2>1. \A j \in unsent' : job'[j].status = "pending" /\ job'[j].runs = 0
    BY <1>3, <1>4 DEF TokenInv, TokenCount, TypeInv, TypeOK
  <2>2. \A n \in queue' : /\ job'[n.job].status # "free"
                          /\ job'[n.job].status # "completed"
                          /\ n.retries = job'[n.job].runs
                          /\ n.retries <= MaxRetries(job'[n.job].type)
    BY <1>3, <1>4 DEF TokenInv, TokenCount, Inserted
  <2>3. \A v \in Workers :
            worker'[v].pc # "idle" =>
                /\ job'[worker'[v].job].status # "free"
                /\ job'[worker'[v].job].status # "completed"
                /\ job'[worker'[v].job].runs = worker'[v].retries + 1
    BY <1>1, <1>3, <1>4 DEF TokenInv, TokenCount, Inserted
  <2>4. \A j \in Jobs : job'[j].runs <= MaxRetries(job'[j].type) + 1
    BY <1>3 DEF TokenInv, TokenCount
  <2> QED BY <2>1, <2>2, <2>3, <2>4 DEF TokenCount, Inserted, MaxRetries
<1> QED BY <1>2, <1>5 DEF TokenInv

\* A slot that ends its task as failed and publishes a retry.
LEMMA TokenRetries ==
    ASSUME TypeInv, TokenInv, NEW w \in Workers, Leaves(w),
           UNCHANGED unsent, UNCHANGED job \/ MarkedJob(w, "failed"),
           Retry(w), queue' # queue
    PROVE  TokenInv'
<1> USE TokenTypes
<1> DEFINE m == [job |-> worker[w].job, retries |-> worker[w].retries + 1]
<1>1. /\ worker[w].pc # "idle" /\ worker'[w].pc = "idle"
      /\ \A v \in Workers : v # w => worker'[v] = worker[v]
  BY LeavesFields DEF Leaves
<1>2. worker[w].retries < MaxRetries(Type(w)) /\ queue' = queue \cup {m}
  BY <1>1, RetryFields
<1>3. /\ \A j \in Jobs : job'[j].runs = job[j].runs /\ job'[j].type = job[j].type
      /\ \A j \in Jobs : j # worker[w].job => job'[j] = job[j]
      /\ job'[worker[w].job].status \in {job[worker[w].job].status, "failed"}
  BY <1>1, MarkedFields DEF TokenInv, TokenCount, JobStatus
<1>4. /\ worker[w].job \notin unsent
      /\ \A n \in queue : n.job # worker[w].job
      /\ \A v \in Workers : v # w /\ worker[v].pc # "idle"
                                => worker[v].job # worker[w].job
  BY <1>1 DEF TokenInv, OneExecution, Executes
<1>5. m.job = worker[w].job /\ m.retries = worker[w].retries + 1
  OBVIOUS
<1> HIDE DEF m
<1>6. OneExecution'
  <2>1. \A n, k \in queue' : n.job = k.job => n = k
    BY <1>2, <1>4, <1>5 DEF TokenInv, OneExecution
  <2>2. \A v, u \in Workers :
            worker'[v].pc # "idle" /\ worker'[u].pc # "idle" /\ v # u
                => worker'[v].job # worker'[u].job
    BY <1>1 DEF TokenInv, OneExecution
  <2>3. \A n \in queue', v \in Workers : ~(worker'[v].pc # "idle" /\ worker'[v].job = n.job)
    BY <1>1, <1>2, <1>4, <1>5 DEF TokenInv, OneExecution, Executes
  <2>4. \A j \in unsent' : /\ \A n \in queue' : n.job # j
                           /\ \A v \in Workers :
                                  ~(worker'[v].pc # "idle" /\ worker'[v].job = j)
    BY <1>1, <1>2, <1>4, <1>5 DEF TokenInv, OneExecution, Executes, Queued
  <2> QED BY <2>1, <2>2, <2>3, <2>4 DEF OneExecution, Executes, Queued
<1>7. TokenCount'
  <2>1. \A j \in unsent' : job'[j].status = "pending" /\ job'[j].runs = 0
    BY <1>3, <1>4 DEF TokenInv, TokenCount, TypeInv, TypeOK
  <2>2. \A n \in queue' : /\ job'[n.job].status # "free"
                          /\ job'[n.job].status # "completed"
                          /\ n.retries = job'[n.job].runs
                          /\ n.retries <= MaxRetries(job'[n.job].type)
    <3>1. ASSUME NEW n \in queue
          PROVE  /\ job'[n.job].status # "free"
                 /\ job'[n.job].status # "completed"
                 /\ n.retries = job'[n.job].runs
                 /\ n.retries <= MaxRetries(job'[n.job].type)
      BY <1>3, <1>4 DEF TokenInv, TokenCount, Inserted
    <3>2. /\ job'[m.job].status # "free"
          /\ job'[m.job].status # "completed"
          /\ m.retries = job'[m.job].runs
      BY <1>1, <1>3, <1>5 DEF TokenInv, TokenCount, Inserted
    <3>3. m.retries <= MaxRetries(job'[m.job].type)
      BY <1>1, <1>2, <1>3, <1>5 DEF Type
    <3> QED BY <1>2, <3>1, <3>2, <3>3
  <2>3. \A v \in Workers :
            worker'[v].pc # "idle" =>
                /\ job'[worker'[v].job].status # "free"
                /\ job'[worker'[v].job].status # "completed"
                /\ job'[worker'[v].job].runs = worker'[v].retries + 1
    BY <1>1, <1>3, <1>4 DEF TokenInv, TokenCount, Inserted
  <2>4. \A j \in Jobs : job'[j].runs <= MaxRetries(job'[j].type) + 1
    BY <1>3 DEF TokenInv, TokenCount
  <2> QED BY <2>1, <2>2, <2>3, <2>4 DEF TokenCount, Inserted, MaxRetries
<1> QED BY <1>6, <1>7 DEF TokenInv

LEMMA TokenStep ==
    ASSUME TypeInv, TokenInv, JobStep
    PROVE  TokenInv'
<1>1. CASE Inserts
  BY <1>1, TokenInserts DEF Inserts
<1>2. ASSUME NEW j \in unsent, Delay(j) PROVE TokenInv'
  BY <1>2, TokenDelay
<1>3. ASSUME NEW w \in Workers, SlotStep(w) PROVE TokenInv'
  <2>1. CASE Takes(w)
    BY <1>3, <2>1, TokenTakes DEF SlotStep
  <2>2. CASE Works(w) \/ Fails(w)
    BY <1>3, <2>2, TokenStays DEF SlotStep, Works, Fails
  <2>3. CASE Completes(w) \/ Raises(w)
    BY <1>3, <2>3, TokenLeaves DEF SlotStep, Completes, Raises
  <2>4. CASE GivesUp(w)
    BY <1>3, <2>4, TokenLeaves, TokenRetries DEF SlotStep, GivesUp
  <2> QED BY <1>3, <2>1, <2>2, <2>3, <2>4 DEF SlotStep
<1>5. CASE Loses
  BY <1>5, TokenLoses
<1>4. CASE UNCHANGED <<job, unsent, queue, worker, lost>>
  BY <1>4 DEF TokenInv, TokenCount, OneExecution, Executes, Queued, Inserted
<1> QED BY <1>1, <1>2, <1>3, <1>4, <1>5 DEF JobStep

LEMMA TokenInit == Init => TokenInv
<1> SUFFICES ASSUME Init PROVE TokenInv
  OBVIOUS
<1>1. \A t : MaxRetries(t) \in Nat
  BY PlatformAssumption DEF MaxRetries
<1>2. OneExecution
  BY DEF Init, OneExecution, Executes, Queued, IdleSlot
<1>3. TokenCount
  BY <1>1 DEF Init, TokenCount, FreeJob, IdleSlot
<1> QED BY <1>2, <1>3 DEF TokenInv

\* Without faults a job is in one place at a time: it is never executed by two
\* slots, nor published while it is executed.
THEOREM OneExecutionHolds == MaxFaults = 0 /\ Spec => []OneExecution
<1> DEFINE Inv == TypeInv /\ TokenInv
<1> SUFFICES ASSUME MaxFaults = 0 PROVE Spec => []OneExecution
  OBVIOUS
<1>1. Init => Inv
  BY TypeInit, TokenInit
<1>2. Inv /\ [Next]_vars => Inv'
  BY TypeStep, JobNext, TokenStep
<1>3. Inv => OneExecution
  BY DEF TokenInv
<1> QED BY <1>1, <1>2, <1>3, PTL DEF Spec

\* Without faults no job runs more often than its task's retries allow, and
\* what is completed is not run again.
THEOREM RetriesBoundedHolds == MaxFaults = 0 /\ Spec => []RetriesBounded
<1> DEFINE Inv == TypeInv /\ TokenInv
<1> SUFFICES ASSUME MaxFaults = 0 PROVE Spec => []RetriesBounded
  OBVIOUS
<1>1. Init => Inv
  BY TypeInit, TokenInit
<1>2. Inv /\ [Next]_vars => Inv'
  BY TypeStep, JobNext, TokenStep
<1>3. Inv => RetriesBounded
  BY DEF TokenInv, TokenCount, RetriesBounded, Queued, Executes
<1> QED BY <1>1, <1>2, <1>3, PTL DEF Spec

-----------------------------------------------------------------------------
(* The status of a job and its place.                                      *)

\* What the status of a job says of its place: a message is one of a new job
\* or of a failed one, and a task has marked its job running.
StatusInv ==
    /\ \A m \in queue : job[m.job].status \in {"pending", "failed"}
    /\ \A w \in Workers :
           worker[w].pc # "idle" =>
               job[worker[w].job].status = IF worker[w].pc = "failinst" THEN "failed"
                                           ELSE "running"

LEMMA StatusInserts ==
    ASSUME TypeInv, TokenInv, StatusInv, Inserts
    PROVE  StatusInv'
<1>1. \A j \in Jobs : Inserted(j) => job'[j] = job[j]
  BY DEF Inserts, InsertJob, NextJob, Inserted, TypeInv, TypeOK
<1>2. /\ \A m \in queue : m.job \in Jobs /\ Inserted(m.job)
      /\ \A w \in Workers :
             worker[w].pc # "idle" => worker[w].job \in Jobs /\ Inserted(worker[w].job)
  BY TokenTypes DEF TokenInv, TokenCount
<1> QED BY <1>1, <1>2 DEF StatusInv, Inserts

LEMMA StatusDelay ==
    ASSUME TypeInv, TokenInv, StatusInv, NEW j \in unsent, Delay(j)
    PROVE  StatusInv'
<1>1. job[j].status = "pending"
  BY DEF TokenInv, TokenCount
<1> QED BY <1>1 DEF StatusInv, Delay

\* A step that changes the status of one job, and of its slot or message.
LEMMA StatusOthers ==
    ASSUME TypeInv, StatusInv, NEW w \in Workers, NEW j \in Jobs,
           \A k \in Jobs : k # j => job'[k] = job[k],
           \A v \in Workers : v # w => worker'[v] = worker[v],
           \A v \in Workers : v # w /\ worker[v].pc # "idle" => worker[v].job # j,
           worker'[w].pc # "idle" =>
               job'[worker'[w].job].status = IF worker'[w].pc = "failinst"
                                             THEN "failed" ELSE "running",
           \A m \in queue' : \/ m \in queue /\ m.job # j
                             \/ job'[m.job].status \in {"pending", "failed"}
    PROVE  StatusInv'
<1>1. ASSUME NEW m \in queue' PROVE job'[m.job].status \in {"pending", "failed"}
  BY <1>1, TokenTypes DEF StatusInv
<1>2. ASSUME NEW v \in Workers, worker'[v].pc # "idle", v # w
      PROVE  job'[worker'[v].job].status = IF worker'[v].pc = "failinst"
                                           THEN "failed" ELSE "running"
  <2>1. worker'[v] = worker[v]
    BY <1>2
  <2>2. worker[v].job \in Jobs /\ worker[v].job # j
    BY <1>2, <2>1, TokenTypes
  <2> QED BY <1>2, <2>1, <2>2 DEF StatusInv
<1> QED BY <1>1, <1>2 DEF StatusInv

LEMMA StatusSlot ==
    ASSUME TypeInv, TypeInv', TokenInv, StatusInv, NEW w \in Workers, SlotStep(w)
    PROVE  StatusInv'
<1>1. CASE Takes(w)
  <2> PICK m \in queue :
          /\ worker[w].pc = "idle"
          /\ queue' = queue \ {m}
          /\ job' = [job EXCEPT ![m.job].status = "running", ![m.job].runs = @ + 1]
          /\ worker' = [worker EXCEPT ![w] = worker'[w]]
          /\ worker'[w].pc = "load" /\ worker'[w].job = m.job
    BY <1>1 DEF Takes
  <2>1. m.job \in Jobs /\ job[m.job] \in InsertedJob
    BY TokenTypes DEF TokenInv, TokenCount, Inserted, TypeInv, TypeOK, Job, FreeJob
  <2>2. /\ job'[m.job].status = "running"
        /\ \A k \in Jobs : k # m.job => job'[k] = job[k]
    BY <2>1 DEF TypeInv, TypeOK, InsertedJob
  <2>3. \A v \in Workers : v # w => worker'[v] = worker[v]
    BY DEF TypeInv, TypeOK
  <2>4. /\ \A v \in Workers : worker[v].pc # "idle" => worker[v].job # m.job
        /\ \A n \in queue' : n \in queue /\ n.job # m.job
    BY DEF TokenInv, OneExecution, Executes
  <2> DEFINE j == m.job
  <2>5. j \in Jobs /\ \A k \in Jobs : k # j => job'[k] = job[k]
    BY <2>1, <2>2
  <2>6. /\ \A v \in Workers : v # w /\ worker[v].pc # "idle" => worker[v].job # j
        /\ \A n \in queue' : \/ n \in queue /\ n.job # j
                            \/ job'[n.job].status \in {"pending", "failed"}
    BY <2>4
  <2>7. job'[worker'[w].job].status = IF worker'[w].pc = "failinst" THEN "failed"
                                      ELSE "running"
    BY <2>2
  <2> HIDE DEF j
  <2> QED BY <2>3, <2>5, <2>6, <2>7, StatusOthers
<1>2. CASE Works(w)
  <2>1. /\ \A v \in Workers : v # w => worker'[v] = worker[v]
        /\ worker'[w].job = worker[w].job /\ worker[w].pc \notin {"idle", "failinst"}
        /\ worker'[w].pc # "failinst" /\ UNCHANGED <<job, queue>>
    BY <1>2, StaysFields DEF Works, Stays
  <2> QED BY <2>1 DEF StatusInv
<1>3. ASSUME worker[w].pc # "idle", MarkedJob(w, "failed") \/ MarkedJob(w, "completed"),
             \A v \in Workers : v # w => worker'[v] = worker[v],
             \/ worker'[w].pc = "idle"
             \/ /\ MarkedJob(w, "failed")
                /\ worker'[w].pc = "failinst" /\ worker'[w].job = worker[w].job,
             UNCHANGED queue \/ (MarkedJob(w, "failed") /\ Retry(w))
      PROVE  StatusInv'
  <2> DEFINE j == worker[w].job
  <2>1. j \in Jobs /\ Inserted(j)
    BY <1>3, TokenTypes DEF TokenInv, TokenCount
  <2>2. \A k \in Jobs : k # j => job'[k] = job[k]
    BY <1>3, <2>1, MarkedFields DEF JobStatus
  <2>3. MarkedJob(w, "failed") => job'[j].status = "failed"
    BY <1>3, <2>1, MarkedFields DEF JobStatus
  <2>4. /\ \A v \in Workers : v # w /\ worker[v].pc # "idle" => worker[v].job # j
        /\ \A m \in queue : m.job # j
    BY <1>3 DEF TokenInv, OneExecution, Executes
  <2>5. ASSUME NEW m \in queue'
        PROVE  \/ m \in queue /\ m.job # j
               \/ job'[m.job].status \in {"pending", "failed"}
    <3>1. CASE m \in queue
      BY <2>4, <3>1
    <3>2. CASE m \notin queue
      <4>1. m.job = j /\ MarkedJob(w, "failed")
        BY <1>3, <3>2, RetryFields
      <4> QED BY <2>3, <4>1
    <3> QED BY <3>1, <3>2
  <2>6. worker'[w].pc # "idle" =>
            job'[worker'[w].job].status = IF worker'[w].pc = "failinst"
                                          THEN "failed" ELSE "running"
    BY <1>3, <2>3
  <2> HIDE DEF j
  <2> QED BY <1>3, <2>1, <2>2, <2>4, <2>5, <2>6, StatusOthers
<1>4. CASE Fails(w)
  BY <1>3, <1>4, StaysFields DEF Fails, Stays
<1>5. CASE Completes(w)
  BY <1>3, <1>5, LeavesFields DEF Completes, Leaves
<1>6. ASSUME Leaves(w), UNCHANGED job,
             UNCHANGED queue \/ (worker[w].pc = "failinst" /\ Retry(w))
      PROVE  StatusInv'
  <2>1. /\ \A v \in Workers : v # w => worker'[v] = worker[v]
        /\ worker'[w].pc = "idle" /\ worker[w].pc # "idle"
    BY <1>6, LeavesFields DEF Leaves
  <2>2. ASSUME NEW m \in queue', m \notin queue
        PROVE  job[m.job].status = "failed"
    BY <1>6, <2>1, <2>2, RetryFields DEF StatusInv
  <2> QED BY <1>6, <2>1, <2>2 DEF StatusInv
<1>7. CASE GivesUp(w)
  <2>1. CASE MarkedJob(w, "failed")
    BY <1>3, <1>7, <2>1, LeavesFields DEF GivesUp, Leaves
  <2> QED BY <1>6, <1>7, <2>1 DEF GivesUp
<1>8. CASE Raises(w)
  BY <1>6, <1>8 DEF Raises
<1> QED BY <1>1, <1>2, <1>4, <1>5, <1>7, <1>8 DEF SlotStep

LEMMA StatusStep ==
    ASSUME TypeInv, TypeInv', TokenInv, StatusInv, JobStep
    PROVE  StatusInv'
<1>1. CASE Loses \/ UNCHANGED <<job, unsent, queue, worker, lost>>
  BY <1>1 DEF StatusInv, Loses
<1> QED BY <1>1, StatusInserts, StatusDelay, StatusSlot DEF JobStep

LEMMA StatusInit == Init => StatusInv
  BY DEF Init, StatusInv, IdleSlot

-----------------------------------------------------------------------------
(* Every unfinished job is on its way, or is one of the exceptions.        *)

\* The ids of jobs are handed out in order, so the flush of a deletion finds
\* every job of the installation that is not later than its own.
OrderInv ==
    /\ \A j, k \in Jobs : Inserted(j) /\ k < j => Inserted(k)
    /\ \A w \in Workers :
           worker[w].pc = "flush" =>
               \A k \in Jobs : k <= worker[w].job /\ job[k].inst = Target(w)
                                   => k \in worker[w].unlinked

\* Why a job may end as "running": its row is gone, or a later job of the
\* installation refuses the deletion.
Ended(j) ==
    \/ row[job[j].inst].status = "deleted"
    \/ /\ job[j].type = "uninstall"
       /\ \E k \in Jobs : k > j /\ job[k].inst = job[j].inst

\* What NoStuckJob needs to be inductive: rows of inserted jobs exist or have
\* existed, a dead session stands for a job that ends as it is, and a task marks
\* its job failed before the installation.
FateInv ==
    /\ \A j \in Jobs : Inserted(j) => row[job[j].inst].status # "free"
    /\ \A w \in Workers, j \in Jobs : Executes(w, j) /\ worker[w].dead => Ended(j)
    /\ \A w \in Workers :
           worker[w].pc = "failinst" => job[worker[w].job].status = "failed"
    /\ \A j \in Jobs : /\ job[j].status = "pending" => j \in unsent \/ Queued(j) \/ j \in lost
                       /\ job[j].status = "running" => \/ \E w \in Workers : Executes(w, j)
                                                       \/ Ended(j)

\* What a step leaves alone of the jobs.
LEMMA JobsStand ==
    ASSUME TypeInv, TokenInv, JobStep
    PROVE  /\ \A k \in Jobs : Inserted(k) => /\ Inserted(k)'
                                             /\ job'[k].type = job[k].type
                                             /\ job'[k].inst = job[k].inst
           /\ \/ Inserts
              \/ \A k \in Jobs : ~Inserted(k) => job'[k] = job[k]
<1>1. CASE Inserts
  <2>1. \A k \in Jobs : Inserted(k) => job'[k] = job[k]
    BY <1>1 DEF Inserts, InsertJob, NextJob, Inserted, TypeInv, TypeOK
  <2> QED BY <1>1, <2>1 DEF Inserted
<1>2. CASE UNCHANGED job
  BY <1>2 DEF Inserted
<1>3. ASSUME NEW w \in Workers, Takes(w)
      PROVE  \A k \in Jobs : /\ Inserted(k) => /\ Inserted(k)'
                                               /\ job'[k].type = job[k].type
                                               /\ job'[k].inst = job[k].inst
                             /\ ~Inserted(k) => job'[k] = job[k]
  <2> PICK m \in queue :
          job' = [job EXCEPT ![m.job].status = "running", ![m.job].runs = @ + 1]
    BY <1>3 DEF Takes
  <2>1. m.job \in Jobs /\ Inserted(m.job) /\ job[m.job] \in InsertedJob
    BY TokenTypes DEF TokenInv, TokenCount, Inserted, Job, FreeJob
  <2>2. /\ job'[m.job].status = "running" /\ job'[m.job].inst = job[m.job].inst
        /\ job'[m.job].type = job[m.job].type
        /\ \A k \in Jobs : k # m.job => job'[k] = job[k]
    BY <2>1 DEF TypeInv, TypeOK, InsertedJob
  <2> QED BY <2>1, <2>2 DEF Inserted
<1>4. ASSUME NEW w \in Workers, worker[w].pc # "idle", NEW status \in JobStatus,
             MarkedJob(w, status)
      PROVE  \A k \in Jobs : /\ Inserted(k) => /\ Inserted(k)'
                                               /\ job'[k].type = job[k].type
                                               /\ job'[k].inst = job[k].inst
                             /\ ~Inserted(k) => job'[k] = job[k]
  <2>1. Inserted(worker[w].job) /\ worker[w].job \in Jobs
    BY <1>4, TokenTypes DEF TokenInv, TokenCount
  <2>2. status # "free"
    BY DEF JobStatus
  <2> QED BY <1>4, <2>1, <2>2, MarkedFields DEF Inserted
<1>5. ASSUME NEW w \in Workers, SlotStep(w)
      PROVE  \A k \in Jobs : /\ Inserted(k) => /\ Inserted(k)'
                                               /\ job'[k].type = job[k].type
                                               /\ job'[k].inst = job[k].inst
                             /\ ~Inserted(k) => job'[k] = job[k]
  <2>1. "failed" \in JobStatus /\ "completed" \in JobStatus
    BY DEF JobStatus
  <2>2. CASE UNCHANGED job
    BY <2>2 DEF Inserted
  <2> QED BY <1>3, <1>4, <1>5, <2>1, <2>2 DEF SlotStep, Works, Fails, Completes,
             GivesUp, Raises, Stays, Leaves
<1> QED BY <1>1, <1>2, <1>5 DEF JobStep, Delay, Loses

LEMMA OrderStep ==
    ASSUME TypeInv, TokenInv, OrderInv, JobStep
    PROVE  OrderInv'
<1>1. ASSUME NEW j \in Jobs, NEW k \in Jobs, Inserted(j)', k < j
      PROVE  Inserted(k)'
  <2>1. CASE Inserted(j)
    BY <1>1, <2>1, JobsStand DEF OrderInv
  <2>2. CASE ~Inserted(j) /\ Inserts
    <3> PICK n \in Jobs, t \in JobTypes, i \in Installations : InsertJob(n, t, i)
      BY <2>2 DEF Inserts
    <3>1. n = j
      BY <1>1, <2>2 DEF InsertJob, Inserted, TypeInv, TypeOK
    <3>2. Inserted(k)
      BY <1>1, <3>1 DEF InsertJob, NextJob, Inserted
    <3> QED BY <3>2, JobsStand
  <2>3. CASE ~Inserted(j) /\ job'[j] = job[j]
    BY <1>1, <2>3 DEF Inserted
  <2> QED BY <2>1, <2>2, <2>3, JobsStand
<1>2. ASSUME NEW w \in Workers, worker[w].pc = "flush", worker'[w] = worker[w],
             NEW k \in Jobs, k <= worker[w].job, job'[k].inst = Target(w)'
      PROVE  k \in worker'[w].unlinked
  <2>1. worker[w].job \in Jobs /\ Inserted(worker[w].job)
    BY <1>2, TokenTypes DEF TokenInv, TokenCount
  <2>2. Inserted(k)
    BY <1>2, <2>1 DEF OrderInv, Jobs
  <2>3. job'[k].inst = job[k].inst /\ Target(w)' = Target(w)
    BY <1>2, <2>1, <2>2, JobsStand DEF Target
  <2> QED BY <1>2, <2>3 DEF OrderInv
<1>3. ASSUME NEW v \in Workers, worker'[v].pc = "flush"
      PROVE  \/ worker[v].pc = "flush" /\ worker'[v] = worker[v]
             \/ Works(v)
  <2>1. CASE UNCHANGED worker
    BY <1>3, <2>1
  <2>2. ASSUME NEW w \in Workers, SlotStep(w)
        PROVE  \/ worker[v].pc = "flush" /\ worker'[v] = worker[v]
               \/ Works(v)
    <3>1. v # w => worker'[v] = worker[v]
      <4>1. ASSUME NEW slot, worker' = [worker EXCEPT ![w] = slot], v # w
            PROVE  worker'[v] = worker[v]
        BY <4>1 DEF TypeInv, TypeOK
      <4> QED BY <2>2, <4>1 DEF SlotStep, Takes, Works, Fails, Completes, GivesUp,
                 Raises, Stays, Leaves
    <3>2. CASE v # w
      BY <1>3, <3>1, <3>2
    <3>3. CASE v = w
      BY <1>3, <2>2, <3>3, LeavesFields DEF SlotStep, Takes, Fails, Completes,
         GivesUp, Raises
    <3> QED BY <3>2, <3>3
  <2> QED BY <2>1, <2>2 DEF JobStep, Inserts, Delay, Loses
<1>4. ASSUME NEW w \in Workers, worker'[w].pc = "flush", Works(w),
             NEW k \in Jobs, k <= worker'[w].job, job'[k].inst = Target(w)'
      PROVE  k \in worker'[w].unlinked
  <2>1. Target(w)' = Target(w) /\ worker'[w].unlinked = JobsOf(Target(w)) /\ job' = job
    BY <1>4 DEF Works, Stays, Target
  <2> QED BY <1>4, <2>1 DEF JobsOf
<1>5. ASSUME NEW w \in Workers, worker'[w].pc = "flush",
             NEW k \in Jobs, k <= worker'[w].job, job'[k].inst = Target(w)'
      PROVE  k \in worker'[w].unlinked
  <2>1. CASE worker[w].pc = "flush" /\ worker'[w] = worker[w]
    BY <1>2, <1>5, <2>1
  <2>2. CASE Works(w)
    BY <1>4, <1>5, <2>2
  <2> QED BY <1>3, <1>5, <2>1, <2>2
<1> QED BY <1>1, <1>5 DEF OrderInv

\* What becomes of a row: once allocated it stays allocated, once deleted it
\* stays deleted.
LEMMA RowFate ==
    ASSUME TypeInv, DeletedEmpty, RowStep, NEW i \in Installations
    PROVE  /\ row[i].status # "free" => row'[i].status # "free"
           /\ row[i].status = "deleted" => row'[i].status = "deleted"
<1>1. row[i].status = "deleted" => row'[i] = row[i]
  BY DeletedStep
<1>2. row[i].status # "free" => row'[i].status # "free"
  <2>1. CASE UNCHANGED row
    BY <2>1
  <2>2. ASSUME NEW k \in Installations, row' = [row EXCEPT ![k] = row'[k]],
               \/ row'[k].status \in LiveStatus
               \/ row'[k] = [FreeRow EXCEPT !.status = "deleted"]
        PROVE  row[i].status # "free" => row'[i].status # "free"
    <3>1. row'[k].status # "free"
      BY <2>2 DEF LiveStatus, FreeRow
    <3>2. i # k => row'[i] = row[i]
      BY <2>2 DEF TypeInv, TypeOK
    <3> QED BY <3>1, <3>2
  <2> QED BY <2>1, <2>2 DEF RowStep
<1> QED BY <1>1, <1>2

\* The installation of an inserted job is an installation, and nothing that is
\* not inserted belongs to one.
LEMMA InstType ==
    ASSUME TypeInv, NEW j \in Jobs
    PROVE  /\ Inserted(j) => job[j].inst \in Installations
           /\ ~Inserted(j) => job[j].inst \notin Installations
  BY DEF TypeInv, TypeOK, Job, FreeJob, InsertedJob, Inserted, JobStatus,
     Installations

\* A step leaves the rows of the inserted jobs as they were, or further on.
LEMMA FateRows ==
    ASSUME TypeInv, TokenInv, DeletedEmpty, RowStep, JobStep, FateInv
    PROVE  \A j \in Jobs :
               Inserted(j) => /\ row'[job'[j].inst].status # "free"
                              /\ Ended(j) => Ended(j)'
<1> SUFFICES ASSUME NEW j \in Jobs, Inserted(j)
             PROVE  /\ row'[job'[j].inst].status # "free"
                    /\ Ended(j) => Ended(j)'
  OBVIOUS
<1>1. job[j].inst \in Installations
  BY InstType
<1>2. job'[j].inst = job[j].inst /\ job'[j].type = job[j].type
  BY JobsStand
<1>3. row'[job'[j].inst].status # "free"
  BY <1>1, <1>2, RowFate DEF FateInv
<1>4. CASE row[job[j].inst].status = "deleted"
  BY <1>1, <1>2, <1>3, <1>4, RowFate DEF Ended
<1>5. ASSUME job[j].type = "uninstall", NEW k \in Jobs, k > j, job[k].inst = job[j].inst
      PROVE  Ended(j)'
  <2>1. Inserted(k)
    BY <1>1, <1>5, InstType
  <2>2. job'[k].inst = job[k].inst
    BY <2>1, JobsStand
  <2> QED BY <1>2, <1>5, <2>2 DEF Ended
<1> QED BY <1>3, <1>4, <1>5 DEF Ended

LEMMA FateInserts ==
    ASSUME TypeInv, TokenInv, FateInv, DeletedEmpty, RowStep, JobStep, Inserts
    PROVE  FateInv'
<1> PICK j \in Jobs, t \in JobTypes, i \in Installations :
             InsertJob(j, t, i) /\ row'[i].status # "free"
  BY DEF Inserts
<1>1. /\ job[j].status = "free" /\ unsent' = unsent \cup {j}
      /\ UNCHANGED <<queue, worker, lost>>
  BY DEF Inserts, InsertJob, NextJob
<1>2. /\ job'[j].status = "pending" /\ job'[j].inst = i
      /\ \A k \in Jobs : k # j => job'[k] = job[k]
  BY DEF InsertJob, TypeInv, TypeOK
<1>3. \A w \in Workers : worker[w].pc # "idle" =>
          worker[w].job # j /\ worker[w].job \in Jobs /\ Inserted(worker[w].job)
  BY <1>1, TokenTypes DEF TokenInv, TokenCount, Inserted
<1>4. \A k \in Jobs : Inserted(k)' => row'[job'[k].inst].status # "free"
  BY <1>2, FateRows DEF Inserted
<1>5. \A w \in Workers, k \in Jobs : Executes(w, k)' /\ worker'[w].dead => Ended(k)'
  BY <1>1, <1>3, FateRows DEF FateInv, Executes
<1>6. \A w \in Workers :
          worker'[w].pc = "failinst" => job'[worker'[w].job].status = "failed"
  BY <1>1, <1>2, <1>3 DEF FateInv
<1>7. ASSUME NEW k \in Jobs
      PROVE  /\ job'[k].status = "pending" => k \in unsent' \/ Queued(k)' \/ k \in lost'
             /\ job'[k].status = "running" => \/ \E w \in Workers : Executes(w, k)'
                                              \/ Ended(k)'
  <2>1. CASE k = j
    BY <1>1, <1>2, <2>1
  <2>2. CASE k # j
    <3>1. job'[k] = job[k]
      BY <1>2, <2>2
    <3>2. job[k].status = "running" => Inserted(k)
      BY DEF Inserted
    <3> QED BY <1>1, <3>1, <3>2, FateRows DEF FateInv, Executes, Queued
  <2> QED BY <2>1, <2>2
<1> QED BY <1>4, <1>5, <1>6, <1>7 DEF FateInv

LEMMA FateMessages ==
    ASSUME TypeInv, TokenInv, FateInv, DeletedEmpty, RowStep, JobStep,
           Loses \/ \E j \in unsent : Delay(j)
    PROVE  FateInv'
<1>1. UNCHANGED <<job, worker>>
  BY DEF Loses, Delay
<1>2. ASSUME NEW k \in Jobs, k \in unsent \/ Queued(k) \/ k \in lost
      PROVE  k \in unsent' \/ Queued(k)' \/ k \in lost'
  <2>1. ASSUME NEW j \in unsent, Delay(j)
        PROVE  k \in unsent' \/ Queued(k)' \/ k \in lost'
    <3> DEFINE m == [job |-> j, retries |-> 0]
    <3>1. /\ unsent' = unsent \ {j} /\ queue' = queue \cup {m}
          /\ UNCHANGED lost /\ m.job = j
      BY <2>1 DEF Delay
    <3> HIDE DEF m
    <3> QED BY <1>2, <3>1 DEF Queued
  <2>2. CASE Loses
    BY <1>2, <2>2 DEF Loses, Queued
  <2> QED BY <2>1, <2>2
<1>3. \A w \in Workers, k \in Jobs : Executes(w, k)' = Executes(w, k)
  BY <1>1 DEF Executes
<1>4. \A w \in Workers : worker[w].pc # "idle" =>
          worker[w].job \in Jobs /\ Inserted(worker[w].job)
  BY TokenTypes DEF TokenInv, TokenCount
<1>5. \A k \in Jobs : Inserted(k)' => row'[job'[k].inst].status # "free"
  BY <1>1, FateRows DEF Inserted
<1>6. \A w \in Workers, k \in Jobs : Executes(w, k)' /\ worker'[w].dead => Ended(k)'
  BY <1>1, <1>3, <1>4, FateRows DEF FateInv, Executes
<1>7. ASSUME NEW k \in Jobs
      PROVE  /\ job'[k].status = "pending" => k \in unsent' \/ Queued(k)' \/ k \in lost'
             /\ job'[k].status = "running" => \/ \E w \in Workers : Executes(w, k)'
                                              \/ Ended(k)'
  BY <1>1, <1>2, <1>3, FateRows DEF FateInv, Inserted
<1>8. \A w \in Workers :
          worker'[w].pc = "failinst" => job'[worker'[w].job].status = "failed"
  BY <1>1 DEF FateInv
<1> QED BY <1>5, <1>6, <1>7, <1>8 DEF FateInv

LEMMA FateTakes ==
    ASSUME TypeInv, TokenInv, FateInv, DeletedEmpty, RowStep, JobStep,
           NEW w \in Workers, Takes(w), UNCHANGED <<unsent, lost>>
    PROVE  FateInv'
<1> PICK m \in queue :
        /\ worker[w].pc = "idle"
        /\ queue' = queue \ {m}
        /\ job' = [job EXCEPT ![m.job].status = "running", ![m.job].runs = @ + 1]
        /\ worker' = [worker EXCEPT ![w] = worker'[w]]
        /\ worker'[w].pc = "load" /\ worker'[w].job = m.job
        /\ worker'[w].dead = FALSE
  BY DEF Takes
<1>1. m.job \in Jobs /\ Inserted(m.job) /\ job[m.job] \in InsertedJob
  BY TokenTypes DEF TokenInv, TokenCount, Inserted, Job, FreeJob
<1>2. /\ job'[m.job].status = "running"
      /\ \A k \in Jobs : k # m.job => job'[k] = job[k]
  BY <1>1 DEF TypeInv, TypeOK, InsertedJob
<1>3. \A v \in Workers : v # w => worker'[v] = worker[v]
  BY DEF TypeInv, TypeOK
<1>4. \A v \in Workers : worker[v].pc # "idle" =>
          /\ worker[v].job # m.job
          /\ worker[v].job \in Jobs /\ Inserted(worker[v].job)
  BY TokenTypes DEF TokenInv, TokenCount, OneExecution, Executes
<1>5. \A k \in Jobs : Inserted(k)' => row'[job'[k].inst].status # "free"
  BY <1>1, <1>2, FateRows DEF Inserted
<1>6. \A v \in Workers, k \in Jobs : Executes(v, k)' /\ worker'[v].dead => Ended(k)'
  <2> SUFFICES ASSUME NEW v \in Workers, NEW k \in Jobs, Executes(v, k)', worker'[v].dead
               PROVE  Ended(k)'
    OBVIOUS
  <2>1. v # w /\ worker'[v] = worker[v]
    BY <1>3
  <2>2. Executes(v, k) /\ Inserted(k)
    BY <1>4, <2>1 DEF Executes
  <2> QED BY <2>1, <2>2, FateRows DEF FateInv
<1>7. \A v \in Workers :
          worker'[v].pc = "failinst" => job'[worker'[v].job].status = "failed"
  <2> SUFFICES ASSUME NEW v \in Workers, worker'[v].pc = "failinst"
               PROVE  job'[worker'[v].job].status = "failed"
    OBVIOUS
  <2>1. v # w /\ worker'[v] = worker[v]
    BY <1>3
  <2>2. worker[v].job # m.job /\ worker[v].job \in Jobs
    BY <1>4, <2>1
  <2>3. job'[worker[v].job] = job[worker[v].job]
    BY <1>2, <2>2
  <2> QED BY <2>1, <2>3 DEF FateInv
<1>8. ASSUME NEW k \in Jobs
      PROVE  /\ job'[k].status = "pending" => k \in unsent' \/ Queued(k)' \/ k \in lost'
             /\ job'[k].status = "running" => \/ \E v \in Workers : Executes(v, k)'
                                              \/ Ended(k)'
  <2>1. CASE k = m.job
    <3>1. Executes(w, k)'
      BY <2>1 DEF Executes
    <3> QED BY <1>2, <2>1, <3>1
  <2>2. CASE k # m.job
    <3>1. job'[k] = job[k] /\ (Queued(k) => Queued(k)')
      BY <1>2, <2>2 DEF Queued
    <3>2. ASSUME NEW v \in Workers, Executes(v, k) PROVE Executes(v, k)'
      BY <1>3, <3>2 DEF Executes
    <3>3. job[k].status = "running" => Inserted(k)
      BY DEF Inserted
    <3> QED BY <3>1, <3>2, <3>3, FateRows DEF FateInv
  <2> QED BY <2>1, <2>2
<1> QED BY <1>5, <1>6, <1>7, <1>8 DEF FateInv

LEMMA FateWorks ==
    ASSUME TypeInv, TokenInv, OrderInv, FateInv, DeletedEmpty, RowStep, JobStep,
           NEW w \in Workers, Works(w), UNCHANGED <<unsent, lost>>
    PROVE  FateInv'
<1>1. /\ worker[w].pc # "idle" /\ worker'[w].pc \notin {"idle", "failinst"}
      /\ worker'[w].job = worker[w].job
      /\ worker'[w].dead => \/ worker[w].dead
                            \/ ~Live(Target(w))
                            \/ At(w, "flush", uninstall) /\ Referenced(w)
      /\ UNCHANGED <<job, queue, unsent, lost>>
      /\ \A v \in Workers : v # w => worker'[v] = worker[v]
  BY StaysFields DEF Works, Stays
<1>2. \A v \in Workers : worker[v].pc # "idle" =>
          worker[v].job \in Jobs /\ Inserted(worker[v].job)
  BY TokenTypes DEF TokenInv, TokenCount
<1>3. worker'[w].dead => Ended(worker[w].job)
  <2> DEFINE j == worker[w].job
  <2>1. CASE worker[w].dead
    BY <1>1, <1>2, <2>1 DEF FateInv, Executes
  <2>2. CASE ~Live(Target(w))
    <3>1. Target(w) \in Installations /\ row[Target(w)].status # "free"
      BY <1>1, <1>2, InstType DEF Target, FateInv
    <3>2. row[Target(w)].status = "deleted"
      BY <2>2, <3>1 DEF Live, TypeInv, TypeOK, Row, RowStatus
    <3> QED BY <3>2 DEF Ended, Target
  <2>3. CASE At(w, "flush", uninstall) /\ Referenced(w)
    <3>1. PICK k \in Jobs : job[k].inst = Target(w) /\ k \notin worker[w].unlinked
      BY <2>3 DEF Referenced
    <3>2. ~(k <= j)
      BY <2>3, <3>1 DEF OrderInv, At
    <3>3. k > j
      BY <1>1, <1>2, <3>2 DEF Jobs
    <3> QED BY <2>3, <3>1, <3>3 DEF Ended, At, Type, Target, uninstall
  <2> QED BY <1>1, <2>1, <2>2, <2>3
<1>4. \A v \in Workers, k \in Jobs : Executes(v, k)' = Executes(v, k)
  BY <1>1 DEF Executes
<1>5. \A v \in Workers, k \in Jobs : Executes(v, k)' /\ worker'[v].dead => Ended(k)'
  <2> SUFFICES ASSUME NEW v \in Workers, NEW k \in Jobs, Executes(v, k), worker'[v].dead
               PROVE  Ended(k)'
    BY <1>4
  <2>1. Inserted(k)
    BY <1>2 DEF Executes
  <2>2. Ended(k)
    <3>1. CASE v = w
      BY <1>3, <3>1 DEF Executes
    <3>2. CASE v # w
      BY <1>1, <3>2 DEF FateInv
    <3> QED BY <3>1, <3>2
  <2> QED BY <2>1, <2>2, FateRows
<1>6. ASSUME NEW k \in Jobs
      PROVE  /\ job'[k].status = "pending" => k \in unsent' \/ Queued(k)' \/ k \in lost'
             /\ job'[k].status = "running" => \/ \E v \in Workers : Executes(v, k)'
                                              \/ Ended(k)'
  BY <1>1, <1>4, FateRows DEF FateInv, Queued, Inserted
<1>7. \A k \in Jobs : Inserted(k)' => row'[job'[k].inst].status # "free"
  BY <1>1, FateRows DEF Inserted
<1>8. \A v \in Workers :
          worker'[v].pc = "failinst" => job'[worker'[v].job].status = "failed"
  BY <1>1 DEF FateInv
<1> QED BY <1>5, <1>6, <1>7, <1>8 DEF FateInv

\* The steps that mark the job of the slot, and those that end its execution.
LEMMA FateEnds ==
    ASSUME TypeInv, TokenInv, FateInv, DeletedEmpty, RowStep, JobStep,
           NEW w \in Workers, UNCHANGED <<unsent, lost>>,
           Fails(w) \/ Completes(w) \/ GivesUp(w) \/ Raises(w)
    PROVE  FateInv'
<1> DEFINE j == worker[w].job
<1>1. /\ worker[w].pc # "idle" /\ j \in Jobs /\ Inserted(j)
      /\ \A v \in Workers : v # w => worker'[v] = worker[v]
      /\ \A v \in Workers : v # w /\ worker[v].pc # "idle" =>
             worker[v].job # j /\ worker[v].job \in Jobs /\ Inserted(worker[v].job)
  BY TokenTypes, LeavesFields, StaysFields
     DEF TokenInv, TokenCount, OneExecution, Fails, Completes, GivesUp, Raises,
         Stays, Leaves
<1>2. /\ \A k \in Jobs : k # j => job'[k] = job[k]
      /\ \/ job'[j].status \in {"completed", "failed"}
         \/ job' = job /\ worker[w].pc = "failinst"
         \/ job' = job /\ worker[w].dead
  BY <1>1, MarkedFields DEF Fails, Completes, GivesUp, Raises, JobStatus
<1>3. \A m \in queue : m \in queue'
  BY DEF Fails, Stays, Completes, GivesUp, Raises, Retry
<1>4. \/ worker'[w].pc = "idle"
      \/ /\ worker'[w].pc = "failinst" /\ worker'[w].job = j
         /\ job'[j].status = "failed" /\ worker'[w].dead = worker[w].dead
  BY <1>1, LeavesFields, MarkedFields DEF Fails, Stays, Completes, GivesUp,
     Raises, JobStatus
<1>5. \A k \in Jobs : Inserted(k)' => row'[job'[k].inst].status # "free"
  BY <1>1, <1>2, FateRows DEF Inserted
<1>6. \A v \in Workers, k \in Jobs : Executes(v, k)' /\ worker'[v].dead => Ended(k)'
  <2> SUFFICES ASSUME NEW v \in Workers, NEW k \in Jobs, Executes(v, k)', worker'[v].dead
               PROVE  Ended(k)'
    OBVIOUS
  <2>1. Executes(v, k) /\ worker[v].dead
    BY <1>1, <1>4 DEF Executes
  <2>2. Inserted(k)
    BY <2>1, TokenTypes DEF TokenInv, TokenCount, Executes
  <2> QED BY <2>1, <2>2, FateRows DEF FateInv
<1>7. \A v \in Workers :
          worker'[v].pc = "failinst" => job'[worker'[v].job].status = "failed"
  BY <1>1, <1>2, <1>4 DEF FateInv
<1>8. ASSUME NEW k \in Jobs
      PROVE  /\ job'[k].status = "pending" => k \in unsent' \/ Queued(k)' \/ k \in lost'
             /\ job'[k].status = "running" => \/ \E v \in Workers : Executes(v, k)'
                                              \/ Ended(k)'
  <2>1. Queued(k) => Queued(k)'
    BY <1>3 DEF Queued
  <2>2. CASE k # j
    <3>1. job'[k] = job[k]
      BY <1>2, <2>2
    <3>2. ASSUME NEW v \in Workers, Executes(v, k) PROVE Executes(v, k)'
      BY <1>1, <2>2, <3>2 DEF Executes
    <3>3. job[k].status = "running" => Inserted(k)
      BY DEF Inserted
    <3> QED BY <2>1, <3>1, <3>2, <3>3, FateRows DEF FateInv
  <2>3. CASE k = j
    <3>1. CASE job'[j].status \in {"completed", "failed"}
      BY <2>3, <3>1
    <3>2. CASE job' = job /\ worker[w].pc = "failinst"
      <4>1. job'[j].status = "failed"
        BY <3>2 DEF FateInv
      <4> QED BY <2>3, <4>1
    <3>3. CASE job' = job /\ worker[w].dead
      <4>1. Ended(k)
        BY <1>1, <2>3, <3>3 DEF FateInv, Executes
      <4>2. Ended(k)'
        BY <1>1, <2>3, <4>1, FateRows
      <4>3. job[k].status = "pending" => k \in unsent \/ Queued(k) \/ k \in lost
        BY DEF FateInv
      <4> QED BY <2>1, <3>3, <4>2, <4>3
    <3> QED BY <1>2, <3>1, <3>2, <3>3
  <2> QED BY <2>2, <2>3
<1> QED BY <1>5, <1>6, <1>7, <1>8 DEF FateInv

LEMMA FateStep ==
    ASSUME TypeInv, TokenInv, OrderInv, FateInv, DeletedEmpty, RowStep, JobStep
    PROVE  FateInv'
<1>1. CASE Inserts
  BY <1>1, FateInserts
<1>2. CASE Loses \/ \E j \in unsent : Delay(j)
  BY <1>2, FateMessages
<1>3. ASSUME NEW w \in Workers, SlotStep(w) PROVE FateInv'
  BY <1>3, FateTakes, FateWorks, FateEnds DEF SlotStep
<1>4. CASE UNCHANGED <<job, unsent, queue, worker, lost>>
  <2>1. \A w \in Workers, k \in Jobs :
            /\ Executes(w, k)' = Executes(w, k)
            /\ Executes(w, k) => Inserted(k)
    BY <1>4, TokenTypes DEF TokenInv, TokenCount, Executes
  <2>2. \A k \in Jobs : Inserted(k)' => row'[job'[k].inst].status # "free"
    BY <1>4, FateRows DEF Inserted
  <2>3. \A w \in Workers, k \in Jobs : Executes(w, k)' /\ worker'[w].dead => Ended(k)'
    BY <1>4, <2>1, FateRows DEF FateInv
  <2>4. ASSUME NEW k \in Jobs
        PROVE  /\ job'[k].status = "pending" => k \in unsent' \/ Queued(k)' \/ k \in lost'
               /\ job'[k].status = "running" => \/ \E v \in Workers : Executes(v, k)'
                                                \/ Ended(k)'
    BY <1>4, <2>1, FateRows DEF FateInv, Queued, Inserted
  <2> QED BY <1>4, <2>2, <2>3, <2>4 DEF FateInv
<1> QED BY <1>1, <1>2, <1>3, <1>4 DEF JobStep

\* Without faults every unfinished job is on its way, but for the three cases
\* that nobody is told of: its message came to nothing, its installation is
\* gone, or it is an uninstall whose deletion a later job has refused.
THEOREM NoStuckJobHolds == MaxFaults = 0 /\ Spec => []NoStuckJob
<1> DEFINE Inv == TypeInv /\ TokenInv /\ StatusInv /\ OrderInv /\ DeletedEmpty /\ FateInv
<1> SUFFICES ASSUME MaxFaults = 0 PROVE Spec => []NoStuckJob
  OBVIOUS
<1>1. Init => Inv
  <2> SUFFICES ASSUME Init PROVE OrderInv /\ DeletedEmpty /\ FateInv
    BY TypeInit, TokenInit, StatusInit
  <2> QED BY DEF Init, OrderInv, DeletedEmpty, FreeRow, FateInv, Inserted, Executes,
             FreeJob, IdleSlot
<1>2. Inv /\ [Next]_vars => Inv'
  BY TypeStep, JobNext, TokenStep, StatusStep, OrderStep, RowNext, DeletedStep, FateStep
<1>3. Inv => NoStuckJob
  <2> SUFFICES ASSUME Inv, NEW j \in Jobs, job[j].status = "running",
                      \A w \in Workers : ~Executes(w, j),
                      row[job[j].inst].status # "deleted"
               PROVE  Refused(j)
    BY DEF FateInv, NoStuckJob
  <2>1. j \notin unsent /\ ~Queued(j)
    BY DEF TokenInv, TokenCount, StatusInv, Queued
  <2>2. Place(j) = "over"
    BY <2>1 DEF Place
  <2> QED BY <2>2 DEF FateInv, Ended, Refused
<1> QED BY <1>1, <1>2, <1>3, PTL DEF Spec

-----------------------------------------------------------------------------
(* The service, the broker and the pool implement JobLife.                 *)

\* A step that moves one job and leaves the places of the others alone.
LEMMA PlaceMove ==
    ASSUME NEW j \in Jobs, NEW to, Place(j)' = to,
           \A k \in Jobs : k # j => Place(k)' = Place(k)
    PROVE  Places' = [Places EXCEPT ![j] = to]
  BY DEF Places

LEMMA RunsKept ==
    ASSUME \A k \in Jobs : job'[k].runs = job[k].runs
    PROVE  Runs' = Runs
  BY DEF Runs

LEMMA RunsCounted ==
    ASSUME NEW j \in Jobs, job'[j].runs = job[j].runs + 1,
           \A k \in Jobs : k # j => job'[k] = job[k]
    PROVE  Runs' = [Runs EXCEPT ![j] = @ + 1]
  BY DEF Runs

LEMMA LifeInserts ==
    ASSUME TypeInv, TokenInv, Inserts
    PROVE  Life!Next
<1> PICK j \in Jobs, t \in JobTypes, i \in Installations : InsertJob(j, t, i)
  BY DEF Inserts
<1>1. /\ job[j].status = "free" /\ unsent' = unsent \cup {j}
      /\ UNCHANGED <<queue, worker>>
  BY DEF Inserts, InsertJob, NextJob
<1>2. /\ job'[j].status = "pending" /\ job'[j].runs = 0 /\ job[j].runs = 0
      /\ \A k \in Jobs : k # j => job'[k] = job[k]
  BY <1>1 DEF InsertJob, TypeInv, TypeOK, Job, FreeJob, InsertedJob, JobStatus
<1>3. Place(j) = "none" /\ Place(j)' = "unsent"
  BY <1>1, <1>2 DEF Place
<1>4. \A k \in Jobs : k # j => Place(k)' = Place(k)
  BY <1>1, <1>2 DEF Place, Queued, Executes
<1>5. \A k \in Jobs : job'[k].runs = job[k].runs
  BY <1>2
<1>6. Life!Request(j)
  BY <1>3, <1>4, <1>5, PlaceMove, RunsKept DEF Life!Request, Life!Move, Places
<1> QED BY <1>6 DEF Life!Next

LEMMA LifeDelay ==
    ASSUME TypeInv, TokenInv, NEW j \in unsent, Delay(j)
    PROVE  Life!Next
<1> DEFINE m == [job |-> j, retries |-> 0]
<1>1. /\ unsent' = unsent \ {j} /\ queue' = queue \cup {m}
      /\ UNCHANGED <<job, worker>>
  BY DEF Delay
<1>2. m.job = j
  OBVIOUS
<1> HIDE DEF m
<1>3. j \in Jobs /\ job[j].status # "free"
  BY DEF TypeInv, TypeOK, TokenInv, TokenCount
<1>4. Place(j) = "unsent" /\ Place(j)' = "queued"
  BY <1>1, <1>2, <1>3 DEF Place, Queued
<1>5. \A k \in Jobs : k # j => Place(k)' = Place(k)
  BY <1>1, <1>2 DEF Place, Queued, Executes
<1>6. \A k \in Jobs : job'[k].runs = job[k].runs
  BY <1>1
<1>7. Life!Publish(j)
  BY <1>3, <1>4, <1>5, <1>6, PlaceMove, RunsKept DEF Life!Publish, Life!Move, Places
<1> QED BY <1>3, <1>7 DEF Life!Next

LEMMA LifeLoses ==
    ASSUME TypeInv, TokenInv, Loses
    PROVE  Life!Next
<1>1. UNCHANGED <<job, worker>>
  BY DEF Loses
<1>2. ASSUME NEW j \in Jobs, job[j].status # "free",
             Place(j) \in {"unsent", "queued"}, Place(j)' = "over",
             \A k \in Jobs : k # j => Place(k)' = Place(k)
      PROVE  Life!Next
  <2>1. Runs' = Runs
    BY <1>1 DEF Runs
  <2>2. Life!Lose(j)
    BY <1>2, <2>1, PlaceMove DEF Life!Lose, Places
  <2> QED BY <2>2 DEF Life!Next
<1>3. ASSUME NEW j \in unsent, unsent' = unsent \ {j}, UNCHANGED queue
      PROVE  Life!Next
  <2>1. /\ j \in Jobs /\ job[j].status # "free"
        /\ ~Queued(j) /\ \A w \in Workers : ~Executes(w, j)
    BY DEF TypeInv, TypeOK, TokenInv, TokenCount, OneExecution
  <2>2. \A k \in Jobs : /\ Queued(k)' = Queued(k)
                        /\ \A w \in Workers : Executes(w, k)' = Executes(w, k)
    BY <1>1, <1>3 DEF Queued, Executes
  <2>3. Place(j) = "unsent" /\ Place(j)' = "over"
    BY <1>1, <1>3, <2>1, <2>2 DEF Place
  <2>4. \A k \in Jobs : k # j => Place(k)' = Place(k)
    BY <1>1, <1>3, <2>2 DEF Place
  <2> QED BY <1>2, <2>1, <2>3, <2>4
<1>4. ASSUME NEW m \in queue, queue' = queue \ {m}, UNCHANGED unsent
      PROVE  Life!Next
  <2>1. /\ m.job \in Jobs /\ job[m.job].status # "free" /\ m.job \notin unsent
        /\ \A n \in queue : n.job = m.job => n = m
        /\ \A w \in Workers : ~Executes(w, m.job)
    BY TokenTypes DEF TokenInv, TokenCount, OneExecution, Inserted, Queued
  <2>2. \A k \in Jobs : /\ k # m.job => Queued(k)' = Queued(k)
                        /\ \A w \in Workers : Executes(w, k)' = Executes(w, k)
    BY <1>1, <1>4 DEF Queued, Executes
  <2>3. Queued(m.job) /\ ~Queued(m.job)'
    BY <1>4, <2>1 DEF Queued
  <2>4. Place(m.job) = "queued" /\ Place(m.job)' = "over"
    BY <1>1, <1>4, <2>1, <2>2, <2>3 DEF Place
  <2>5. \A k \in Jobs : k # m.job => Place(k)' = Place(k)
    BY <1>1, <1>4, <2>2 DEF Place
  <2> QED BY <1>2, <2>1, <2>4, <2>5
<1> QED BY <1>3, <1>4 DEF Loses

LEMMA LifeTakes ==
    ASSUME TypeInv, TokenInv, NEW w \in Workers, Takes(w), UNCHANGED unsent
    PROVE  Life!Next
<1> PICK m \in queue :
        /\ worker[w].pc = "idle"
        /\ queue' = queue \ {m}
        /\ job' = [job EXCEPT ![m.job].status = "running", ![m.job].runs = @ + 1]
        /\ worker' = [worker EXCEPT ![w] = worker'[w]]
        /\ worker'[w].pc = "load" /\ worker'[w].job = m.job
  BY DEF Takes
<1> DEFINE j == m.job
<1>1. j \in Jobs /\ job[j].status # "free" /\ job[j] \in InsertedJob
  BY TokenTypes DEF TokenInv, TokenCount, Inserted, Job, FreeJob
<1>2. /\ job'[j].status = "running" /\ job'[j].runs = job[j].runs + 1
      /\ \A k \in Jobs : k # j => job'[k] = job[k]
  BY <1>1 DEF TypeInv, TypeOK, InsertedJob
<1>3. \A v \in Workers : v # w => worker'[v] = worker[v]
  BY DEF TypeInv, TypeOK
<1>4. j \notin unsent /\ (\A n \in queue : n.job = j => n = m)
  BY DEF TokenInv, OneExecution, Queued
<1>5. Place(j) = "queued"
  BY <1>1, <1>4 DEF Place, Queued
<1>6. Place(j)' = "executing"
  <2>1. ~Queued(j)' /\ Executes(w, j)'
    BY <1>4 DEF Queued, Executes
  <2> QED BY <1>2, <1>4, <2>1 DEF Place
<1>7. ASSUME NEW k \in Jobs, k # j PROVE Place(k)' = Place(k)
  <2>1. job'[k] = job[k] /\ Queued(k)' = Queued(k)
    BY <1>2, <1>7 DEF Queued
  <2>2. \A v \in Workers : Executes(v, k)' = Executes(v, k)
    BY <1>3, <1>7 DEF Executes
  <2> QED BY <2>1, <2>2 DEF Place
<1>8. Runs' = [Runs EXCEPT ![j] = @ + 1]
  BY <1>1, <1>2, RunsCounted
<1>9. Life!Take(j)
  BY <1>1, <1>5, <1>6, <1>7, <1>8, PlaceMove DEF Life!Take, Life!Move, Places
<1> QED BY <1>1, <1>9 DEF Life!Next

\* A slot that goes on: nothing moves.
LEMMA LifeStays ==
    ASSUME TypeInv, TokenInv, NEW w \in Workers, Stays(w), UNCHANGED unsent,
           UNCHANGED job \/ MarkedJob(w, "failed")
    PROVE  UNCHANGED <<Places, Runs>>
<1>1. /\ worker[w].pc # "idle" /\ worker'[w].pc # "idle"
      /\ worker'[w].job = worker[w].job /\ queue' = queue
      /\ \A v \in Workers : v # w => worker'[v] = worker[v]
  BY StaysFields DEF Stays
<1>2. Inserted(worker[w].job) /\ worker[w].job \in Jobs
  BY <1>1, TokenTypes DEF TokenInv, TokenCount
<1>3. \A k \in Jobs : /\ job'[k].runs = job[k].runs
                      /\ (job'[k].status = "free") = (job[k].status = "free")
  BY <1>1, <1>2, MarkedFields DEF Inserted, JobStatus
<1>4. \A v \in Workers, k \in Jobs : Executes(v, k)' = Executes(v, k)
  BY <1>1 DEF Executes
<1>5. \A k \in Jobs : Queued(k)' = Queued(k)
  BY <1>1 DEF Queued
<1>6. \A k \in Jobs : Place(k)' = Place(k)
  BY <1>3, <1>4, <1>5 DEF Place
<1> QED BY <1>3, <1>6 DEF Places, Runs

\* A slot that ends its task: its job is over, or queued once more.
LEMMA LifeLeaves ==
    ASSUME TypeInv, TokenInv, NEW w \in Workers, UNCHANGED unsent,
           Completes(w) \/ GivesUp(w) \/ Raises(w)
    PROVE  Life!Next
<1>0. worker[w].pc # "idle" /\ worker[w].job \in Jobs
  BY LeavesFields, TokenTypes
     DEF TokenInv, TokenCount, Completes, GivesUp, Raises, Leaves
<1> PICK j \in Jobs : j = worker[w].job
  BY <1>0
<1>1. /\ worker[w].pc # "idle" /\ worker'[w].pc = "idle"
      /\ \A v \in Workers : v # w => worker'[v] = worker[v]
  BY LeavesFields DEF Completes, GivesUp, Raises, Leaves
<1>2. j \in Jobs /\ Inserted(j)
  BY <1>1, TokenTypes DEF TokenInv, TokenCount
<1>3. /\ j \notin unsent
      /\ \A n \in queue : n.job # j
      /\ \A v \in Workers : v # w /\ worker[v].pc # "idle" => worker[v].job # j
  BY <1>1 DEF TokenInv, OneExecution, Executes
<1>4. \A k \in Jobs : /\ job'[k].runs = job[k].runs
                      /\ (job'[k].status = "free") = (job[k].status = "free")
  BY <1>1, <1>2, MarkedFields DEF Completes, GivesUp, Raises, Inserted, JobStatus
<1>5. Place(j) = "executing"
  BY <1>1, <1>2, <1>3 DEF Place, Inserted, Queued, Executes
<1>6. \A v \in Workers : ~Executes(v, j)'
  <2> SUFFICES ASSUME NEW v \in Workers PROVE ~Executes(v, j)'
    OBVIOUS
  <2>1. CASE v = w
    BY <1>1, <2>1 DEF Executes
  <2>2. CASE v # w
    <3>1. worker'[v] = worker[v] /\ (worker[v].pc # "idle" => worker[v].job # j)
      BY <1>1, <1>3, <2>2
    <3> QED BY <3>1 DEF Executes
  <2> QED BY <2>1, <2>2
<1>7. \A v \in Workers, k \in Jobs : k # j => Executes(v, k)' = Executes(v, k)
  BY <1>1 DEF Executes
<1>8. CASE queue' = queue
  <2>1. Place(j)' = "over"
    BY <1>2, <1>3, <1>4, <1>6, <1>8 DEF Place, Inserted, Queued
  <2>2. \A k \in Jobs : k # j => Place(k)' = Place(k)
    BY <1>4, <1>7, <1>8 DEF Place, Queued
  <2>3. Life!End(j)
    BY <1>2, <1>4, <1>5, <2>1, <2>2, PlaceMove, RunsKept DEF Life!End, Life!Move, Places
  <2> QED BY <1>2, <2>3 DEF Life!Next
<1>9. CASE queue' # queue
  <2> DEFINE m == [job |-> j, retries |-> worker[w].retries + 1]
  <2>1. worker[w].retries < MaxRetries(Type(w)) /\ queue' = queue \cup {m}
    BY <1>1, <1>9, RetryFields DEF Completes, GivesUp, Raises
  <2>2. m.job = j
    OBVIOUS
  <2> HIDE DEF m
  <2>3. Place(j)' = "queued"
    BY <1>2, <1>3, <1>4, <2>1, <2>2 DEF Place, Inserted, Queued
  <2>4. \A k \in Jobs : k # j => Queued(k)' = Queued(k)
    BY <2>1, <2>2 DEF Queued
  <2>5. \A k \in Jobs : k # j => Place(k)' = Place(k)
    BY <1>4, <1>7, <2>4 DEF Place
  <2>6. job[j].runs < MaxRuns
    <3>1. job[j].runs = worker[w].retries + 1 /\ worker[w].retries \in Nat
      BY <1>1, TokenTypes DEF TokenInv, TokenCount
    <3>2. /\ MaxRetries(Type(w)) + 1 <= MaxRuns
          /\ MaxRetries(Type(w)) \in Nat /\ MaxRuns \in Nat
      BY PlatformAssumption DEF MaxRetries, MaxRuns
    <3> QED BY <2>1, <3>1, <3>2
  <2>7. Life!Again(j)
    BY <1>2, <1>4, <1>5, <2>3, <2>5, <2>6, PlaceMove, RunsKept
       DEF Life!Again, Life!Move, Places, Runs
  <2> QED BY <1>2, <2>7 DEF Life!Next
<1> QED BY <1>8, <1>9

LEMMA LifeStep ==
    ASSUME TypeInv, TokenInv, JobStep
    PROVE  Life!Next
           \/ UNCHANGED <<Places, Runs>>
<1>1. CASE Inserts
  BY <1>1, LifeInserts
<1>2. ASSUME NEW j \in unsent, Delay(j) PROVE Life!Next
  BY <1>2, LifeDelay
<1>3. ASSUME NEW w \in Workers, SlotStep(w)
      PROVE  Life!Next
             \/ UNCHANGED <<Places, Runs>>
  BY <1>3, LifeTakes, LifeStays, LifeLeaves DEF SlotStep, Works, Fails
<1>5. CASE Loses
  BY <1>5, LifeLoses
<1>4. CASE UNCHANGED <<job, unsent, queue, worker, lost>>
  BY <1>4 DEF Places, Runs, Place, Queued, Executes
<1> QED BY <1>1, <1>2, <1>3, <1>4, <1>5 DEF JobStep

\* Without faults the service, the broker and the pool together implement
\* JobLife: initial states map to initial states, steps to steps or stutters.
THEOREM JobLifeImplemented == MaxFaults = 0 /\ Spec => ImplementsJobLife
<1> DEFINE Inv == TypeInv /\ TokenInv
<1> SUFFICES ASSUME MaxFaults = 0 PROVE Spec => ImplementsJobLife
  OBVIOUS
<1>1. Init => Inv
  BY TypeInit, TokenInit
<1>2. Inv /\ [Next]_vars => Inv'
  BY TypeStep, JobNext, TokenStep
<1>3. Init => Life!Init
  BY DEF Init, Life!Init, Places, Runs, Place, FreeJob
<1>4. Inv /\ [Next]_vars
          => [Life!Next]_<<Places, Runs>>
  BY JobNext, LifeStep
<1> QED BY <1>1, <1>2, <1>3, <1>4, PTL DEF Spec, ImplementsJobLife, Life!Spec

-----------------------------------------------------------------------------
(* The back end implements ServerView.                                     *)

\* The status of one row changes, and that is what a client sees.
LEMMA ShownChanged ==
    ASSUME NEW i \in Installations, NEW status, row'[i].status = status,
           \A k \in Installations : k # i => row'[k] = row[k]
    PROVE  Shown' = [Shown EXCEPT ![i] = status]
  BY DEF Shown

LEMMA ShownMarked ==
    ASSUME TypeInv, NEW i \in Installations, NEW status,
           row' = [row EXCEPT ![i].status = status]
    PROVE  Shown' = [Shown EXCEPT ![i] = status]
<1>1. \A k \in Installations : row[k] \in Row
  BY DEF TypeInv, TypeOK
<1>2. /\ row'[i].status = status
      /\ \A k \in Installations : k # i => row'[k] = row[k]
  BY <1>1 DEF TypeInv, TypeOK, Row
<1> QED BY <1>2, ShownChanged

LEMMA ShownSame == ASSUME UNCHANGED row PROVE UNCHANGED Shown
  BY DEF Shown

\* What a client sees of the step of a slot: nothing, or a status its task may
\* write on a live row, the error only after the job has failed, or the row's
\* deletion.
ShowStep(w) ==
    \/ UNCHANGED Shown
    \/ /\ worker[w].pc # "idle" /\ UNCHANGED job
       /\ Target(w) \in Installations
       /\ \/ \E status \in View!Writes[Type(w)] :
                 /\ worker[w].pc = "failinst" => status = "error"
                 /\ Live(Target(w))
                 /\ Shown' = [Shown EXCEPT ![Target(w)] = status]
          \/ /\ Type(w) \in uninstall /\ worker[w].pc # "failinst"
             /\ Shown' = [Shown EXCEPT ![Target(w)] = "deleted"]

LEMMA SharedShow ==
    ASSUME TypeInv, NEW w \in Workers, NEW types \in SUBSET JobTypes,
           SharedStep(w, types)
    PROVE  ShowStep(w)
<1>w. \A t \in Creators : {"running", "error"} \subseteq View!Writes[t]
  BY DEF Creators, install, recreate, reconfigure, update, View!Writes
<1>1. CASE RecordContainers(w, types) /\ types \subseteq Creators
  <2>1. /\ worker[w].pc = "commit" /\ UNCHANGED job
        /\ Target(w) \in Installations /\ Type(w) \in Creators
    BY <1>1, SlotFacts DEF RecordContainers, At, TypeInv
  <2>2. CASE Live(Target(w))
    <3> DEFINE i == Target(w)
    <3>1. row' = [row EXCEPT ![i].status = IF worker[w].seen = "running" THEN @
                                           ELSE "running",
                             ![i].ids = CreatedIds(w)]
      BY <1>1, <2>2 DEF RecordContainers, WriteSuccess
    <3>2. \A k \in Installations : row[k] \in Row
      BY DEF TypeInv, TypeOK
    <3>3. /\ row'[i].status \in {row[i].status, "running"}
          /\ \A k \in Installations : k # i => row'[k] = row[k]
      BY <2>1, <3>1, <3>2 DEF TypeInv, TypeOK, Row
    <3>4. CASE row'[i].status = row[i].status
      BY <3>3, <3>4 DEF Shown, ShowStep
    <3>5. CASE row'[i].status = "running"
      <4>1. Shown' = [Shown EXCEPT ![i] = "running"]
        BY <2>1, <3>3, <3>5 DEF Shown
      <4> QED BY <1>w, <2>1, <2>2, <4>1 DEF ShowStep
    <3> QED BY <3>3, <3>4, <3>5
  <2>3. CASE ~Live(Target(w))
    BY <1>1, <2>3, ShownSame DEF RecordContainers, ShowStep
  <2> QED BY <2>2, <2>3
<1>2. CASE FailInstallation(w, types) /\ types \subseteq Creators
  <2>1. /\ worker[w].pc = "failinst" /\ UNCHANGED job
        /\ Target(w) \in Installations /\ Type(w) \in Creators
    BY <1>2, SlotFacts DEF FailInstallation, At, TypeInv
  <2>2. CASE row' = row
    BY <2>2, ShownSame DEF ShowStep
  <2>3. CASE row' # row
    <3>1. Live(Target(w)) /\ row' = [row EXCEPT ![Target(w)].status = "error"]
      BY <1>2, <2>3 DEF FailInstallation, WriteError
    <3>2. Shown' = [Shown EXCEPT ![Target(w)] = "error"]
      BY <2>1, <3>1, ShownMarked
    <3> QED BY <1>w, <2>1, <3>1, <3>2 DEF ShowStep
  <2> QED BY <2>2, <2>3
<1>3. CASE UNCHANGED row
  BY <1>3, ShownSame DEF ShowStep
<1> QED BY <1>1, <1>2, <1>3 DEF SharedStep, Begin, LoadRow, CreateContainer,
        StartContainer, ContainerReady, TaskFails, CompleteJob, Rollback,
        HandlerRaises, FailJob, FailJobAndRetry, RemoveOld, ClientFails

LEMMA OwnShow ==
    ASSUME TypeInv, NEW w \in Workers, OwnStep(w)
    PROVE  ShowStep(w)
<1>t. /\ install \in SUBSET JobTypes /\ uninstall \in SUBSET JobTypes
      /\ power \in SUBSET JobTypes
  BY DEF install, uninstall, power, JobTypes
<1>1. ASSUME NEW types \in SUBSET JobTypes, NEW status, NEW next,
             LoadAndMark(w, types, status, next),
             \A t \in types : status \in View!Writes[t]
      PROVE  ShowStep(w)
  <2>1. /\ worker[w].pc = "load" /\ UNCHANGED job /\ Type(w) \in types
        /\ Target(w) \in Installations
    BY <1>1, SlotFacts DEF LoadAndMark, At, TypeInv
  <2>2. CASE Live(Target(w))
    <3>1. Shown' = [Shown EXCEPT ![Target(w)] = status]
      BY <1>1, <2>1, <2>2, ShownMarked DEF LoadAndMark
    <3> QED BY <1>1, <2>1, <2>2, <3>1 DEF ShowStep
  <2>3. CASE ~Live(Target(w))
    BY <1>1, <2>3, ShownSame DEF LoadAndMark, ShowStep
  <2> QED BY <2>2, <2>3
<1>2. CASE InstallMark(w)
  <2>1. \A t \in install : "installing" \in View!Writes[t]
    BY DEF install, View!Writes
  <2> QED BY <1>1, <1>2, <1>t, <2>1 DEF InstallMark
<1>3. CASE UninstallMark(w)
  <2>1. \A t \in uninstall : "uninstalling" \in View!Writes[t]
    BY DEF uninstall, View!Writes
  <2> QED BY <1>1, <1>3, <1>t, <2>1 DEF UninstallMark
<1>4. CASE UninstallDelete(w)
  <2>1. /\ worker[w].pc = "flush" /\ UNCHANGED job /\ Type(w) \in uninstall
        /\ Target(w) \in Installations
    BY <1>4, <1>t, SlotFacts DEF UninstallDelete, At, TypeInv
  <2>2. CASE row' = [row EXCEPT ![Target(w)] = [FreeRow EXCEPT !.status = "deleted"]]
    <3>1. /\ row'[Target(w)].status = "deleted"
          /\ \A k \in Installations : k # Target(w) => row'[k] = row[k]
      BY <2>1, <2>2 DEF TypeInv, TypeOK, FreeRow
    <3>2. Shown' = [Shown EXCEPT ![Target(w)] = "deleted"]
      BY <2>1, <3>1 DEF Shown
    <3> QED BY <2>1, <3>2 DEF ShowStep
  <2>3. CASE UNCHANGED row
    BY <2>3, ShownSame DEF ShowStep
  <2> QED BY <1>4, <2>2, <2>3 DEF UninstallDelete
<1>5. CASE PowerRecord(w)
  <2>1. /\ worker[w].pc = "commit" /\ UNCHANGED job /\ Type(w) \in power
        /\ Target(w) \in Installations
    BY <1>5, <1>t, SlotFacts DEF PowerRecord, At, TypeInv
  <2>2. Aim(Type(w)) \in View!Writes[Type(w)]
    BY <2>1 DEF Aim, View!Writes, power
  <2>3. CASE UNCHANGED row
    BY <2>3, ShownSame DEF ShowStep
  <2>4. CASE Live(Target(w)) /\ row' = [row EXCEPT ![Target(w)].status = Aim(Type(w))]
    <3>1. Shown' = [Shown EXCEPT ![Target(w)] = Aim(Type(w))]
      BY <2>1, <2>4, ShownMarked
    <3> QED BY <2>1, <2>2, <2>4, <3>1 DEF ShowStep
  <2> QED BY <1>5, <2>3, <2>4 DEF PowerRecord
<1>6. CASE UNCHANGED row
  BY <1>6, ShownSame DEF ShowStep
<1> QED BY <1>2, <1>3, <1>4, <1>5, <1>6 DEF OwnStep, UpdatePull,
        UninstallContainers, UninstallVolumes, UninstallUnlink, StartContainers,
        StopContainers, SwitchStored, RestartContainers

\* A step of the view, or one that a client does not see.
ViewStep == View!ServerNext \/ UNCHANGED <<Shown, job>>

LEMMA ViewTask ==
    ASSUME TypeInv, TokenInv, StatusInv, NEW w \in Workers, SlotStep(w), ShowStep(w)
    PROVE  ViewStep
<1>1. ASSUME NEW j \in Jobs, View!TaskStepOf(j) PROVE ViewStep
  BY <1>1 DEF ViewStep, View!ServerNext
<1>2. CASE Takes(w)
  <2> PICK m \in queue :
          /\ worker[w].pc = "idle"
          /\ job' = [job EXCEPT ![m.job].status = "running", ![m.job].runs = @ + 1]
    BY <1>2 DEF Takes
  <2>1. UNCHANGED Shown
    BY DEF ShowStep
  <2>2. /\ m.job \in Jobs /\ job[m.job].status \in {"pending", "failed"}
        /\ job[m.job].runs \in Nat /\ job[m.job].runs <= MaxRetries(job[m.job].type)
    BY TokenTypes DEF StatusInv, TokenInv, TokenCount
  <2>3. job[m.job].runs < MaxRuns
    BY <2>2, PlatformAssumption DEF MaxRetries, MaxRuns
  <2> QED BY <1>1, <2>1, <2>2, <2>3 DEF View!TaskStepOf, View!Begin
<1> DEFINE j == worker[w].job
<1>3. ASSUME worker[w].pc # "idle"
      PROVE  /\ j \in Jobs /\ Inserted(j)
             /\ job[j].status = IF worker[w].pc = "failinst" THEN "failed"
                                ELSE "running"
  BY <1>3, TokenTypes DEF StatusInv, TokenInv, TokenCount
<1>4. ASSUME worker[w].pc # "idle", NEW status \in {"failed", "completed"},
             MarkedJob(w, status), job' # job,
             status = "completed" => worker[w].pc # "failinst"
      PROVE  ViewStep
  <2>1. UNCHANGED Shown
    BY <1>4 DEF ShowStep
  <2>2. job[j].status = "running"
    <3>1. CASE worker[w].pc = "failinst" /\ status = "failed"
      <4>1. job[j].status = "failed" /\ job[j] \in InsertedJob
        BY <1>3, <1>4, <3>1 DEF TypeInv, TypeOK, Job, FreeJob, Inserted
      <4>2. job' = job
        BY <1>4, <3>1, <4>1 DEF MarkedJob, TypeInv, TypeOK, InsertedJob
      <4> QED BY <1>4, <4>2
    <3> QED BY <1>3, <1>4, <3>1
  <2> QED BY <1>1, <1>3, <1>4, <2>1, <2>2 DEF MarkedJob, View!TaskStepOf, View!Ends,
             View!EndWork
<1>5. CASE UNCHANGED job
  <2>1. CASE UNCHANGED Shown
    BY <1>5, <2>1 DEF ViewStep
  <2>2. ASSUME ~UNCHANGED Shown PROVE ViewStep
    <3>1. worker[w].pc # "idle" /\ Target(w) \in Installations
      BY <2>2 DEF ShowStep
    <3>2. ASSUME NEW status \in View!Writes[Type(w)],
                 worker[w].pc = "failinst" => status = "error", Live(Target(w)),
                 Shown' = [Shown EXCEPT ![Target(w)] = status]
          PROVE  ViewStep
      <4>1. Type(w) \in JobTypes
        BY <1>3, <3>1 DEF Type, TypeInv, TypeOK, Job, FreeJob, InsertedJob, Inserted
      <4>2. status \in View!Statuses
        BY <4>1 DEF View!Statuses, View!Writes, JobTypes
      <4>3. View!Listed(Target(w))
        BY <3>1, <3>2 DEF Live, LiveStatus, Shown, View!Listed, View!Statuses, View!Writes
      <4>4. View!WriteStatus(j, status)
        BY <1>3, <1>5, <3>1, <3>2, <4>3 DEF View!WriteStatus, Type, Target
      <4> QED BY <1>1, <1>3, <3>1, <4>2, <4>4 DEF View!TaskStepOf
    <3>3. ASSUME Type(w) \in uninstall, worker[w].pc # "failinst",
                 Shown' = [Shown EXCEPT ![Target(w)] = "deleted"]
          PROVE  ViewStep
      <4>1. View!DeleteRow(j)
        BY <1>3, <1>5, <3>1, <3>3 DEF View!DeleteRow, Type, Target, uninstall
      <4> QED BY <1>1, <1>3, <3>1, <4>1 DEF View!TaskStepOf
    <3> QED BY <2>2, <3>2, <3>3 DEF ShowStep
  <2> QED BY <2>1, <2>2
<1> QED BY <1>2, <1>4, <1>5 DEF SlotStep, Works, Fails, Completes, GivesUp, Raises,
           Stays, Leaves

\* The service commits a job.
LEMMA ViewRequest ==
    ASSUME TypeInv, NEW j \in Jobs, NEW t \in JobTypes, NEW i \in Installations,
           InsertJob(j, t, i),
           IF t = "install"
           THEN Shown[i] = "free" /\ Shown' = [Shown EXCEPT ![i] = "pending"]
           ELSE /\ Live(i)
                /\ Shown' = IF t = "uninstall"
                            THEN [Shown EXCEPT ![i] = "uninstalling"] ELSE Shown
    PROVE  ViewStep
<1>1. job[j] = View!NoWork
  BY DEF InsertJob, NextJob, TypeInv, TypeOK, Job, FreeJob, InsertedJob, JobStatus,
     View!NoWork
<1>2. \A k \in Jobs : k < j => job[k] # View!NoWork
  BY DEF InsertJob, NextJob, View!NoWork
<1>3. t # "install" => View!Listed(i)
  BY DEF Live, LiveStatus, Shown, View!Listed, View!Statuses, View!Writes
<1>4. t \in DOMAIN View!Writes
  BY DEF JobTypes, View!Writes
<1>5. View!Request(j, t, i)
  BY <1>1, <1>2, <1>3 DEF InsertJob, View!Request
<1> QED BY <1>4, <1>5 DEF ViewStep, View!ServerNext

LEMMA ViewApi ==
    ASSUME TypeInv, ApiNext
    PROVE  ViewStep
<1>t. {"install", "uninstall", "start", "stop", "restart", "update", "reconfigure"}
          \subseteq JobTypes
  BY DEF JobTypes
<1>1. ASSUME NEW r \in Requests, NEW i \in Installations, NEW j \in Jobs,
             CreateInstallation(r, i, j)
      PROVE  ViewStep
  <2>1. /\ row[i].status = "free" /\ row'[i].status = "pending"
        /\ \A k \in Installations : k # i => row'[k] = row[k]
    BY <1>1 DEF CreateInstallation, NextInstallation, TypeInv, TypeOK
  <2>2. Shown[i] = "free" /\ Shown' = [Shown EXCEPT ![i] = "pending"]
    BY <2>1, ShownChanged DEF Shown
  <2> QED BY <1>1, <1>t, <2>2, ViewRequest DEF CreateInstallation
<1>2. ASSUME NEW i \in Installations, NEW j \in Jobs, Uninstall(i, j)
      PROVE  ViewStep
  <2>1. Shown' = [Shown EXCEPT ![i] = "uninstalling"]
    BY <1>2, ShownMarked DEF Uninstall
  <2> QED BY <1>2, <1>t, <2>1, ViewRequest DEF Uninstall
<1>3. ASSUME NEW i \in Installations, NEW j \in Jobs, NEW t \in JobTypes,
             RequestOperation(i, j, t)
      PROVE  ViewStep
  BY <1>3, ViewRequest, ShownSame DEF RequestOperation
<1>4. ASSUME NEW i \in Installations, NEW j \in Jobs, UpdateConfig(i, j)
      PROVE  ViewStep
  BY <1>4, <1>t, ViewRequest, ShownSame DEF UpdateConfig
<1>5. CASE UNCHANGED <<row, job>>
  BY <1>5, ShownSame DEF ViewStep
<1> QED BY <1>1, <1>2, <1>3, <1>4, <1>5 DEF ApiNext, CheckExisting, Delay, DelayFails

LEMMA ViewNext ==
    ASSUME TypeInv, TokenInv, StatusInv, MaxFaults = 0, [Next]_vars
    PROVE  ViewStep
<1>2. CASE UNCHANGED <<row, job>>
  BY <1>2, ShownSame DEF ViewStep
<1>1. ASSUME NEW w \in Workers, TaskStep(w) PROVE ViewStep
  <2>1. ASSUME NEW m \in queue, ClientFails(w, m) PROVE ViewStep
    BY <1>2, <2>1 DEF ClientFails
  <2> QED BY <1>1, <2>1, TaskStepCases, SharedSlotStep, OwnSlotStep, SharedShow,
             OwnShow, ViewTask
<1> QED BY <1>1, <1>2, ViewApi DEF Next, ReaperNext, ReaperReadIds, ReaperList,
        ReaperRemove, ReaperFails, reaperFrame, FaultNext, WorkerCrash, Redelivery,
        ChildLost, vars

\* Without faults the back end implements the abstract server that the pages
\* are modelled against: a client sees every job requested before it runs, sees
\* statuses written only by a job at work on that installation, and rows vanish
\* only under a running uninstall.
THEOREM ServerViewImplemented == MaxFaults = 0 /\ Spec => ImplementsServerView
<1> DEFINE Inv == TypeInv /\ TokenInv /\ StatusInv
<1> SUFFICES ASSUME MaxFaults = 0 PROVE Spec => ImplementsServerView
  OBVIOUS
<1>1. Init => Inv
  BY TypeInit, TokenInit, StatusInit
<1>2. Inv /\ [Next]_vars => Inv'
  BY TypeStep, JobNext, TokenStep, StatusStep
<1>3. Init => View!ServerInit
  BY DEF Init, View!ServerInit, View!ServerStarts, View!NoWork, Shown, FreeRow, FreeJob
<1>4. Inv /\ [Next]_vars => [View!ServerNext]_View!serverVars
  BY ViewNext DEF ViewStep, View!serverVars
<1> QED BY <1>1, <1>2, <1>3, <1>4, PTL DEF Spec, ImplementsServerView, View!ServerSpec
=============================================================================
