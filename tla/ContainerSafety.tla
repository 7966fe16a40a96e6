-------------------------- MODULE ContainerSafety ---------------------------
(***************************************************************************)
(* Theorems about containers: which run made them, which of them are       *)
(* recorded for an installation, and which may be up.                      *)
(***************************************************************************)
EXTENDS JobSafety

-----------------------------------------------------------------------------
(* What the step of a slot does besides moving its job.                    *)

Busy(w) == worker[w].pc # "idle"

\* The ids its session holds: none, those it held, or those of the row.  A task
\* that has recorded its containers has only the completion of its job left.
HeldIds(w) ==
    /\ \/ worker'[w].ids \in {{}, worker[w].ids}
       \/ Busy(w) /\ worker'[w].ids = row[Target(w)].ids
    /\ worker[w].pc = "finish" => worker'[w].pc = "idle"

\* The ids a row keeps: those it had, none, or those of the run that commits.
KeptIds(w) ==
    \A i \in Installations :
        \/ row'[i].ids \in {row[i].ids, {}}
        \/ /\ At(w, "commit", Creators) /\ Target(w) = i
           /\ row'[i].ids = CreatedIds(w)
           /\ worker'[w].pc = "finish"

\* Where the loop over the services stands.
LoopStands(w) ==
    /\ worker'[w].svc = worker[w].svc \/ worker'[w].pc \in {"idle", "load", "ready"}
    /\ worker'[w].pc \in {"commit", "finish"} /\ Type(w) \in Creators =>
           \/ worker[w].pc = "commit"
           \/ worker'[w].svc = NumServices + 1

WorkStep(w) == HeldIds(w) /\ KeptIds(w) /\ LoopStands(w)

\* A slot that only moves on keeps the rest of its record.
LEMMA GotoFields ==
    ASSUME TypeInv, NEW w \in Workers, Busy(w), NEW pc, Goto(w, pc)
    PROVE  /\ worker'[w].pc = pc /\ worker'[w].ids = worker[w].ids
           /\ worker'[w].svc = worker[w].svc
           /\ worker[w] \in BusySlot
<1>1. worker[w] \in BusySlot
  BY DEF Busy, TypeInv, TypeOK, Slot, IdleSlot
<1>2. worker'[w] = [worker[w] EXCEPT !.pc = pc]
  BY DEF Goto, TypeInv, TypeOK
<1> QED BY <1>1, <1>2 DEF BusySlot

LEMMA GotoWorkStep ==
    ASSUME TypeInv, NEW w \in Workers, Busy(w), worker[w].pc # "finish",
           NEW pc, Goto(w, pc), KeptIds(w),
           pc \in {"commit", "finish"} /\ Type(w) \in Creators =>
               worker[w].pc = "commit" \/ worker[w].svc = NumServices + 1
    PROVE  WorkStep(w)
  BY GotoFields DEF WorkStep, HeldIds, LoopStands

\* A step that leaves the rows alone.
LEMMA RowsKept == ASSUME NEW w, UNCHANGED row PROVE KeptIds(w)
  BY DEF KeptIds

\* A step that only marks a row.
LEMMA RowMarkedKept ==
    ASSUME TypeInv, NEW w, NEW i \in Installations, NEW status,
           row' = [row EXCEPT ![i].status = status]
    PROVE  KeptIds(w)
<1>1. \A k \in Installations : row[k] \in Row
  BY DEF TypeInv, TypeOK
<1>2. \A k \in Installations : row'[k].ids = row[k].ids
  BY <1>1 DEF TypeInv, TypeOK, Row
<1> QED BY <1>2 DEF KeptIds

LEMMA SharedWorkStep ==
    ASSUME TypeInv, NEW w \in Workers, NEW types \in SUBSET JobTypes,
           SharedStep(w, types)
    PROVE  WorkStep(w)
<1>b. ASSUME Busy(w) PROVE worker[w] \in BusySlot
  BY <1>b DEF Busy, TypeInv, TypeOK, Slot, IdleSlot
<1>i. IdleSlot.pc = "idle" /\ IdleSlot.ids = {}
  BY DEF IdleSlot
<1>l. ASSUME worker' = [worker EXCEPT ![w] = IdleSlot], KeptIds(w)
      PROVE  WorkStep(w)
  <2>1. worker'[w] = IdleSlot
    BY <1>l DEF TypeInv, TypeOK
  <2> QED BY <1>i, <1>l, <2>1 DEF WorkStep, HeldIds, LoopStands
<1>1. ASSUME NEW m \in queue, Begin(w, m, types)
      PROVE  WorkStep(w)
  <2> DEFINE slot == [IdleSlot EXCEPT !.pc = "load", !.job = m.job,
                                      !.run = job[m.job].runs + 1,
                                      !.retries = m.retries]
  <2>1. worker'[w] = slot /\ worker[w].pc = "idle"
    BY <1>1 DEF Begin, TypeInv, TypeOK
  <2>2. slot.pc = "load" /\ slot.ids = {}
    BY DEF IdleSlot
  <2> HIDE DEF slot
  <2> QED BY <1>1, <2>1, <2>2, RowsKept DEF Begin, WorkStep, HeldIds, LoopStands
<1>2. ASSUME NEW next \in {"remove", "pull", "power"}, LoadRow(w, types, next)
      PROVE  WorkStep(w)
  <2> DEFINE i == Target(w)
             slot == [worker[w] EXCEPT !.pc = next, !.seen = row[i].status,
                                       !.ids = row[i].ids]
  <2>1. Busy(w) /\ worker[w].pc = "load" /\ worker[w] \in BusySlot
    BY <1>b, <1>2 DEF Busy, LoadRow, At
  <2>2. CASE Live(i)
    <3>1. worker'[w] = slot
      BY <1>2, <2>2 DEF LoadRow, TypeInv, TypeOK
    <3>2. /\ slot.pc = next /\ slot.ids = row[i].ids
          /\ slot.svc = worker[w].svc
      BY <2>1 DEF BusySlot
    <3> HIDE DEF slot
    <3> QED BY <1>2, <2>1, <3>1, <3>2, RowsKept DEF LoadRow, WorkStep, HeldIds,
               LoopStands
  <2>3. CASE ~Live(i)
    BY <1>2, <2>1, <2>3, GotoWorkStep, RowsKept DEF LoadRow
  <2> QED BY <2>2, <2>3
<1>3. CASE CreateContainer(w, types) \/ RemoveOld(w, types)
  BY <1>3, GotoWorkStep, RowsKept DEF CreateContainer, RemoveOld, At, Busy
<1>4. CASE StartContainer(w, types)
  <2> DEFINE slot == [worker[w] EXCEPT !.pc = "ready", !.svc = @ + 1]
  <2>1. Busy(w) /\ worker[w].pc = "start" /\ worker[w] \in BusySlot
    BY <1>b, <1>4 DEF Busy, StartContainer, At
  <2>2. worker'[w] = slot
    BY <1>4 DEF StartContainer, TypeInv, TypeOK
  <2>3. slot.pc = "ready" /\ slot.ids = worker[w].ids
    BY <2>1 DEF BusySlot
  <2> HIDE DEF slot
  <2> QED BY <1>4, <2>1, <2>2, <2>3, RowsKept DEF StartContainer, WorkStep, HeldIds,
             LoopStands
<1>5. CASE ContainerReady(w, types)
  <2>1. Busy(w) /\ worker[w].pc = "ready" /\ worker[w] \in BusySlot
    BY <1>b, <1>5 DEF Busy, ContainerReady, At
  <2>2. AfterReady(w) = "commit" => worker[w].svc = NumServices + 1
    BY <2>1, PlatformAssumption DEF AfterReady, BusySlot
  <2>3. AfterReady(w) # "finish"
    BY DEF AfterReady
  <2> QED BY <1>5, <2>1, <2>2, <2>3, GotoWorkStep, RowsKept DEF ContainerReady
<1>6. ASSUME NEW pcs \in SUBSET PC, NEW handler \in {"undo", "failjob"},
             TaskFails(w, types, pcs, handler), pcs \subseteq Failing
      PROVE  WorkStep(w)
  <2>1. Busy(w) /\ worker[w].pc # "finish"
    BY <1>6 DEF TaskFails, Failing, Busy
  <2> QED BY <1>6, <2>1, GotoWorkStep, RowsKept DEF TaskFails
<1>7. CASE RecordContainers(w, types) /\ types \subseteq Creators
  <2> DEFINE i == Target(w)
             done == [worker[w] EXCEPT !.pc = "finish", !.seen = "running"]
             gone == [worker[w] EXCEPT !.pc = "undo", !.dead = TRUE]
  <2>1. /\ Busy(w) /\ worker[w].pc = "commit" /\ worker[w] \in BusySlot
        /\ At(w, "commit", Creators) /\ i \in Installations
    BY <1>b, <1>7, SlotFacts DEF Busy, RecordContainers, At, TypeInv
  <2>2. CASE Live(i)
    <3>1. worker'[w] = done
      BY <1>7, <2>2 DEF RecordContainers, TypeInv, TypeOK
    <3>2. /\ done.pc = "finish" /\ done.ids = worker[w].ids
          /\ done.svc = worker[w].svc
      BY <2>1 DEF BusySlot
    <3>3. row' = [row EXCEPT ![i].status = IF worker[w].seen = "running" THEN @
                                           ELSE "running",
                             ![i].ids = CreatedIds(w)]
      BY <1>7, <2>2 DEF RecordContainers, WriteSuccess
    <3>4. row[i] \in Row
      BY <2>1 DEF TypeInv, TypeOK
    <3>5. row'[i].ids = CreatedIds(w) /\ \A k \in Installations : k # i => row'[k] = row[k]
      BY <2>1, <3>3, <3>4 DEF TypeInv, TypeOK, Row
    <3> HIDE DEF done
    <3>6. KeptIds(w)
      BY <2>1, <3>1, <3>2, <3>5 DEF KeptIds
    <3> QED BY <2>1, <3>1, <3>2, <3>6 DEF WorkStep, HeldIds, LoopStands
  <2>3. CASE ~Live(i)
    <3>1. worker'[w] = gone
      BY <1>7, <2>3 DEF RecordContainers, TypeInv, TypeOK
    <3>2. /\ gone.pc = "undo" /\ gone.ids = worker[w].ids
          /\ gone.svc = worker[w].svc
      BY <2>1 DEF BusySlot
    <3>3. KeptIds(w)
      BY <1>7, <2>3, RowsKept DEF RecordContainers
    <3> HIDE DEF gone
    <3> QED BY <2>1, <3>1, <3>2, <3>3 DEF WorkStep, HeldIds, LoopStands
  <2> QED BY <2>2, <2>3
<1>8. CASE CompleteJob(w, types) \/ HandlerRaises(w, types) \/ FailJobAndRetry(w, types)
  BY <1>8, <1>l, RowsKept DEF CompleteJob, HandlerRaises, FailJobAndRetry
<1>9. CASE Rollback(w, types) \/ FailJob(w, types)
  BY <1>9, GotoWorkStep, RowsKept DEF Rollback, FailJob, At, Busy
<1>10. CASE FailInstallation(w, types)
  <2>1. Target(w) \in Installations
    BY <1>10, SlotFacts DEF FailInstallation, At, TypeInv
  <2>2. KeptIds(w)
    BY <1>10, <2>1, RowMarkedKept, RowsKept DEF FailInstallation, WriteError
  <2> QED BY <1>10, <1>l, <2>2 DEF FailInstallation
<1>11. ASSUME NEW m \in queue, ClientFails(w, m) PROVE WorkStep(w)
  BY <1>11, RowsKept DEF ClientFails, WorkStep, HeldIds, LoopStands
<1> QED BY <1>1, <1>2, <1>3, <1>4, <1>5, <1>6, <1>7, <1>8, <1>9, <1>10, <1>11
        DEF SharedStep

LEMMA OwnWorkStep ==
    ASSUME TypeInv, NEW w \in Workers, OwnStep(w)
    PROVE  WorkStep(w)
<1>t. /\ install \in SUBSET JobTypes /\ uninstall \in SUBSET JobTypes
      /\ power \in SUBSET JobTypes
      /\ \A t \in uninstall \cup power : t \notin Creators
  BY DEF install, uninstall, power, JobTypes, Creators, recreate, reconfigure, update
<1>b. ASSUME Busy(w) PROVE worker[w] \in BusySlot
  BY <1>b DEF Busy, TypeInv, TypeOK, Slot, IdleSlot
<1>1. ASSUME NEW types \in SUBSET JobTypes, NEW status, NEW next \in {"create", "remove"},
             LoadAndMark(w, types, status, next)
      PROVE  WorkStep(w)
  <2> DEFINE i == Target(w)
             slot == [worker[w] EXCEPT !.pc = next, !.seen = status,
                                       !.ids = row[i].ids]
  <2>1. /\ Busy(w) /\ worker[w].pc = "load" /\ worker[w] \in BusySlot
        /\ i \in Installations
    BY <1>b, <1>1, SlotFacts DEF Busy, LoadAndMark, At, TypeInv
  <2>2. CASE Live(i)
    <3>1. worker'[w] = slot
      BY <1>1, <2>2 DEF LoadAndMark, TypeInv, TypeOK
    <3>2. /\ slot.pc = next /\ slot.ids = row[i].ids
          /\ slot.svc = worker[w].svc
      BY <2>1 DEF BusySlot
    <3>3. KeptIds(w)
      BY <1>1, <2>1, <2>2, RowMarkedKept DEF LoadAndMark
    <3> HIDE DEF slot
    <3> QED BY <2>1, <3>1, <3>2, <3>3 DEF WorkStep, HeldIds, LoopStands
  <2>3. CASE ~Live(i)
    BY <1>1, <2>1, <2>3, GotoWorkStep, RowsKept DEF LoadAndMark
  <2> QED BY <2>2, <2>3
<1>2. CASE InstallMark(w) \/ UninstallMark(w)
  BY <1>1, <1>2, <1>t DEF InstallMark, UninstallMark
<1>3. CASE UpdatePull(w) \/ UninstallContainers(w) \/ UninstallVolumes(w)
  BY <1>3, GotoWorkStep, RowsKept DEF UpdatePull, UninstallContainers, UninstallVolumes,
     At, Busy
<1>7. CASE UninstallUnlink(w)
  <2> DEFINE slot == [worker[w] EXCEPT !.pc = "flush",
                                       !.unlinked = {j \in Jobs : job[j].inst = Target(w)}]
  <2>1. Busy(w) /\ worker[w].pc = "delete" /\ worker[w] \in BusySlot
    BY <1>b, <1>7 DEF UninstallUnlink, At, Busy
  <2>2. worker'[w] = slot
    BY <1>7 DEF UninstallUnlink, TypeInv, TypeOK
  <2>3. slot.pc = "flush" /\ slot.ids = worker[w].ids /\ slot.svc = worker[w].svc
    BY <2>1 DEF BusySlot
  <2> HIDE DEF slot
  <2> QED BY <1>7, <2>1, <2>2, <2>3, RowsKept DEF UninstallUnlink, WorkStep, HeldIds,
             LoopStands
<1>4. CASE UninstallDelete(w)
  <2> DEFINE slot == [worker[w] EXCEPT !.pc = "failjob", !.dead = TRUE]
  <2>1. /\ Busy(w) /\ worker[w].pc = "flush" /\ Type(w) \in uninstall
        /\ worker[w] \in BusySlot
    BY <1>b, <1>4 DEF UninstallDelete, At, Busy
  <2>2. CASE Live(Target(w)) /\ Referenced(w)
    <3>1. worker'[w] = slot /\ UNCHANGED row
      BY <1>4, <2>2 DEF UninstallDelete, TypeInv, TypeOK
    <3>2. /\ slot.pc = "failjob" /\ slot.ids = worker[w].ids
          /\ slot.svc = worker[w].svc
      BY <2>1 DEF BusySlot
    <3> HIDE DEF slot
    <3> QED BY <2>1, <3>1, <3>2, RowsKept DEF WorkStep, HeldIds, LoopStands
  <2>3. CASE ~(Live(Target(w)) /\ Referenced(w))
    <3>1. Target(w) \in Installations
      BY <1>4, <1>t, SlotFacts DEF UninstallDelete, At, TypeInv
    <3>2. [FreeRow EXCEPT !.status = "deleted"].ids = {}
      BY DEF FreeRow
    <3>3. Goto(w, "finish") /\ KeptIds(w)
      BY <1>4, <2>3, <3>1, <3>2 DEF UninstallDelete, KeptIds, TypeInv, TypeOK
    <3> QED BY <1>t, <2>1, <3>3, GotoWorkStep
  <2> QED BY <2>2, <2>3
<1>5. CASE StartContainers(w) \/ StopContainers(w) \/ RestartContainers(w)
  <2>1. /\ Busy(w) /\ worker[w].pc = "power" /\ Type(w) \in power
        /\ Goto(w, "commit") /\ UNCHANGED row
    BY <1>5 DEF StartContainers, StopContainers, RestartContainers, SwitchStored, At,
       Busy, power
  <2> QED BY <1>t, <2>1, GotoWorkStep, RowsKept
<1>6. CASE PowerRecord(w)
  <2> DEFINE i == Target(w)
             slot == [worker[w] EXCEPT !.pc = "failjob", !.dead = TRUE]
  <2>1. /\ Busy(w) /\ worker[w].pc = "commit" /\ worker[w] \in BusySlot
        /\ i \in Installations /\ Type(w) \in power
    BY <1>b, <1>6, <1>t, SlotFacts DEF Busy, PowerRecord, At, TypeInv
  <2>2. KeptIds(w)
    BY <1>6, <2>1, RowMarkedKept, RowsKept DEF PowerRecord
  <2>3. CASE Goto(w, "finish")
    BY <2>1, <2>2, <2>3, GotoWorkStep
  <2>4. CASE ~Goto(w, "finish")
    <3>1. worker'[w] = slot
      BY <1>6, <2>4 DEF PowerRecord, TypeInv, TypeOK
    <3>2. /\ slot.pc = "failjob" /\ slot.ids = worker[w].ids
          /\ slot.svc = worker[w].svc
      BY <2>1 DEF BusySlot
    <3> HIDE DEF slot
    <3> QED BY <2>1, <2>2, <3>1, <3>2 DEF WorkStep, HeldIds, LoopStands
  <2> QED BY <2>3, <2>4
<1> QED BY <1>2, <1>3, <1>4, <1>5, <1>6, <1>7 DEF OwnStep

-----------------------------------------------------------------------------
(* Where the containers after a step of a slot come from.                  *)

\* It is there already, and is switched on by the start of its service or by a
\* task that loaded its id from a row.
Stood(w, c) ==
    \E d \in containers :
        /\ d.id = c.id /\ d.inst = c.inst
        /\ c.up => \/ d.up
                   \/ Busy(w) /\ worker[w].pc = "power" /\ c.id \in worker[w].ids
                   \/ /\ worker[w].pc = "start" /\ c.id = OwnId(w, worker[w].svc)
                      /\ worker'[w].pc = "ready"
                      /\ worker'[w].svc = worker[w].svc + 1

\* It is created, down, for the service the loop has come to.
Made(w, c) ==
    /\ At(w, "create", Creators) /\ worker'[w].pc = "start"
    /\ c.inst = Target(w) /\ c.id = OwnId(w, worker[w].svc) /\ ~c.up

Origin(w) == \A c \in containers' : Stood(w, c) \/ Made(w, c)

LEMMA StoodAll ==
    ASSUME NEW w, containers' \subseteq containers
    PROVE  Origin(w)
  BY DEF Origin, Stood

\* Switching changes nothing but whether a container is up.
LEMMA SwitchedFields ==
    ASSUME TypeInv, NEW c \in containers, NEW up \in BOOLEAN
    PROVE  /\ [c EXCEPT !.up = up].id = c.id
           /\ [c EXCEPT !.up = up].inst = c.inst
           /\ [c EXCEPT !.up = up].up = up
<1>1. c \in Container
  BY DEF TypeInv, TypeOK
<1> QED BY <1>1 DEF Container

LEMMA SharedOrigin ==
    ASSUME TypeInv, NEW w \in Workers, NEW types \in SUBSET JobTypes,
           SharedStep(w, types)
    PROVE  Origin(w)
<1>1. CASE CreateContainer(w, types) /\ types \subseteq Creators
  <2> DEFINE c == [inst |-> Target(w), id |-> OwnId(w, worker[w].svc), up |-> FALSE]
  <2>1. /\ Busy(w) /\ At(w, "create", Creators) /\ Goto(w, "start")
        /\ containers' = containers \cup {c}
    BY <1>1 DEF CreateContainer, At, Busy
  <2>2. worker'[w].pc = "start"
    BY <2>1, GotoFields
  <2>3. c.inst = Target(w) /\ c.id = OwnId(w, worker[w].svc) /\ ~c.up
    OBVIOUS
  <2> HIDE DEF c
  <2> QED BY <2>1, <2>2, <2>3 DEF Origin, Stood, Made
<1>2. CASE StartContainer(w, types)
  <2> DEFINE mine == ById({OwnId(w, worker[w].svc)})
             slot == [worker[w] EXCEPT !.pc = "ready", !.svc = @ + 1]
  <2>1. /\ worker[w].pc = "start"
        /\ containers' = Switched(mine, TRUE)
    BY <1>2 DEF StartContainer, At
  <2>2. worker[w] \in BusySlot /\ worker'[w] = slot
    BY <1>2, <2>1 DEF StartContainer, TypeInv, TypeOK, Slot, IdleSlot
  <2>3. slot.pc = "ready" /\ slot.svc = worker[w].svc + 1
    BY <2>2 DEF BusySlot
  <2> HIDE DEF slot
  <2>4. ASSUME NEW c \in containers' PROVE Stood(w, c)
    <3>1. CASE c \in containers
      BY <3>1 DEF Stood
    <3>2. CASE c \notin containers
      <4>1. PICK d \in mine : c = [d EXCEPT !.up = TRUE]
        BY <2>1, <2>4, <3>2 DEF Switched
      <4>2. d \in containers /\ d.id = OwnId(w, worker[w].svc)
        BY <4>1 DEF ById
      <4>3. c.id = d.id /\ c.inst = d.inst
        BY <4>1, <4>2, SwitchedFields
      <4> QED BY <2>1, <2>2, <2>3, <4>2, <4>3 DEF Stood
    <3> QED BY <3>1, <3>2
  <2> QED BY <2>4 DEF Origin
<1>3. CASE containers' \subseteq containers
  BY <1>3, StoodAll
<1>4. CASE Rollback(w, types) \/ RemoveOld(w, types)
  BY <1>3, <1>4 DEF Rollback, RemoveCreated, RemoveOld, RemoveInstallationContainers
<1> QED BY <1>1, <1>2, <1>3, <1>4 DEF SharedStep, ClientFails, Begin, LoadRow,
           ContainerReady, TaskFails, RecordContainers, CompleteJob, HandlerRaises, FailJob,
           FailInstallation, FailJobAndRetry

LEMMA OwnOrigin ==
    ASSUME TypeInv, NEW w \in Workers, OwnStep(w)
    PROVE  Origin(w)
<1>1. CASE containers' \subseteq containers
  BY <1>1, StoodAll
<1>2. ASSUME NEW up \in BOOLEAN, SwitchStored(w, up), worker[w].pc = "power"
      PROVE  Origin(w)
  <2>1. PICK cs \in Reached(ById(worker[w].ids)) : containers' = Switched(cs, up)
    BY <1>2 DEF SwitchStored
  <2>2. cs \subseteq ById(worker[w].ids)
    BY DEF Reached
  <2>3. ASSUME NEW c \in containers' PROVE Stood(w, c)
    <3>1. CASE c \in containers
      BY <3>1 DEF Stood
    <3>2. CASE c \notin containers
      <4>1. PICK d \in cs : c = [d EXCEPT !.up = up]
        BY <2>1, <2>3, <3>2 DEF Switched
      <4>2. d \in containers /\ d.id \in worker[w].ids
        BY <2>2, <4>1 DEF ById
      <4>3. c.id = d.id /\ c.inst = d.inst
        BY <4>1, <4>2, SwitchedFields
      <4> QED BY <1>2, <4>2, <4>3 DEF Stood, Busy
    <3> QED BY <3>1, <3>2
  <2> QED BY <2>3 DEF Origin
<1>3. CASE StartContainers(w) \/ StopContainers(w)
  BY <1>2, <1>3 DEF StartContainers, StopContainers, At
<1>4. CASE RestartContainers(w)
  <2> DEFINE mine == ById(worker[w].ids)
  <2>1. PICK off \in Reached(mine), on \in Reached(mine) :
            containers' = (containers \ mine)
               \cup {[c EXCEPT !.up = c \in on \/ (c.up /\ c \notin off)] :
                         c \in mine}
    BY <1>4 DEF RestartContainers
  <2>2. worker[w].pc = "power"
    BY <1>4 DEF RestartContainers, At
  <2>3. ASSUME NEW c \in containers' PROVE Stood(w, c)
    <3>1. CASE c \in containers
      BY <3>1 DEF Stood
    <3>2. CASE c \notin containers
      <4>1. PICK d \in mine : c = [d EXCEPT !.up = d \in on \/ (d.up /\ d \notin off)]
        BY <2>1, <2>3, <3>2
      <4>2. d \in containers /\ d.id \in worker[w].ids
        BY <4>1 DEF ById
      <4>3. (d \in on \/ (d.up /\ d \notin off)) \in BOOLEAN
        OBVIOUS
      <4>4. c.id = d.id /\ c.inst = d.inst
        BY <4>1, <4>2, <4>3, SwitchedFields
      <4> QED BY <2>2, <4>2, <4>4 DEF Stood, Busy
    <3> QED BY <3>1, <3>2
  <2> QED BY <2>3 DEF Origin
<1>5. CASE UninstallContainers(w)
  BY <1>1, <1>5 DEF UninstallContainers, RemoveInstallationContainers
<1> QED BY <1>1, <1>3, <1>4, <1>5 DEF OwnStep, InstallMark, UninstallMark, LoadAndMark,
           UpdatePull, UninstallVolumes, UninstallUnlink, UninstallDelete, PowerRecord

-----------------------------------------------------------------------------
(* What any step does to runs and containers.                              *)

\* The step of a slot, in the terms of the invariants below.
RunStep(w) == SlotStep(w) /\ WorkStep(w) /\ Origin(w)

\* Steps that execute no task: what is executed goes on, or is lost.
Elsewhere ==
    /\ \A j \in Jobs : Inserted(j) => job'[j] = job[j]
    /\ \A w \in Workers : worker'[w] = worker[w] \/ worker'[w].pc = "idle"
    /\ \A i \in Installations : row'[i].ids \in {row[i].ids, {}}
    /\ containers' \subseteq containers

\* A message that is used up before its task begins moves nothing.
LostStep(w) == \E m \in queue : ClientFails(w, m)

LEMMA LostElsewhere ==
    ASSUME NEW w, LostStep(w)
    PROVE  Elsewhere /\ UNCHANGED <<row, worker, containers>>
  BY DEF LostStep, ClientFails, Elsewhere

LEMMA TaskRuns ==
    ASSUME TypeInv, NEW w \in Workers, TaskStep(w), ~LostStep(w)
    PROVE  RunStep(w)
  BY TaskStepCases, SharedSlotStep, OwnSlotStep, SharedWorkStep, OwnWorkStep,
     SharedOrigin, OwnOrigin DEF RunStep, LostStep

LEMMA RunNext ==
    ASSUME TypeInv, [Next]_vars
    PROVE  Elsewhere \/ \E w \in Workers : TaskStep(w) /\ RunStep(w)
<1>1. ASSUME NEW w \in Workers, TaskStep(w) PROVE Elsewhere \/ RunStep(w)
  BY <1>1, TaskRuns, LostElsewhere
<1>2. CASE UNCHANGED <<job, worker, row>> /\ containers' \subseteq containers
  BY <1>2 DEF Elsewhere
<1>3. ASSUME NEW j \in Jobs, NEW t, NEW i, InsertJob(j, t, i)
      PROVE  \A k \in Jobs : Inserted(k) => job'[k] = job[k]
  BY <1>3 DEF InsertJob, NextJob, Inserted, TypeInv, TypeOK
<1>4. ASSUME NEW r \in Requests, NEW i \in Installations, NEW j \in Jobs,
             CreateInstallation(r, i, j)
      PROVE  Elsewhere
  <2>1. \A k \in Installations : row'[k].ids \in {row[k].ids, {}}
    BY <1>4 DEF CreateInstallation, TypeInv, TypeOK
  <2> QED BY <1>3, <1>4, <2>1 DEF CreateInstallation, Elsewhere, apiFrame
<1>5. ASSUME NEW i \in Installations, NEW j \in Jobs, Uninstall(i, j)
      PROVE  Elsewhere
  <2>1. \A k \in Installations : row[k] \in Row
    BY DEF TypeInv, TypeOK
  <2>2. \A k \in Installations : row'[k].ids \in {row[k].ids, {}}
    BY <1>5, <2>1 DEF Uninstall, TypeInv, TypeOK, Row
  <2> QED BY <1>3, <1>5, <2>2 DEF Uninstall, Elsewhere, apiFrame
<1>6. ASSUME NEW i \in Installations, NEW j \in Jobs,
             (\E t \in JobTypes : RequestOperation(i, j, t)) \/ UpdateConfig(i, j)
      PROVE  Elsewhere
  BY <1>3, <1>6 DEF RequestOperation, UpdateConfig, Elsewhere, apiFrame
<1>7. CASE ApiNext
  <2>1. CASE \E r \in Requests, a \in Apps : CheckExisting(r, a)
    BY <1>2, <2>1 DEF CheckExisting, apiFrame
  <2>2. CASE \E j \in Jobs : Delay(j) \/ DelayFails(j)
    BY <1>2, <2>2 DEF Delay, DelayFails, apiFrame
  <2> QED BY <1>4, <1>5, <1>6, <1>7, <2>1, <2>2 DEF ApiNext
<1>8. CASE ReaperNext
  BY <1>2, <1>8 DEF ReaperNext, ReaperReadIds, ReaperList, ReaperRemove,
     ReaperFails, reaperFrame
<1>9. CASE FaultNext
  <2> PICK w \in Workers : WorkerCrash(w) \/ Redelivery(w) \/ ChildLost(w)
    BY <1>9 DEF FaultNext
  <2>1. \A v \in Workers : worker'[v] = worker[v] \/ worker'[v].pc = "idle"
    BY DEF WorkerCrash, Redelivery, ChildLost, taskFrame, TypeInv, TypeOK, IdleSlot
  <2> QED BY <2>1 DEF WorkerCrash, Redelivery, ChildLost, Elsewhere
<1>10. CASE UNCHANGED vars
  BY <1>2, <1>10 DEF vars
<1> QED BY <1>1, <1>7, <1>8, <1>9, <1>10 DEF Next

\* An inserted job keeps its type and its installation, and its runs only grow.
JobsKept ==
    \A j \in Jobs :
        Inserted(j) => /\ Inserted(j)'
                       /\ job'[j].inst = job[j].inst /\ job'[j].type = job[j].type
                       /\ job[j].runs <= job'[j].runs

\* A free slot begins the next run of a job.
NewRun(w, j) ==
    /\ ~Busy(w) /\ Inserted(j)
    /\ worker'[w].pc = "load" /\ worker'[w].job = j
    /\ worker'[w].run = job[j].runs + 1
    /\ job'[j].runs = job[j].runs + 1

GoesOn(w) ==
    /\ Busy(w) /\ worker'[w].pc # "idle"
    /\ worker'[w].job = worker[w].job /\ worker'[w].run = worker[w].run

LEMMA SlotMoves ==
    ASSUME TypeInv, TypeInv', NEW w \in Workers, SlotStep(w),
           Busy(w) => Inserted(worker[w].job)
    PROVE  /\ JobsKept
           /\ \A v \in Workers : v # w => worker'[v] = worker[v]
           /\ \/ worker'[w].pc = "idle"
              \/ GoesOn(w)
              \/ \E j \in Jobs : NewRun(w, j)
<1> DEFINE Goal == /\ JobsKept
                   /\ \A v \in Workers : v # w => worker'[v] = worker[v]
                   /\ \/ worker'[w].pc = "idle"
                      \/ GoesOn(w)
                      \/ \E j \in Jobs : NewRun(w, j)
<1>0. \A j \in Jobs : job[j].runs \in Nat
  BY TokenTypes
<1>1. ASSUME Stays(w), UNCHANGED job \/ MarkedJob(w, "failed") PROVE Goal
  <2>1. JobsKept
    BY <1>0, <1>1, MarkedFields, TokenTypes DEF JobsKept, Stays, Inserted, JobStatus, Busy
  <2> QED BY <1>1, <2>1, StaysFields DEF Stays, GoesOn, Busy
<1>2. ASSUME Leaves(w),
             UNCHANGED job \/ MarkedJob(w, "failed") \/ MarkedJob(w, "completed")
      PROVE  Goal
  <2>1. JobsKept
    BY <1>0, <1>2, MarkedFields, TokenTypes DEF JobsKept, Leaves, Inserted, JobStatus, Busy
  <2> QED BY <1>2, <2>1, LeavesFields
<1>3. CASE Takes(w)
  <2> PICK m \in queue :
          /\ worker[w].pc = "idle"
          /\ job' = [job EXCEPT ![m.job].status = "running", ![m.job].runs = @ + 1]
          /\ worker' = [worker EXCEPT ![w] = worker'[w]]
          /\ worker'[w].pc = "load" /\ worker'[w].job = m.job
          /\ worker'[w].run = job[m.job].runs + 1
    BY <1>3 DEF Takes
  <2>1. m.job \in Jobs /\ job[m.job] \in Job /\ job'[m.job] \in Job
    BY TokenTypes DEF TypeInv, TypeOK
  <2>2. Inserted(m.job)
    <3> SUFFICES ASSUME job[m.job] = FreeJob PROVE FALSE
      BY <2>1 DEF Inserted, Job, InsertedJob, JobStatus
    <3>1. job'[m.job].type = "none" /\ job'[m.job].status = "running"
      BY <2>1 DEF TypeInv, TypeOK, FreeJob
    <3> QED BY <2>1, <3>1 DEF Job, FreeJob, InsertedJob, JobTypes
  <2>3. job[m.job] \in InsertedJob
    BY <2>1, <2>2 DEF Inserted, Job, FreeJob
  <2>4. /\ job'[m.job].runs = job[m.job].runs + 1
        /\ job'[m.job].inst = job[m.job].inst /\ job'[m.job].type = job[m.job].type
        /\ job'[m.job].status = "running"
        /\ \A k \in Jobs : k # m.job => job'[k] = job[k]
    BY <2>1, <2>3 DEF TypeInv, TypeOK, InsertedJob
  <2>5. JobsKept
    <3> SUFFICES ASSUME NEW j \in Jobs, Inserted(j)
                 PROVE  /\ Inserted(j)'
                        /\ job'[j].inst = job[j].inst /\ job'[j].type = job[j].type
                        /\ job[j].runs <= job'[j].runs
      BY DEF JobsKept
    <3>1. job[j].runs \in Nat
      BY <1>0
    <3>2. CASE j = m.job
      BY <2>4, <3>1, <3>2 DEF Inserted
    <3>3. CASE j # m.job
      <4>1. job'[j] = job[j]
        BY <2>4, <3>3
      <4> QED BY <3>1, <4>1 DEF Inserted
    <3> QED BY <3>2, <3>3
  <2>6. \A v \in Workers : v # w => worker'[v] = worker[v]
    BY DEF TypeInv, TypeOK
  <2>7. NewRun(w, m.job)
    BY <2>2, <2>4 DEF NewRun, Busy
  <2> QED BY <2>1, <2>5, <2>6, <2>7
<1> QED BY <1>1, <1>2, <1>3 DEF SlotStep, Works, Fails, Completes, GivesUp, Raises

LEMMA ElsewhereMoves ==
    ASSUME Elsewhere
    PROVE  /\ \A j \in Jobs : Inserted(j) => job'[j] = job[j] /\ Inserted(j)'
           /\ \A v \in Workers : worker'[v] = worker[v] \/ worker'[v].pc = "idle"
  BY DEF Elsewhere, Inserted

-----------------------------------------------------------------------------
(* Runs and what they leave in rows, sessions and the Docker engine.       *)

\* The slot executes the run that a container id names.
SameRun(w, id) == Executes(w, id.job) /\ worker[w].run = id.run

\* A container id names a run of a job of this installation.
RunOf(id, i) ==
    /\ id.job \in Jobs /\ Inserted(id.job) /\ job[id.job].inst = i
    /\ id.run \in 1..job[id.job].runs

\* A task that creates containers leaves the loop after the last service.
LoopDone ==
    \A w \in Workers :
        worker[w].pc \in {"commit", "finish"} /\ Type(w) \in Creators
            => worker[w].svc = NumServices + 1

\* Every execution is a run of its own.
SlotRuns ==
    /\ \A w \in Workers :
           Busy(w) => /\ Inserted(worker[w].job)
                      /\ worker[w].run \in 1..job[worker[w].job].runs
    /\ \A v, w \in Workers :
           v # w /\ Busy(v) /\ Busy(w) /\ worker[v].job = worker[w].job
               => worker[v].run # worker[w].run

\* The ids of a row belong to a run of a job of this installation, and that
\* run does nothing more to its containers.
RowRuns ==
    \A i \in Installations : \A id \in row[i].ids :
        /\ RunOf(id, i)
        /\ \A w \in Workers : SameRun(w, id) => worker[w].pc = "finish"

\* So do the ids a session loaded from the row, and every container.
HeldRuns ==
    \A w \in Workers : Busy(w) => \A id \in worker[w].ids : RunOf(id, Target(w))

ContainerRuns == \A c \in containers : RunOf(c.id, c.inst)

RunInv == LoopDone /\ SlotRuns /\ RowRuns /\ HeldRuns /\ ContainerRuns

\* The id of a run stays one.
LEMMA RunOfKept ==
    ASSUME TypeInv, TypeInv', JobsKept, NEW id, NEW i, RunOf(id, i)
    PROVE  RunOf(id, i)'
<1>1. /\ id.job \in Jobs /\ job[id.job].runs \in Nat /\ job'[id.job].runs \in Nat
      /\ job[id.job].runs <= job'[id.job].runs
  BY TokenTypes DEF RunOf, JobsKept, TypeInv, TypeOK, Job, FreeJob, InsertedJob
<1> QED BY <1>1 DEF RunOf, JobsKept

\* What a slot creates are ids of its run.
LEMMA OwnRun ==
    ASSUME TypeInv, NEW w \in Workers, Busy(w), SlotRuns, NEW s
    PROVE  /\ RunOf(OwnId(w, s), Target(w)) /\ OwnId(w, s).svc = s
           /\ OwnId(w, s).job = worker[w].job /\ OwnId(w, s).run = worker[w].run
<1>1. worker[w].job \in Jobs
  BY TokenTypes DEF Busy
<1> QED BY <1>1 DEF SlotRuns, RunOf, OwnId, Id, Target

\* The facts about a step of a slot that the lemmas below start from.
LEMMA RunMoves ==
    ASSUME TypeInv, TypeInv', SlotRuns, NEW w \in Workers, RunStep(w)
    PROVE  /\ JobsKept
           /\ \A v \in Workers : v # w => worker'[v] = worker[v]
           /\ \/ worker'[w].pc = "idle"
              \/ GoesOn(w)
              \/ \E j \in Jobs : NewRun(w, j)
  BY SlotMoves DEF RunStep, SlotRuns

\* A slot another one's step leaves alone still executes a job of this type,
\* for this installation.
LEMMA SlotKept ==
    ASSUME TypeInv, SlotRuns, JobsKept, NEW v \in Workers, Busy(v),
           worker'[v].job = worker[v].job
    PROVE  /\ Type(v)' = Type(v) /\ Target(v)' = Target(v)
           /\ worker[v].job \in Jobs /\ Inserted(worker[v].job)
<1>1. worker[v].job \in Jobs /\ Inserted(worker[v].job)
  BY TokenTypes DEF SlotRuns, Busy
<1> QED BY <1>1 DEF JobsKept, Type, Target

LEMMA ElsewhereKept == ASSUME TypeInv, Elsewhere PROVE JobsKept
<1>1. \A j \in Jobs : job[j].runs <= job[j].runs
  BY TokenTypes
<1> QED BY <1>1, ElsewhereMoves DEF JobsKept

LEMMA LoopDoneElsewhere ==
    ASSUME TypeInv, LoopDone, SlotRuns, Elsewhere
    PROVE  LoopDone'
<1> SUFFICES ASSUME NEW v \in Workers, worker'[v].pc \in {"commit", "finish"},
                    Type(v)' \in Creators
             PROVE  worker'[v].svc = NumServices + 1
  BY DEF LoopDone, Creators
<1>1. worker'[v] = worker[v] /\ Busy(v)
  BY ElsewhereMoves DEF Busy
<1>2. Type(v)' = Type(v)
  BY <1>1, ElsewhereKept, SlotKept
<1> QED BY <1>1, <1>2 DEF LoopDone

LEMMA LoopDoneStep ==
    ASSUME TypeInv, TypeInv', LoopDone, SlotRuns, NEW w \in Workers, RunStep(w)
    PROVE  LoopDone'
<1> SUFFICES ASSUME NEW v \in Workers, worker'[v].pc \in {"commit", "finish"},
                    Type(v)' \in Creators
             PROVE  worker'[v].svc = NumServices + 1
  BY DEF LoopDone, Creators
<1>1. CASE v # w
  <2>1. worker'[v] = worker[v] /\ Busy(v)
    BY <1>1, RunMoves DEF Busy
  <2>2. Type(v)' = Type(v)
    BY <2>1, RunMoves, SlotKept
  <2> QED BY <2>1, <2>2 DEF LoopDone
<1>2. CASE v = w
  <2>1. GoesOn(w)
    BY <1>2, RunMoves DEF NewRun
  <2>2. Type(w)' = Type(w)
    BY <2>1, RunMoves, SlotKept DEF GoesOn
  <2>3. /\ worker'[w].svc = worker[w].svc
        /\ worker[w].pc = "commit" \/ worker'[w].svc = NumServices + 1
    BY <1>2, <2>2 DEF RunStep, WorkStep, LoopStands
  <2> QED BY <1>2, <2>2, <2>3 DEF LoopDone
<1> QED BY <1>1, <1>2

LEMMA SlotRunsElsewhere ==
    ASSUME TypeInv, SlotRuns, Elsewhere
    PROVE  SlotRuns'
<1>1. ASSUME NEW v \in Workers, Busy(v)'
      PROVE  /\ worker'[v] = worker[v] /\ Busy(v)
             /\ job'[worker[v].job] = job[worker[v].job]
             /\ Inserted(worker[v].job)'
  <2>1. worker'[v] = worker[v] /\ Busy(v)
    BY <1>1, ElsewhereMoves DEF Busy
  <2>2. worker[v].job \in Jobs /\ Inserted(worker[v].job)
    BY <2>1, TokenTypes DEF SlotRuns, Busy
  <2> QED BY <2>1, <2>2, ElsewhereMoves
<1> QED BY <1>1 DEF SlotRuns

LEMMA SlotRunsStep ==
    ASSUME TypeInv, TypeInv', SlotRuns, NEW w \in Workers, RunStep(w)
    PROVE  SlotRuns'
<1>k. JobsKept /\ \A v \in Workers : v # w => worker'[v] = worker[v]
  BY RunMoves
<1>1. ASSUME NEW v \in Workers, Busy(v), worker'[v].job = worker[v].job,
             worker'[v].run = worker[v].run
      PROVE  /\ job'[worker'[v].job].status # "free"
             /\ worker'[v].run \in 1..job'[worker'[v].job].runs
             /\ worker'[v].run \in 1..job[worker[v].job].runs
  <2>1. worker[v].job \in Jobs /\ Inserted(worker[v].job)
    BY <1>1, <1>k, SlotKept
  <2>2. job[worker[v].job].runs \in Nat /\ job'[worker[v].job].runs \in Nat
    BY <2>1, TokenTypes DEF TypeInv, TypeOK, Job, FreeJob, InsertedJob
  <2>3. worker[v].run \in 1..job[worker[v].job].runs
    BY <1>1 DEF SlotRuns
  <2>4. /\ job'[worker[v].job].status # "free"
        /\ job[worker[v].job].runs <= job'[worker[v].job].runs
    BY <1>k, <2>1 DEF JobsKept, Inserted
  <2> QED BY <1>1, <2>2, <2>3, <2>4
<1>2. CASE worker'[w].pc = "idle" \/ GoesOn(w)
  <2>1. ASSUME NEW v \in Workers, Busy(v)'
        PROVE  /\ Busy(v) /\ worker'[v].job = worker[v].job
               /\ worker'[v].run = worker[v].run
    BY <1>k, <1>2, <2>1 DEF GoesOn, Busy
  <2> QED BY <1>1, <2>1 DEF SlotRuns, Inserted
<1>3. ASSUME NEW j \in Jobs, NewRun(w, j) PROVE SlotRuns'
  <2>1. ASSUME NEW v \in Workers, Busy(v)', v # w
        PROVE  /\ Busy(v) /\ worker'[v] = worker[v]
    BY <1>k, <2>1 DEF Busy
  <2>2. /\ job[j].runs \in Nat /\ worker'[w].run = job[j].runs + 1
        /\ worker'[w].job = j /\ job'[j].runs = job[j].runs + 1
        /\ job'[j].status # "free"
    BY <1>3, <1>k, TokenTypes DEF NewRun, JobsKept, Inserted
  <2>3. worker'[w].run \in 1..job'[j].runs
    BY <2>2
  <2>4. ASSUME NEW v \in Workers, Busy(v)', v # w, worker'[v].job = j
        PROVE  worker'[v].run # worker'[w].run
    <3>1. worker'[v].run \in 1..job[j].runs
      BY <1>1, <2>1, <2>4
    <3> QED BY <2>2, <3>1
  <2>5. \A v \in Workers :
            Busy(v)' => /\ job'[worker'[v].job].status # "free"
                        /\ worker'[v].run \in 1..job'[worker'[v].job].runs
    BY <1>1, <2>1, <2>2, <2>3
  <2>6. \A v, u \in Workers :
            v # u /\ Busy(v)' /\ Busy(u)' /\ worker'[v].job = worker'[u].job
                => worker'[v].run # worker'[u].run
    <3> SUFFICES ASSUME NEW v \in Workers, NEW u \in Workers, v # u, Busy(v)', Busy(u)',
                        worker'[v].job = worker'[u].job
                 PROVE  worker'[v].run # worker'[u].run
      OBVIOUS
    <3>1. CASE v = w \/ u = w
      BY <2>2, <2>4, <3>1
    <3>2. CASE v # w /\ u # w
      BY <2>1, <3>2 DEF SlotRuns
    <3> QED BY <3>1, <3>2
  <2> QED BY <2>5, <2>6 DEF SlotRuns, Inserted
<1> QED BY <1>2, <1>3, RunMoves

LEMMA RowRunsElsewhere ==
    ASSUME TypeInv, TypeInv', RowRuns, Elsewhere
    PROVE  RowRuns'
<1> SUFFICES ASSUME NEW i \in Installations, NEW id \in row'[i].ids
             PROVE  /\ RunOf(id, i)'
                    /\ \A w \in Workers : SameRun(w, id)' => worker'[w].pc = "finish"
  BY DEF RowRuns
<1>1. id \in row[i].ids
  BY DEF Elsewhere
<1>2. RunOf(id, i) /\ \A w \in Workers : SameRun(w, id) => worker[w].pc = "finish"
  BY <1>1 DEF RowRuns
<1>3. RunOf(id, i)'
  BY <1>2, ElsewhereKept, RunOfKept
<1>4. ASSUME NEW w \in Workers, SameRun(w, id)' PROVE worker'[w].pc = "finish"
  <2>1. worker'[w] = worker[w]
    BY <1>4 DEF Elsewhere, SameRun, Executes
  <2> QED BY <1>2, <1>4, <2>1 DEF SameRun, Executes
<1> QED BY <1>3, <1>4

LEMMA RowRunsStep ==
    ASSUME TypeInv, TypeInv', SlotRuns, RowRuns, NEW w \in Workers, RunStep(w)
    PROVE  RowRuns'
<1> SUFFICES ASSUME NEW i \in Installations, NEW id \in row'[i].ids
             PROVE  /\ RunOf(id, i)'
                    /\ \A v \in Workers : SameRun(v, id)' => worker'[v].pc = "finish"
  BY DEF RowRuns
<1>k. JobsKept /\ \A v \in Workers : v # w => worker'[v] = worker[v]
  BY RunMoves
<1>1. CASE id \in row[i].ids
  <2>1. RunOf(id, i) /\ \A v \in Workers : SameRun(v, id) => worker[v].pc = "finish"
    BY <1>1 DEF RowRuns
  <2>2. RunOf(id, i)'
    BY <1>k, <2>1, RunOfKept
  <2>3. ASSUME NEW v \in Workers, SameRun(v, id)' PROVE worker'[v].pc = "finish"
    <3>1. CASE v # w
      BY <1>k, <2>1, <2>3, <3>1 DEF SameRun, Executes
    <3>2. CASE v = w /\ GoesOn(w)
      <4>1. SameRun(w, id)
        BY <2>3, <3>2 DEF SameRun, Executes, GoesOn, Busy
      <4>2. worker'[w].pc = "idle"
        BY <2>1, <4>1 DEF RunStep, WorkStep, HeldIds
      <4> QED BY <3>2, <4>2 DEF GoesOn
    <3>3. ASSUME v = w, NEW j \in Jobs, NewRun(w, j) PROVE FALSE
      <4>1. id.job = j /\ id.run = job[j].runs + 1 /\ job[j].runs \in Nat
        BY <2>3, <3>3, TokenTypes DEF SameRun, Executes, NewRun
      <4> QED BY <2>1, <4>1 DEF RunOf
    <3>4. worker'[v].pc # "idle"
      BY <2>3 DEF SameRun, Executes
    <3> QED BY <3>1, <3>2, <3>3, <3>4, RunMoves
  <2> QED BY <2>2, <2>3
<1>2. CASE id \notin row[i].ids
  <2>1. /\ At(w, "commit", Creators) /\ Target(w) = i
        /\ id \in CreatedIds(w) /\ worker'[w].pc = "finish"
    BY <1>2 DEF RunStep, WorkStep, KeptIds
  <2>2. Busy(w) /\ GoesOn(w)
    BY <2>1, RunMoves DEF At, Busy, NewRun
  <2>3. PICK s \in Services : id = OwnId(w, s)
    BY <2>1 DEF CreatedIds
  <2>4. RunOf(id, i) /\ id.job = worker[w].job /\ id.run = worker[w].run
    BY <2>1, <2>2, <2>3, OwnRun
  <2>5. RunOf(id, i)'
    BY <1>k, <2>4, RunOfKept
  <2>6. ASSUME NEW v \in Workers, SameRun(v, id)', v # w PROVE FALSE
    <3>1. worker'[v] = worker[v]
      BY <1>k, <2>6
    <3>2. Busy(v) /\ worker[v].job = worker[w].job /\ worker[v].run = worker[w].run
      BY <2>4, <2>6, <3>1 DEF SameRun, Executes, Busy
    <3> QED BY <2>2, <2>6, <3>2 DEF SlotRuns
  <2> QED BY <2>1, <2>5, <2>6
<1> QED BY <1>1, <1>2

LEMMA HeldRunsElsewhere ==
    ASSUME TypeInv, TypeInv', SlotRuns, HeldRuns, Elsewhere
    PROVE  HeldRuns'
<1> SUFFICES ASSUME NEW v \in Workers, Busy(v)', NEW id \in worker'[v].ids
             PROVE  RunOf(id, Target(v))'
  BY DEF HeldRuns
<1>1. worker'[v] = worker[v] /\ Busy(v)
  BY ElsewhereMoves DEF Busy
<1>2. Target(v)' = Target(v)
  BY <1>1, ElsewhereKept, SlotKept
<1>3. RunOf(id, Target(v))
  BY <1>1 DEF HeldRuns
<1> DEFINE i == Target(v)
<1>4. RunOf(id, i)'
  BY <1>3, <1>2, ElsewhereKept, RunOfKept DEF RunOf, JobsKept
<1> QED BY <1>4

LEMMA HeldRunsStep ==
    ASSUME TypeInv, TypeInv', SlotRuns, RowRuns, HeldRuns, NEW w \in Workers,
           RunStep(w)
    PROVE  HeldRuns'
<1> SUFFICES ASSUME NEW v \in Workers, Busy(v)', NEW id \in worker'[v].ids
             PROVE  RunOf(id, Target(v))'
  BY DEF HeldRuns
<1>k. JobsKept /\ \A u \in Workers : u # w => worker'[u] = worker[u]
  BY RunMoves
<1>1. ASSUME Busy(v), worker'[v].job = worker[v].job, RunOf(id, Target(v))
      PROVE  RunOf(id, Target(v))'
  <2>1. Target(v)' = Target(v)
    BY <1>1, <1>k, SlotKept
  <2>2. ASSUME NEW i, i = Target(v) PROVE RunOf(id, i)'
    BY <1>1, <1>k, <2>2, RunOfKept
  <2> QED BY <2>1, <2>2 DEF RunOf
<1>2. CASE v # w
  BY <1>1, <1>2, <1>k DEF HeldRuns, Busy
<1>3. CASE v = w
  <2>1. CASE worker'[w].ids = {}
    BY <1>3, <2>1
  <2>2. CASE worker'[w].ids # {}
    <3>1. Busy(w)
      <4>1. IdleSlot.ids = {} /\ (~Busy(w) => worker[w] = IdleSlot)
        BY DEF Busy, IdleSlot, TypeInv, TypeOK, Slot, BusySlot, PC
      <4> QED BY <2>2, <4>1 DEF RunStep, WorkStep, HeldIds
    <3>2. GoesOn(w)
      BY <1>3, <3>1, RunMoves DEF Busy, NewRun
    <3>3. Target(w) \in Installations
      BY <1>k, <3>1, <3>2, SlotKept, InstType DEF GoesOn, Target
    <3>4. RunOf(id, Target(w))
      BY <1>3, <2>2, <3>1, <3>3 DEF RunStep, WorkStep, HeldIds, HeldRuns, RowRuns
    <3> QED BY <1>1, <1>3, <3>1, <3>2, <3>4 DEF GoesOn
  <2> QED BY <2>1, <2>2
<1> QED BY <1>2, <1>3

LEMMA ContainerRunsElsewhere ==
    ASSUME TypeInv, TypeInv', ContainerRuns, Elsewhere
    PROVE  ContainerRuns'
<1> SUFFICES ASSUME NEW c \in containers' PROVE RunOf(c.id, c.inst)'
  BY DEF ContainerRuns
<1>1. RunOf(c.id, c.inst)
  BY DEF Elsewhere, ContainerRuns
<1> QED BY <1>1, ElsewhereKept, RunOfKept

LEMMA ContainerRunsStep ==
    ASSUME TypeInv, TypeInv', SlotRuns, ContainerRuns, NEW w \in Workers, RunStep(w)
    PROVE  ContainerRuns'
<1> SUFFICES ASSUME NEW c \in containers' PROVE RunOf(c.id, c.inst)'
  BY DEF ContainerRuns
<1>1. ASSUME Stood(w, c) PROVE RunOf(c.id, c.inst)
  BY <1>1 DEF Stood, ContainerRuns
<1>2. ASSUME Made(w, c) PROVE RunOf(c.id, c.inst)
  BY <1>2, OwnRun DEF Made, At, Busy
<1>3. RunOf(c.id, c.inst)
  BY <1>1, <1>2 DEF RunStep, Origin
<1> QED BY <1>3, RunMoves, RunOfKept

LEMMA RunInit == Init => RunInv
<1> SUFFICES ASSUME Init PROVE RunInv
  OBVIOUS
<1> QED BY DEF Init, RunInv, LoopDone, SlotRuns, RowRuns, HeldRuns, ContainerRuns,
           Busy, IdleSlot, FreeRow

LEMMA RunInvStep ==
    ASSUME TypeInv, RunInv, [Next]_vars
    PROVE  RunInv'
<1> USE DEF RunInv
<1>1. TypeInv'
  BY TypeStep
<1>2. CASE Elsewhere
  BY <1>1, <1>2, LoopDoneElsewhere, SlotRunsElsewhere, RowRunsElsewhere,
     HeldRunsElsewhere, ContainerRunsElsewhere
<1>3. ASSUME NEW w \in Workers, RunStep(w) PROVE RunInv'
  BY <1>1, <1>3, LoopDoneStep, SlotRunsStep, RowRunsStep, HeldRunsStep,
     ContainerRunsStep
<1> QED BY <1>2, <1>3, RunNext

LEMMA StoredStep ==
    ASSUME TypeInv, TypeInv', RunInv, StoredFromOneRun, [Next]_vars
    PROVE  StoredFromOneRun'
<1> SUFFICES ASSUME NEW i \in Installations, row'[i].ids # {}
             PROVE  \E j \in Jobs :
                        /\ job'[j].inst = i
                        /\ \E r \in 1..job'[j].runs :
                               row'[i].ids = {Id(j, r, s) : s \in Services}
  BY DEF StoredFromOneRun, Services
<1>1. ASSUME JobsKept, NEW j \in Jobs, Inserted(j), job[j].inst = i,
             NEW r \in 1..job[j].runs, row'[i].ids = {Id(j, r, s) : s \in Services}
      PROVE  \E k \in Jobs :
                 /\ job'[k].inst = i
                 /\ \E q \in 1..job'[k].runs :
                        row'[i].ids = {Id(k, q, s) : s \in Services}
  <2>1. /\ job[j].runs \in Nat /\ job'[j].runs \in Nat
        /\ job[j].runs <= job'[j].runs /\ job'[j].inst = i
    BY <1>1, TokenTypes DEF JobsKept, TypeInv, TypeOK, Job, FreeJob, InsertedJob
  <2>2. r \in 1..job'[j].runs
    BY <2>1
  <2> QED BY <1>1, <2>1, <2>2
<1>2. CASE row'[i].ids = row[i].ids
  <2>1. PICK j \in Jobs :
            /\ job[j].inst = i
            /\ \E r \in 1..job[j].runs : row[i].ids = {Id(j, r, s) : s \in Services}
    BY <1>2 DEF StoredFromOneRun
  <2>2. PICK r \in 1..job[j].runs : row[i].ids = {Id(j, r, s) : s \in Services}
    BY <2>1
  <2>3. Inserted(j)
    BY <2>1 DEF Inserted, TypeInv, TypeOK, Job, FreeJob, InsertedJob, JobStatus,
       Installations
  <2>4. JobsKept
    BY RunNext, RunMoves, ElsewhereKept DEF RunInv
  <2> QED BY <1>1, <1>2, <2>1, <2>2, <2>3, <2>4
<1>3. CASE row'[i].ids # row[i].ids
  <2>1. PICK w \in Workers : RunStep(w)
    BY <1>3, RunNext DEF Elsewhere
  <2>2. /\ At(w, "commit", Creators) /\ Target(w) = i
        /\ row'[i].ids = CreatedIds(w)
    BY <1>3, <2>1 DEF RunStep, WorkStep, KeptIds
  <2>3. Busy(w) /\ worker[w].svc = NumServices + 1
    BY <2>2 DEF At, Busy, RunInv, LoopDone
  <2>4. \A s \in Services : s < worker[w].svc
    BY <2>3, PlatformAssumption DEF Services
  <2> DEFINE j == worker[w].job
             r == worker[w].run
  <2>5. CreatedIds(w) = {Id(j, r, s) : s \in Services}
    BY <2>4 DEF CreatedIds, OwnId
  <2>6. /\ j \in Jobs /\ Inserted(j) /\ job[j].inst = i
        /\ r \in 1..job[j].runs
    BY <2>2, <2>3, TokenTypes DEF RunInv, SlotRuns, Target, Busy
  <2>7. JobsKept
    BY <2>1, RunMoves DEF RunInv
  <2> HIDE DEF j, r
  <2> QED BY <1>1, <2>2, <2>5, <2>6, <2>7
<1> QED BY <1>2, <1>3

\* Whatever fails, crashes or is delivered twice, the ids a row holds are those
\* of one run of a job of the installation, one for every service: never a
\* part of a run, never a mixture of two.
THEOREM StoredFromOneRunHolds == Spec => []StoredFromOneRun
<1> DEFINE Inv == TypeInv /\ RunInv /\ StoredFromOneRun
<1>1. Init => Inv
  BY TypeInit, RunInit DEF Init, StoredFromOneRun, FreeRow
<1>2. Inv /\ [Next]_vars => Inv'
  BY TypeStep, RunInvStep, StoredStep
<1> QED BY <1>1, <1>2, PTL DEF Spec

-----------------------------------------------------------------------------
(* Which containers a step may remove.                                     *)

\* The rollback of a run removes what the run created, a teardown what carries
\* the installation's label or was recorded for it.
Undoes(w, c) == worker[w].pc = "undo" /\ c.id \in CreatedIds(w)
TearsDown(w, c) ==
    /\ worker[w].pc = "remove" /\ worker'[w].pc # "remove"
    /\ c.inst = Target(w) \/ c.id \in worker[w].ids

Removed(c) == c.id \notin {d.id : d \in containers'}

\* Switching containers on or off removes none.
LEMMA SwitchedStay ==
    ASSUME TypeInv, NEW cs \in SUBSET containers, NEW up \in BOOLEAN,
           containers' = Switched(cs, up), NEW c \in containers
    PROVE  ~Removed(c)
<1>1. CASE c \in cs
  <2>1. [c EXCEPT !.up = up] \in containers'
    BY <1>1 DEF Switched
  <2> QED BY <2>1, SwitchedFields DEF Removed
<1>2. CASE c \notin cs
  BY <1>2 DEF Switched, Removed
<1> QED BY <1>1, <1>2

LEMMA SharedRemoval ==
    ASSUME TypeInv, NEW w \in Workers, NEW types \in SUBSET JobTypes,
           SharedStep(w, types), NEW c \in containers, Removed(c)
    PROVE  Undoes(w, c) \/ TearsDown(w, c)
<1>0. ~(containers \subseteq containers')
  BY DEF Removed
<1>1. CASE StartContainer(w, types)
  <2>1. ById({OwnId(w, worker[w].svc)}) \in SUBSET containers
    BY DEF ById
  <2> QED BY <1>1, <2>1, SwitchedStay DEF StartContainer
<1>2. CASE Rollback(w, types)
  <2>1. ~(c \in containers')
    BY DEF Removed
  <2> QED BY <1>2, <2>1 DEF Rollback, At, RemoveCreated, Reached, ById, Undoes
<1>3. CASE RemoveOld(w, types)
  <2>1. ~(c \in containers')
    BY DEF Removed
  <2>2. Busy(w) /\ worker[w].pc = "remove" /\ Goto(w, "create")
    BY <1>3 DEF RemoveOld, At, Busy
  <2>3. worker'[w].pc = "create"
    BY <2>2, GotoFields
  <2>4. c \in ListManaged(Target(w)) \cup ById(worker[w].ids)
    BY <1>3, <2>1 DEF RemoveOld, RemoveInstallationContainers, Reached
  <2> QED BY <2>2, <2>3, <2>4 DEF TearsDown, ListManaged, ById
<1>4. CASE CreateContainer(w, types)
  BY <1>0, <1>4 DEF CreateContainer
<1> QED BY <1>0, <1>1, <1>2, <1>3, <1>4 DEF SharedStep, ClientFails, Begin, LoadRow,
           ContainerReady, TaskFails, RecordContainers, CompleteJob, HandlerRaises,
           FailJob, FailInstallation, FailJobAndRetry

LEMMA OwnRemoval ==
    ASSUME TypeInv, NEW w \in Workers, OwnStep(w), NEW c \in containers, Removed(c)
    PROVE  TearsDown(w, c)
<1>0. c \notin containers'
  BY DEF Removed
<1>1. ASSUME NEW up \in BOOLEAN, SwitchStored(w, up) PROVE FALSE
  <2>1. PICK cs \in Reached(ById(worker[w].ids)) : containers' = Switched(cs, up)
    BY <1>1 DEF SwitchStored
  <2>2. cs \in SUBSET containers
    BY DEF Reached, ById
  <2> QED BY <2>1, <2>2, SwitchedStay
<1>2. CASE StartContainers(w) \/ StopContainers(w)
  BY <1>1, <1>2 DEF StartContainers, StopContainers
<1>3. CASE RestartContainers(w)
  <2> DEFINE mine == ById(worker[w].ids)
  <2>1. PICK off \in Reached(mine), on \in Reached(mine) :
            containers' = (containers \ mine)
               \cup {[d EXCEPT !.up = d \in on \/ (d.up /\ d \notin off)] :
                         d \in mine}
    BY <1>3 DEF RestartContainers
  <2>2. CASE c \in mine
    <3>1. [c EXCEPT !.up = c \in on \/ (c.up /\ c \notin off)] \in containers'
      BY <2>1, <2>2
    <3>2. (c \in on \/ (c.up /\ c \notin off)) \in BOOLEAN
      OBVIOUS
    <3>3. [c EXCEPT !.up = c \in on \/ (c.up /\ c \notin off)].id = c.id
      BY <3>2, SwitchedFields
    <3> QED BY <3>1, <3>3 DEF Removed
  <2>3. CASE c \notin mine
    BY <1>0, <2>1, <2>3
  <2> QED BY <2>2, <2>3
<1>4. CASE UninstallContainers(w)
  <2>1. Busy(w) /\ worker[w].pc = "remove" /\ Goto(w, "volumes")
    BY <1>4 DEF UninstallContainers, At, Busy
  <2>2. worker'[w].pc = "volumes"
    BY <2>1, GotoFields
  <2>3. c \in ListManaged(Target(w)) \cup ById(worker[w].ids)
    BY <1>0, <1>4 DEF UninstallContainers, RemoveInstallationContainers, Reached
  <2> QED BY <2>1, <2>2, <2>3 DEF TearsDown, ListManaged, ById
<1> QED BY <1>0, <1>2, <1>3, <1>4 DEF OwnStep, InstallMark, UninstallMark, LoadAndMark,
           UpdatePull, UninstallVolumes, UninstallUnlink, UninstallDelete, PowerRecord

LEMMA RemovalNext ==
    ASSUME TypeInv, [Next]_vars, NEW c \in containers, Removed(c)
    PROVE  \/ \E w \in Workers : Undoes(w, c) \/ TearsDown(w, c)
           \/ reaper.pc = "reap"
<1>0. c \notin containers'
  BY DEF Removed
<1>1. ASSUME NEW w \in Workers, TaskStep(w) PROVE Undoes(w, c) \/ TearsDown(w, c)
  BY <1>1, TaskStepCases, SharedRemoval, OwnRemoval
<1>2. ~ApiNext
  BY <1>0 DEF ApiNext, CheckExisting, CreateInstallation, Uninstall, RequestOperation,
     UpdateConfig, Delay, DelayFails, apiFrame
<1>3. ~FaultNext /\ ~UNCHANGED vars
  BY <1>0 DEF FaultNext, WorkerCrash, Redelivery, ChildLost, vars
<1>4. CASE ReaperNext
  BY <1>0, <1>4 DEF ReaperNext, ReaperReadIds, ReaperList, ReaperRemove, ReaperFails
<1> QED BY <1>1, <1>2, <1>3, <1>4 DEF Next

\* A recorded container never falls to the rollback of a run: the run that made
\* it has nothing left to undo, and other runs undo only what they made.
LEMMA RecordedStep ==
    ASSUME TypeInv, RunInv, [Next]_vars, NEW c \in containers,
           c.id \in row[c.inst].ids, Removed(c)
    PROVE  \/ \E w \in Workers : /\ worker[w].pc = "remove"
                                 /\ worker'[w].pc # "remove"
                                 /\ Target(w) = c.inst
           \/ reaper.pc = "reap"
<1>1. c.inst \in Installations
  BY DEF TypeInv, TypeOK, Container
<1>2. ASSUME NEW w \in Workers, Undoes(w, c) PROVE FALSE
  <2>1. Busy(w) /\ worker[w].pc = "undo"
    BY <1>2 DEF Undoes, Busy
  <2>2. SameRun(w, c.id)
    BY <1>2, <2>1, OwnRun DEF Undoes, CreatedIds, RunInv, SameRun, Executes, Busy
  <2> QED BY <1>1, <2>1, <2>2 DEF RunInv, RowRuns
<1>3. ASSUME NEW w \in Workers, TearsDown(w, c)
      PROVE  /\ worker[w].pc = "remove" /\ worker'[w].pc # "remove"
             /\ Target(w) = c.inst
  <2>1. Busy(w)
    BY <1>3 DEF TearsDown, Busy
  <2>2. RunOf(c.id, c.inst)
    BY DEF RunInv, ContainerRuns
  <2>3. c.id \in worker[w].ids => RunOf(c.id, Target(w))
    BY <2>1 DEF RunInv, HeldRuns
  <2> QED BY <1>3, <2>2, <2>3 DEF TearsDown, RunOf
<1> QED BY <1>2, <1>3, RemovalNext

\* Whatever fails, crashes or is delivered twice, a container that is recorded
\* for an installation is removed by a teardown of that installation or by the
\* reaper, never by the rollback of a run that failed.
THEOREM RecordedSurviveHolds == Spec => RecordedSurvive
<1> DEFINE Inv == TypeInv /\ RunInv
           Kept == \A c \in containers :
                       c.id \in row[c.inst].ids /\ c.id \notin {d.id : d \in containers'}
                           => \/ \E w \in Workers : /\ worker[w].pc = "remove"
                                                    /\ worker'[w].pc # "remove"
                                                    /\ Target(w) = c.inst
                              \/ reaper.pc = "reap"
<1>1. Init => Inv
  BY TypeInit, RunInit
<1>2. Inv /\ [Next]_vars => Inv'
  BY TypeStep, RunInvStep
<1>3. Inv /\ [Next]_vars => [Kept]_vars
  BY RecordedStep DEF Removed
<1> QED BY <1>1, <1>2, <1>3, PTL DEF Spec, RecordedSurvive

-----------------------------------------------------------------------------
(* What a deleted installation with containers tells of its history.       *)

\* No two slots work on the same installation.
TasksApart ==
    \A v, w \in Workers : Busy(v) /\ Busy(w) /\ Target(v) = Target(w) => v = w

\* The removal of an uninstall leaves no container that carries the label.
TeardownComplete ==
    \A w \in Workers :
        worker[w].pc = "remove" /\ worker'[w].pc = "volumes" =>
            \A c \in containers' : c.inst # Target(w)

\* The task may still create containers for its installation.
Creating(w) ==
    /\ worker[w].pc \in {"pull", "remove", "create", "start", "ready"}
    /\ Type(w) \in Creators

\* No row is deleted, and no live row ceases to be.
RowsLive ==
    \A i \in Installations :
        /\ Live(i) => Live(i)'
        /\ row'[i].status = "deleted" => row[i].status = "deleted"

\* What the step of a slot means for the rows and for the containers that a
\* task relies on.
AloneStep(w) ==
    /\ RowsLive \/ (worker[w].pc = "flush" /\ worker'[w].pc = "finish"
                    /\ \A i \in Installations : i # Target(w) => row'[i] = row[i])
    /\ worker'[w].pc \in {"pull", "remove", "create", "start", "ready"} /\ Type(w) \in Creators
           => Creating(w) \/ Live(Target(w))
    /\ worker'[w].pc \in {"volumes", "delete", "flush"} =>
           \/ worker[w].pc \in {"volumes", "delete"}
           \/ \A c \in containers' : c.inst # Target(w)

LEMMA RowsMarked ==
    ASSUME TypeInv, NEW i \in Installations, Live(i), NEW status \in LiveStatus,
           row' = [row EXCEPT ![i].status = status]
    PROVE  RowsLive
<1>1. \A k \in Installations : row[k] \in Row
  BY DEF TypeInv, TypeOK
<1>2. /\ row'[i].status = status
      /\ \A k \in Installations : k # i => row'[k] = row[k]
  BY <1>1 DEF TypeInv, TypeOK, Row
<1>3. status # "deleted"
  BY DEF LiveStatus
<1> QED BY <1>2, <1>3 DEF RowsLive, Live

LEMMA RowsSame == ASSUME UNCHANGED row PROVE RowsLive
  BY DEF RowsLive, Live

\* Where a slot goes that only moves on.
LEMMA GotoAlone ==
    ASSUME TypeInv, NEW w \in Workers, Busy(w), NEW pc, Goto(w, pc), RowsLive,
           pc \notin {"volumes", "delete", "flush"},
           pc \in {"pull", "remove", "create", "start", "ready"} => Creating(w)
    PROVE  AloneStep(w)
  BY GotoFields DEF AloneStep

LEMMA SharedAlone ==
    ASSUME TypeInv, NEW w \in Workers, NEW types \in SUBSET JobTypes,
           SharedStep(w, types)
    PROVE  AloneStep(w)
<1>11. ASSUME NEW m \in queue, Begin(w, m, types) PROVE AloneStep(w)
  <2>1. worker'[w].pc = "load" /\ UNCHANGED row
    BY <1>11 DEF Begin, TypeInv, TypeOK, IdleSlot
  <2> QED BY <2>1, RowsSame DEF AloneStep
<1>12. ASSUME NEW m \in queue, ClientFails(w, m) PROVE AloneStep(w)
  BY <1>12, RowsSame DEF ClientFails, AloneStep
<1> SUFFICES ASSUME Busy(w) PROVE AloneStep(w)
  BY <1>11, <1>12 DEF SharedStep, LoadRow, CreateContainer, StartContainer, ContainerReady,
     TaskFails, RecordContainers, CompleteJob, Rollback, HandlerRaises, FailJob,
     FailInstallation, FailJobAndRetry, RemoveOld, At, Busy, PC
<1>b. worker[w] \in BusySlot
  BY DEF Busy, TypeInv, TypeOK, Slot, IdleSlot
<1>l. ASSUME worker' = [worker EXCEPT ![w] = IdleSlot], RowsLive PROVE AloneStep(w)
  <2>1. worker'[w].pc = "idle"
    BY <1>l DEF TypeInv, TypeOK, IdleSlot
  <2> QED BY <1>l, <2>1 DEF AloneStep
<1>1. ASSUME NEW next \in {"remove", "pull", "power"}, LoadRow(w, types, next)
      PROVE  AloneStep(w)
  <2> DEFINE i == Target(w)
             slot == [worker[w] EXCEPT !.pc = next, !.seen = row[i].status,
                                       !.ids = row[i].ids]
  <2>1. CASE Live(i)
    <3>1. worker'[w] = slot
      BY <1>1, <2>1 DEF LoadRow, TypeInv, TypeOK
    <3>2. slot.pc = next
      BY <1>b DEF BusySlot
    <3> HIDE DEF slot
    <3> QED BY <1>1, <2>1, <3>1, <3>2, RowsSame DEF LoadRow, AloneStep
  <2>2. CASE ~Live(i)
    BY <1>1, <2>2, GotoAlone, RowsSame DEF LoadRow
  <2> QED BY <2>1, <2>2
<1>2. CASE CreateContainer(w, types) /\ types \subseteq Creators
  BY <1>2, GotoAlone, RowsSame DEF CreateContainer, At, Creating
<1>3. CASE RemoveOld(w, types)
  <2>1. worker'[w].pc = "create" /\ UNCHANGED row /\ worker[w].pc = "remove"
    BY <1>3, GotoFields DEF RemoveOld, At
  <2> QED BY <2>1, RowsSame DEF AloneStep, Creating
<1>4. CASE StartContainer(w, types)
  <2> DEFINE slot == [worker[w] EXCEPT !.pc = "ready", !.svc = @ + 1]
  <2>1. worker'[w] = slot /\ worker[w].pc = "start" /\ UNCHANGED row
    BY <1>4 DEF StartContainer, At, TypeInv, TypeOK
  <2>2. slot.pc = "ready"
    BY <1>b DEF BusySlot
  <2> HIDE DEF slot
  <2> QED BY <2>1, <2>2, RowsSame DEF AloneStep, Creating
<1>5. CASE ContainerReady(w, types)
  <2>1. /\ worker'[w].pc \in {"commit", "create"} /\ UNCHANGED row
        /\ worker[w].pc = "ready"
    BY <1>5, GotoFields DEF ContainerReady, At, AfterReady
  <2> QED BY <2>1, RowsSame DEF AloneStep, Creating
<1>6. ASSUME NEW pcs, NEW handler \in {"undo", "failjob"},
             TaskFails(w, types, pcs, handler)
      PROVE  AloneStep(w)
  BY <1>6, GotoAlone, RowsSame DEF TaskFails
<1>7. CASE RecordContainers(w, types) /\ types \subseteq Creators
  <2> DEFINE i == Target(w)
             done == [worker[w] EXCEPT !.pc = "finish", !.seen = "running"]
             gone == [worker[w] EXCEPT !.pc = "undo", !.dead = TRUE]
  <2>1. i \in Installations
    BY <1>7, SlotFacts DEF RecordContainers, At, TypeInv
  <2>2. CASE Live(i)
    <3>1. worker'[w] = done
      BY <1>7, <2>2 DEF RecordContainers, TypeInv, TypeOK
    <3>2. done.pc = "finish"
      BY <1>b DEF BusySlot
    <3>3. row' = [row EXCEPT ![i].status = IF worker[w].seen = "running" THEN @
                                           ELSE "running",
                             ![i].ids = CreatedIds(w)]
      BY <1>7, <2>2 DEF RecordContainers, WriteSuccess
    <3>4. row[i] \in Row
      BY <2>1 DEF TypeInv, TypeOK
    <3>5. /\ row'[i].status \in {row[i].status, "running"}
          /\ \A k \in Installations : k # i => row'[k] = row[k]
      BY <2>1, <3>3, <3>4 DEF TypeInv, TypeOK, Row
    <3>6. RowsLive
      BY <2>1, <2>2, <3>5 DEF RowsLive, Live, LiveStatus
    <3> HIDE DEF done
    <3> QED BY <3>1, <3>2, <3>6 DEF AloneStep
  <2>3. CASE ~Live(i)
    <3>1. worker'[w] = gone /\ UNCHANGED row
      BY <1>7, <2>3 DEF RecordContainers, TypeInv, TypeOK
    <3>2. gone.pc = "undo"
      BY <1>b DEF BusySlot
    <3> HIDE DEF gone
    <3> QED BY <3>1, <3>2, RowsSame DEF AloneStep
  <2> QED BY <2>2, <2>3
<1>8. CASE CompleteJob(w, types) \/ HandlerRaises(w, types) \/ FailJobAndRetry(w, types)
  BY <1>8, <1>l, RowsSame DEF CompleteJob, HandlerRaises, FailJobAndRetry
<1>9. CASE Rollback(w, types) \/ FailJob(w, types)
  BY <1>9, GotoAlone, RowsSame DEF Rollback, FailJob
<1>10. CASE FailInstallation(w, types)
  <2>1. Target(w) \in Installations /\ "error" \in LiveStatus
    BY <1>10, SlotFacts DEF FailInstallation, At, TypeInv, LiveStatus
  <2>2. RowsLive
    BY <1>10, <2>1, RowsMarked, RowsSame DEF FailInstallation, WriteError
  <2> QED BY <1>10, <1>l, <2>2 DEF FailInstallation
<1> QED BY <1>1, <1>2, <1>3, <1>4, <1>5, <1>6, <1>7, <1>8, <1>9, <1>10, <1>11,
           <1>12 DEF SharedStep

LEMMA OwnAlone ==
    ASSUME TypeInv, TeardownComplete, NEW w \in Workers, OwnStep(w)
    PROVE  AloneStep(w)
<1>t. /\ install \in SUBSET JobTypes /\ uninstall \in SUBSET JobTypes
      /\ power \in SUBSET JobTypes
      /\ \A t \in uninstall \cup power : t \notin Creators
  BY DEF install, uninstall, power, JobTypes, Creators, recreate, reconfigure, update
<1>b. ASSUME Busy(w) PROVE worker[w] \in BusySlot
  BY <1>b DEF Busy, TypeInv, TypeOK, Slot, IdleSlot
<1>1. ASSUME NEW types \in SUBSET JobTypes, NEW status \in LiveStatus,
             NEW next \in {"create", "remove"}, LoadAndMark(w, types, status, next)
      PROVE  AloneStep(w)
  <2> DEFINE i == Target(w)
             slot == [worker[w] EXCEPT !.pc = next, !.seen = status,
                                       !.ids = row[i].ids]
  <2>1. Busy(w) /\ worker[w] \in BusySlot /\ i \in Installations
    BY <1>b, <1>1, SlotFacts DEF Busy, LoadAndMark, At, TypeInv
  <2>2. CASE Live(i)
    <3>1. worker'[w] = slot
      BY <1>1, <2>2 DEF LoadAndMark, TypeInv, TypeOK
    <3>2. slot.pc = next
      BY <2>1 DEF BusySlot
    <3>3. RowsLive
      BY <1>1, <2>1, <2>2, RowsMarked DEF LoadAndMark
    <3> HIDE DEF slot
    <3> QED BY <2>2, <3>1, <3>2, <3>3 DEF AloneStep
  <2>3. CASE ~Live(i)
    BY <1>1, <2>1, <2>3, GotoAlone, RowsSame DEF LoadAndMark
  <2> QED BY <2>2, <2>3
<1>2. CASE InstallMark(w) \/ UninstallMark(w)
  BY <1>1, <1>2, <1>t DEF InstallMark, UninstallMark, LiveStatus
<1>3. CASE UpdatePull(w)
  <2>1. /\ worker'[w].pc = "remove" /\ UNCHANGED row /\ worker[w].pc = "pull"
    BY <1>3, GotoFields DEF UpdatePull, At, Busy
  <2> QED BY <2>1, RowsSame DEF AloneStep, Creating
<1>4. CASE UninstallContainers(w)
  <2>1. worker'[w].pc = "volumes" /\ UNCHANGED row /\ worker[w].pc = "remove"
    BY <1>4, GotoFields DEF UninstallContainers, At, Busy
  <2> QED BY <2>1, RowsSame DEF AloneStep, TeardownComplete
<1>5. CASE UninstallVolumes(w)
  <2>1. worker'[w].pc = "delete" /\ UNCHANGED row /\ worker[w].pc = "volumes"
    BY <1>5, GotoFields DEF UninstallVolumes, At, Busy
  <2> QED BY <2>1, RowsSame DEF AloneStep
<1>9. CASE UninstallUnlink(w)
  <2> DEFINE slot == [worker[w] EXCEPT !.pc = "flush",
                                       !.unlinked = {j \in Jobs : job[j].inst = Target(w)}]
  <2>1. worker[w].pc = "delete" /\ UNCHANGED row /\ worker[w] \in BusySlot
    BY <1>b, <1>9 DEF UninstallUnlink, At, Busy
  <2>2. worker'[w] = slot
    BY <1>9 DEF UninstallUnlink, TypeInv, TypeOK
  <2>3. slot.pc = "flush"
    BY <2>1 DEF BusySlot
  <2> HIDE DEF slot
  <2> QED BY <2>1, <2>2, <2>3, RowsSame DEF AloneStep
<1>6. CASE UninstallDelete(w)
  <2> DEFINE slot == [worker[w] EXCEPT !.pc = "failjob", !.dead = TRUE]
  <2>1. Busy(w) /\ worker[w].pc = "flush" /\ worker[w] \in BusySlot
    BY <1>b, <1>6 DEF UninstallDelete, At, Busy
  <2>2. CASE Live(Target(w)) /\ Referenced(w)
    <3>1. worker'[w] = slot /\ UNCHANGED row
      BY <1>6, <2>2 DEF UninstallDelete, TypeInv, TypeOK
    <3>2. slot.pc = "failjob"
      BY <2>1 DEF BusySlot
    <3> HIDE DEF slot
    <3> QED BY <3>1, <3>2, RowsSame DEF AloneStep
  <2>3. CASE ~(Live(Target(w)) /\ Referenced(w))
    <3>1. worker'[w].pc = "finish"
      BY <1>6, <2>1, <2>3, GotoFields DEF UninstallDelete
    <3>2. \A i \in Installations : i # Target(w) => row'[i] = row[i]
      BY <1>6, <2>3 DEF UninstallDelete, TypeInv, TypeOK
    <3> QED BY <2>1, <3>1, <3>2 DEF AloneStep
  <2> QED BY <2>2, <2>3
<1>7. CASE StartContainers(w) \/ StopContainers(w) \/ RestartContainers(w)
  <2>1. Busy(w) /\ Goto(w, "commit") /\ UNCHANGED row
    BY <1>7 DEF StartContainers, StopContainers, RestartContainers, SwitchStored, At, Busy
  <2> QED BY <2>1, GotoAlone, RowsSame
<1>8. CASE PowerRecord(w)
  <2> DEFINE i == Target(w)
             slot == [worker[w] EXCEPT !.pc = "failjob", !.dead = TRUE]
  <2>1. Busy(w) /\ worker[w] \in BusySlot /\ i \in Installations
    BY <1>b, <1>8, <1>t, SlotFacts DEF Busy, PowerRecord, At, TypeInv
  <2>2. Aim(Type(w)) \in LiveStatus
    BY DEF Aim, LiveStatus
  <2>3. RowsLive
    BY <1>8, <2>1, <2>2, RowsMarked, RowsSame DEF PowerRecord
  <2>4. CASE Goto(w, "finish")
    BY <2>1, <2>3, <2>4, GotoAlone
  <2>5. CASE ~Goto(w, "finish")
    <3>1. worker'[w] = slot
      BY <1>8, <2>5 DEF PowerRecord, TypeInv, TypeOK
    <3>2. slot.pc = "failjob"
      BY <2>1 DEF BusySlot
    <3> HIDE DEF slot
    <3> QED BY <2>3, <3>1, <3>2 DEF AloneStep
  <2> QED BY <2>4, <2>5
<1> QED BY <1>2, <1>3, <1>4, <1>5, <1>6, <1>7, <1>8, <1>9 DEF OwnStep

\* Steps that execute no task delete no row.
LEMMA ElsewhereLive ==
    ASSUME TypeInv, [Next]_vars
    PROVE  RowsLive \/ \E w \in Workers : TaskStep(w)
<1>1. ASSUME NEW r \in Requests, NEW i \in Installations, NEW j \in Jobs,
             CreateInstallation(r, i, j)
      PROVE  RowsLive
  <2>1. /\ row[i].status = "free" /\ row'[i].status = "pending"
        /\ \A k \in Installations : k # i => row'[k] = row[k]
    BY <1>1 DEF CreateInstallation, NextInstallation, TypeInv, TypeOK
  <2> QED BY <2>1 DEF RowsLive, Live, LiveStatus
<1>2. ASSUME NEW i \in Installations, NEW j \in Jobs, Uninstall(i, j)
      PROVE  RowsLive
  BY <1>2, RowsMarked DEF Uninstall, LiveStatus
<1> QED BY <1>1, <1>2, RowsSame DEF Next, ApiNext, CheckExisting, RequestOperation,
           UpdateConfig, Delay, DelayFails, ReaperNext, ReaperReadIds, ReaperList,
           ReaperRemove, ReaperFails, reaperFrame, FaultNext, WorkerCrash,
           Redelivery, ChildLost, vars

AloneInv ==
    /\ DeletedMeansGone
    /\ \A w \in Workers : Creating(w) => Live(Target(w))
    /\ \A w \in Workers :
           worker[w].pc \in {"volumes", "delete", "flush"} =>
               ListManaged(Target(w)) = {}

LEMMA AloneElsewhere ==
    ASSUME TypeInv, RunInv, AloneInv, Elsewhere, RowsLive
    PROVE  AloneInv'
<1>1. ASSUME NEW v \in Workers, Busy(v)'
      PROVE  /\ worker'[v] = worker[v] /\ Type(v)' = Type(v) /\ Target(v)' = Target(v)
             /\ Target(v) \in Installations
  <2>1. worker'[v] = worker[v] /\ Busy(v)
    BY <1>1, ElsewhereMoves DEF Busy
  <2> QED BY <2>1, ElsewhereKept, SlotKept, InstType DEF RunInv, Target
<1>2. DeletedMeansGone'
  BY DEF AloneInv, DeletedMeansGone, ListManaged, Elsewhere, RowsLive
<1>3. ASSUME NEW v \in Workers, Creating(v)' PROVE Live(Target(v))'
  <2>1. Busy(v)'
    BY <1>3 DEF Creating, Busy
  <2>2. Creating(v)
    BY <1>1, <1>3, <2>1 DEF Creating, Creators
  <2>3. Live(Target(v))
    BY <2>2 DEF AloneInv
  <2>4. PICK i \in Installations : i = Target(v)
    BY <1>1, <2>1
  <2>5. row'[i].status \in LiveStatus
    BY <2>3, <2>4 DEF RowsLive, Live
  <2>6. Target(v)' = i
    BY <1>1, <2>1, <2>4
  <2> QED BY <2>5, <2>6 DEF Live
<1>4. ASSUME NEW v \in Workers, worker'[v].pc \in {"volumes", "delete", "flush"}
      PROVE  ListManaged(Target(v))' = {}
  <2>1. Busy(v)'
    BY <1>4 DEF Busy
  <2>2. ListManaged(Target(v)) = {}
    BY <1>1, <1>4, <2>1 DEF AloneInv
  <2> QED BY <1>1, <2>1, <2>2 DEF ListManaged, Elsewhere
<1> QED BY <1>2, <1>3, <1>4 DEF AloneInv

LEMMA AloneTask ==
    ASSUME TypeInv, TypeInv', RunInv, AloneInv, TasksApart, NEW w \in Workers,
           RunStep(w), AloneStep(w)
    PROVE  AloneInv'
<1>1. ASSUME GoesOn(w)
      PROVE  /\ Type(w)' = Type(w) /\ Target(w)' = Target(w)
             /\ Target(w) \in Installations
  BY <1>1, RunMoves, SlotKept, InstType DEF RunInv, GoesOn, Target
<1>2. ASSUME NEW c \in containers'
      PROVE  \/ \E d \in containers : d.inst = c.inst
             \/ c.inst = Target(w) /\ Live(Target(w)) /\ worker[w].pc = "create"
  BY <1>2 DEF RunStep, Origin, Stood, Made, At, AloneInv, Creating
<1>3. DeletedMeansGone'
  <2> SUFFICES ASSUME NEW i \in Installations, row'[i].status = "deleted",
                      NEW c \in containers', c.inst = i
               PROVE  FALSE
    BY DEF DeletedMeansGone, ListManaged
  <2>1. CASE row[i].status = "deleted"
    BY <1>2, <2>1 DEF AloneInv, DeletedMeansGone, ListManaged, Live, LiveStatus
  <2>2. CASE row[i].status # "deleted"
    <3>1. worker[w].pc = "flush" /\ i = Target(w)
      BY <2>2 DEF AloneStep, RowsLive
    <3> QED BY <1>2, <3>1 DEF AloneInv, ListManaged
  <2> QED BY <2>1, <2>2
<1>4. ASSUME Creating(w)' PROVE Live(Target(w))'
  <2>1. GoesOn(w)
    BY <1>4, RunMoves DEF RunInv, Creating, NewRun
  <2>2. Live(Target(w)) /\ RowsLive
    BY <1>1, <1>4, <2>1 DEF AloneStep, AloneInv, Creating, Creators
  <2>3. PICK i \in Installations : i = Target(w)
    BY <1>1, <2>1
  <2>4. row'[i].status \in LiveStatus
    BY <2>2, <2>3 DEF RowsLive, Live
  <2>5. Target(w)' = i
    BY <1>1, <2>1, <2>3
  <2> QED BY <2>4, <2>5 DEF Live
<1>5. ASSUME worker'[w].pc \in {"volumes", "delete", "flush"}
      PROVE  ListManaged(Target(w))' = {}
  <2>1. GoesOn(w)
    BY <1>5, RunMoves DEF RunInv, NewRun
  <2>2. \A c \in containers' : c.inst # Target(w)
    BY <1>2, <1>5 DEF AloneStep, AloneInv, ListManaged
  <2> QED BY <1>1, <2>1, <2>2 DEF ListManaged
<1>6. ASSUME NEW v \in Workers, v # w, Busy(v)'
      PROVE  /\ worker'[v] = worker[v] /\ Type(v)' = Type(v) /\ Target(v)' = Target(v)
             /\ Target(v) \in Installations
             /\ Busy(w) => Target(v) # Target(w)
  <2>1. worker'[v] = worker[v] /\ Busy(v) /\ JobsKept
    BY <1>6, RunMoves DEF RunInv, Busy
  <2>2. Busy(w) => Target(v) # Target(w)
    BY <1>6, <2>1 DEF TasksApart
  <2> QED BY <2>1, <2>2, SlotKept, InstType DEF RunInv, Target
<1>7. ASSUME NEW v \in Workers, v # w, Creating(v)' PROVE Live(Target(v))'
  <2>1. Busy(v)'
    BY <1>7 DEF Creating, Busy
  <2>2. Creating(v)
    BY <1>6, <1>7, <2>1 DEF Creating, Creators
  <2>3. Live(Target(v))
    BY <2>2 DEF AloneInv
  <2>4. PICK i \in Installations : i = Target(v)
    BY <1>6, <1>7, <2>1
  <2>5. Busy(w) => i # Target(w)
    BY <1>6, <1>7, <2>1, <2>4
  <2>6. row'[i].status \in LiveStatus
    BY <2>3, <2>4, <2>5 DEF AloneStep, RowsLive, Live, Busy
  <2>7. Target(v)' = i
    BY <1>6, <1>7, <2>1, <2>4
  <2> QED BY <2>6, <2>7 DEF Live
<1>8. ASSUME NEW v \in Workers, v # w, worker'[v].pc \in {"volumes", "delete", "flush"}
      PROVE  ListManaged(Target(v))' = {}
  <2>1. Busy(v)'
    BY <1>8 DEF Busy
  <2>2. ListManaged(Target(v)) = {}
    BY <1>6, <1>8, <2>1 DEF AloneInv
  <2>3. ASSUME NEW c \in containers' PROVE c.inst # Target(v)
    BY <1>2, <1>6, <1>8, <2>1, <2>2, <2>3 DEF ListManaged, Busy
  <2> QED BY <1>6, <1>8, <2>1, <2>3 DEF ListManaged
<1> QED BY <1>3, <1>4, <1>5, <1>7, <1>8 DEF AloneInv

\* However many slots there are and whatever Docker refuses: an installation
\* that is deleted and has containers had two tasks at work on it at once, or
\* an uninstall whose removal left one behind.  No crash, loss, redelivery,
\* retry, rollback or failed deletion does it alone.
THEOREM LeftoversExplained ==
    Spec => ([]TasksApart /\ [][TeardownComplete]_vars => []DeletedMeansGone)
<1> DEFINE Inv == TypeInv /\ RunInv /\ AloneInv
<1>1. Init => Inv
  BY TypeInit, RunInit DEF Init, AloneInv, DeletedMeansGone, Creating, FreeRow, IdleSlot
<1>2. Inv /\ TasksApart /\ [Next]_vars /\ [TeardownComplete]_vars => Inv'
  <2> SUFFICES ASSUME Inv, TasksApart, [Next]_vars, [TeardownComplete]_vars
               PROVE  AloneInv'
    BY TypeStep, RunInvStep
  <2>0. ASSUME UNCHANGED vars PROVE Elsewhere /\ RowsLive
    BY <2>0, RowsSame DEF vars, Elsewhere
  <2>1. ASSUME NEW w \in Workers, TaskStep(w), ~LostStep(w), TeardownComplete
        PROVE  AloneInv'
    <3>1. AloneStep(w)
      BY <2>1, TaskStepCases, SharedAlone, OwnAlone
    <3> QED BY <2>1, <3>1, TaskRuns, TypeStep, AloneTask
  <2>2. ASSUME NEW w \in Workers, LostStep(w) PROVE Elsewhere /\ RowsLive
    BY <2>2, LostElsewhere, RowsSame
  <2>3. CASE ~\E w \in Workers : TaskStep(w)
    BY <2>3, RunNext, ElsewhereLive, AloneElsewhere
  <2> QED BY <2>0, <2>1, <2>2, <2>3, AloneElsewhere
<1>3. Inv => DeletedMeansGone
  BY DEF AloneInv
<1> QED BY <1>1, <1>2, <1>3, PTL DEF Spec

-----------------------------------------------------------------------------
(* A run that fails leaves no container up.                                *)

\* How a slot moves through the loop and ends: a task that creates containers
\* comes to its handler before the loop or after it removed what it started.
EndStep(w) ==
    /\ Busy(w) => worker[w].svc <= worker'[w].svc \/ worker'[w].pc = "idle"
    /\ worker'[w].pc = "failjob" /\ Type(w) \in Creators =>
           \/ worker[w].svc = 1
           \/ \A c \in containers' : c.id \notin CreatedIds(w)
    /\ worker'[w].pc = "failinst" => worker[w].pc = "failjob"
    /\ worker'[w].pc = "idle" =>
           \/ worker[w].pc \in {"failjob", "failinst"}
           \/ worker[w].pc = "finish" /\ MarkedJob(w, "completed")

LEMMA GotoEnds ==
    ASSUME TypeInv, NEW w \in Workers, Busy(w), NEW pc, Goto(w, pc),
           pc \notin {"failjob", "failinst", "idle"}
    PROVE  EndStep(w)
<1>1. worker[w].svc \in Nat
  BY GotoFields, PlatformAssumption DEF BusySlot
<1> QED BY <1>1, GotoFields DEF EndStep

LEMMA UpdateEnds ==
    ASSUME TypeInv, NEW w \in Workers, Busy(w), NEW slot, worker'[w] = slot,
           slot.svc \in {worker[w].svc, worker[w].svc + 1},
           slot.pc \notin {"failjob", "failinst", "idle"}
    PROVE  EndStep(w)
<1>1. worker[w].svc \in Nat
  BY PlatformAssumption DEF Busy, TypeInv, TypeOK, Slot, IdleSlot, BusySlot
<1> QED BY <1>1 DEF EndStep

LEMMA SharedEnds ==
    ASSUME TypeInv, ~DockerErrors, NEW w \in Workers, NEW types \in SUBSET JobTypes,
           SharedStep(w, types), ~LostStep(w)
    PROVE  EndStep(w)
<1>11. ASSUME NEW m \in queue, Begin(w, m, types) PROVE EndStep(w)
  <2>1. worker'[w].pc = "load" /\ ~Busy(w)
    BY <1>11 DEF Begin, TypeInv, TypeOK, IdleSlot, Busy
  <2> QED BY <2>1 DEF EndStep
<1> SUFFICES ASSUME Busy(w) PROVE EndStep(w)
  BY <1>11 DEF SharedStep, LostStep, LoadRow, CreateContainer, StartContainer, ContainerReady,
     TaskFails, RecordContainers, CompleteJob, Rollback, HandlerRaises, FailJob,
     FailInstallation, FailJobAndRetry, RemoveOld, At, Busy, PC
<1>b. worker[w] \in BusySlot /\ worker[w].svc \in Nat
  BY PlatformAssumption DEF Busy, TypeInv, TypeOK, Slot, IdleSlot, BusySlot
<1>l. ASSUME worker' = [worker EXCEPT ![w] = IdleSlot],
             \/ worker[w].pc \in {"failjob", "failinst"}
             \/ worker[w].pc = "finish" /\ MarkedJob(w, "completed")
      PROVE  EndStep(w)
  <2>1. worker'[w].pc = "idle"
    BY <1>l DEF TypeInv, TypeOK, IdleSlot
  <2> QED BY <1>l, <2>1 DEF EndStep
<1>1. ASSUME NEW next \in {"remove", "pull", "power"}, LoadRow(w, types, next)
      PROVE  EndStep(w)
  <2> DEFINE i == Target(w)
             slot == [worker[w] EXCEPT !.pc = next, !.seen = row[i].status,
                                       !.ids = row[i].ids]
  <2>1. CASE Live(i)
    <3>1. worker'[w] = slot
      BY <1>1, <2>1 DEF LoadRow, TypeInv, TypeOK
    <3>2. slot.pc = next /\ slot.svc = worker[w].svc
      BY <1>b DEF BusySlot
    <3> HIDE DEF slot
    <3> QED BY <1>1, <3>1, <3>2, UpdateEnds
  <2>2. CASE ~Live(i)
    <3>1. Goto(w, "failjob") /\ worker[w].svc = 1
      BY <1>1, <2>2 DEF LoadRow, At, TypeInv, LoopIndex
    <3> QED BY <1>b, <3>1, GotoFields DEF EndStep
  <2> QED BY <2>1, <2>2
<1>2. CASE CreateContainer(w, types) \/ RemoveOld(w, types)
  BY <1>2, GotoEnds DEF CreateContainer, RemoveOld
<1>3. CASE StartContainer(w, types)
  <2> DEFINE slot == [worker[w] EXCEPT !.pc = "ready", !.svc = @ + 1]
  <2>1. worker'[w] = slot
    BY <1>3 DEF StartContainer, TypeInv, TypeOK
  <2>2. slot.pc = "ready" /\ slot.svc = worker[w].svc + 1
    BY <1>b DEF BusySlot
  <2> HIDE DEF slot
  <2> QED BY <2>1, <2>2, UpdateEnds
<1>4. CASE ContainerReady(w, types)
  BY <1>4, GotoEnds DEF ContainerReady, AfterReady
<1>5. ASSUME NEW pcs, NEW handler \in {"undo", "failjob"},
             TaskFails(w, types, pcs, handler),
             handler = "failjob" => types = uninstall
      PROVE  EndStep(w)
  <2>1. CASE handler = "undo"
    BY <1>5, <2>1, GotoEnds DEF TaskFails
  <2>2. CASE handler = "failjob"
    <3>1. Type(w) \notin Creators /\ Goto(w, "failjob")
      BY <1>5, <2>2 DEF TaskFails, uninstall, Creators, install, recreate, reconfigure,
         update
    <3> QED BY <1>b, <3>1, GotoFields DEF EndStep
  <2> QED BY <2>1, <2>2
<1>6. CASE RecordContainers(w, types)
  <2> DEFINE done == [worker[w] EXCEPT !.pc = "finish", !.seen = "running"]
             gone == [worker[w] EXCEPT !.pc = "undo", !.dead = TRUE]
  <2>1. worker'[w] \in {done, gone}
    BY <1>6 DEF RecordContainers, TypeInv, TypeOK
  <2>2. /\ done.pc = "finish" /\ done.svc = worker[w].svc
        /\ gone.pc = "undo" /\ gone.svc = worker[w].svc
    BY <1>b DEF BusySlot
  <2> HIDE DEF done, gone
  <2> QED BY <2>1, <2>2, UpdateEnds
<1>7. CASE CompleteJob(w, types) \/ HandlerRaises(w, types) \/ FailJobAndRetry(w, types)
           \/ FailInstallation(w, types)
  BY <1>7, <1>l DEF CompleteJob, HandlerRaises, FailJobAndRetry, FailInstallation, At,
     MarkedJob
<1>8. CASE Rollback(w, types)
  <2>1. /\ Goto(w, "failjob")
        /\ containers' = containers \ ById(CreatedIds(w))
    BY <1>8 DEF Rollback, RemoveCreated, Reached
  <2>2. \A c \in containers' : c.id \notin CreatedIds(w)
    BY <2>1 DEF ById
  <2> QED BY <1>b, <2>1, <2>2, GotoFields DEF EndStep
<1>9. CASE FailJob(w, types)
  <2>1. Goto(w, "failinst") /\ worker[w].pc = "failjob"
    BY <1>9 DEF FailJob, At
  <2> QED BY <1>b, <2>1, GotoFields DEF EndStep
<1> QED BY <1>1, <1>2, <1>3, <1>4, <1>5, <1>6, <1>7, <1>8, <1>9, <1>11
        DEF SharedStep, LostStep

LEMMA OwnEnds ==
    ASSUME TypeInv, NEW w \in Workers, OwnStep(w)
    PROVE  EndStep(w)
<1>b. ASSUME Busy(w) PROVE worker[w] \in BusySlot /\ worker[w].svc \in Nat
  BY <1>b, PlatformAssumption DEF Busy, TypeInv, TypeOK, Slot, IdleSlot, BusySlot
<1>1. ASSUME NEW types, NEW status, NEW next \in {"create", "remove"},
             LoadAndMark(w, types, status, next)
      PROVE  EndStep(w)
  <2> DEFINE i == Target(w)
             slot == [worker[w] EXCEPT !.pc = next, !.seen = status,
                                       !.ids = row[i].ids]
  <2>1. Busy(w) /\ worker[w] \in BusySlot /\ worker[w].svc = 1 /\ worker[w].svc \in Nat
    BY <1>b, <1>1 DEF Busy, LoadAndMark, At, TypeInv, LoopIndex
  <2>2. CASE Live(i)
    <3>1. worker'[w] = slot
      BY <1>1, <2>2 DEF LoadAndMark, TypeInv, TypeOK
    <3>2. slot.pc = next /\ slot.svc = worker[w].svc
      BY <2>1 DEF BusySlot
    <3> HIDE DEF slot
    <3> QED BY <1>1, <2>1, <3>1, <3>2, UpdateEnds
  <2>3. CASE ~Live(i)
    BY <1>1, <2>1, <2>3, GotoFields DEF LoadAndMark, EndStep
  <2> QED BY <2>2, <2>3
<1>2. CASE InstallMark(w) \/ UninstallMark(w)
  BY <1>1, <1>2 DEF InstallMark, UninstallMark
<1>3. CASE UpdatePull(w) \/ UninstallContainers(w) \/ UninstallVolumes(w)
  BY <1>3, GotoEnds DEF UpdatePull, UninstallContainers, UninstallVolumes, At, Busy
<1>6. CASE UninstallUnlink(w)
  <2> DEFINE slot == [worker[w] EXCEPT !.pc = "flush",
                                       !.unlinked = {j \in Jobs : job[j].inst = Target(w)}]
  <2>1. Busy(w) /\ worker[w] \in BusySlot
    BY <1>b, <1>6 DEF UninstallUnlink, At, Busy
  <2>2. worker'[w] = slot
    BY <1>6 DEF UninstallUnlink, TypeInv, TypeOK
  <2>3. slot.pc = "flush" /\ slot.svc = worker[w].svc
    BY <2>1 DEF BusySlot
  <2> HIDE DEF slot
  <2> QED BY <2>1, <2>2, <2>3, UpdateEnds
<1>7. CASE UninstallDelete(w)
  <2> DEFINE slot == [worker[w] EXCEPT !.pc = "failjob", !.dead = TRUE]
  <2>1. Busy(w) /\ worker[w] \in BusySlot /\ Type(w) \notin Creators
    BY <1>b, <1>7 DEF Busy, UninstallDelete, At, uninstall, Creators, install, recreate,
       reconfigure, update
  <2>2. CASE Goto(w, "finish")
    BY <2>1, <2>2, GotoEnds
  <2>3. CASE ~Goto(w, "finish")
    <3>1. worker'[w] = slot
      BY <1>7, <2>3 DEF UninstallDelete, TypeInv, TypeOK
    <3>2. slot.pc = "failjob" /\ slot.svc = worker[w].svc
      BY <2>1 DEF BusySlot
    <3> HIDE DEF slot
    <3> QED BY <1>b, <2>1, <3>1, <3>2 DEF EndStep
  <2> QED BY <2>2, <2>3
<1>4. CASE StartContainers(w) \/ StopContainers(w) \/ RestartContainers(w)
  BY <1>4, GotoEnds DEF StartContainers, StopContainers, RestartContainers,
     SwitchStored, At, Busy
<1>5. CASE PowerRecord(w)
  <2> DEFINE slot == [worker[w] EXCEPT !.pc = "failjob", !.dead = TRUE]
  <2>1. Busy(w) /\ worker[w] \in BusySlot /\ Type(w) \notin Creators
    BY <1>b, <1>5 DEF Busy, PowerRecord, At, power, Creators, install, recreate,
       reconfigure, update
  <2>2. CASE Goto(w, "finish")
    BY <2>1, <2>2, GotoEnds
  <2>3. CASE ~Goto(w, "finish")
    <3>1. worker'[w] = slot
      BY <1>5, <2>3 DEF PowerRecord, TypeInv, TypeOK
    <3>2. slot.pc = "failjob" /\ slot.svc = worker[w].svc
      BY <2>1 DEF BusySlot
    <3> HIDE DEF slot
    <3> QED BY <1>b, <2>1, <3>1, <3>2 DEF EndStep
  <2> QED BY <2>2, <2>3
<1> QED BY <1>2, <1>3, <1>4, <1>5, <1>6, <1>7 DEF OwnStep

\* A container id is recorded when its run has come to the end of its task.
Recorded(id) ==
    \/ job[id.job].status = "completed"
    \/ \E w \in Workers : SameRun(w, id) /\ worker[w].pc = "finish"

\* The ids in rows and sessions are recorded.
RowsRecorded == \A i \in Installations : \A id \in row[i].ids : Recorded(id)
HeldRecorded == \A w \in Workers : \A id \in worker[w].ids : Recorded(id)

MadeByCreators == \A c \in containers : job[c.id.job].type \in Creators

\* What a run has up are services its loop has passed, and a run that failed
\* has nothing up by the time it marks its job.
OwnUp ==
    \A c \in containers, w \in Workers :
        SameRun(w, c.id) /\ c.up =>
            c.id.svc < worker[w].svc /\ worker[w].pc \notin {"failjob", "failinst"}

UpInv ==
    /\ FailedRunsLeaveNothingUp
    /\ RowsRecorded /\ HeldRecorded /\ MadeByCreators /\ OwnUp

\* Without faults only tasks move the slots.
LEMMA SlotsStand ==
    ASSUME TypeInv, MaxFaults = 0, [Next]_vars
    PROVE  \/ Elsewhere /\ UNCHANGED worker
           \/ \E w \in Workers : TaskStep(w) /\ ~LostStep(w)
<1>1. ~FaultNext
  BY DEF TypeInv, TypeOK, FaultNext, WorkerCrash, Redelivery, ChildLost, Fault
<1>2. UNCHANGED worker \/ \E w \in Workers : TaskStep(w)
  BY <1>1 DEF Next, ApiNext, CheckExisting, CreateInstallation, Uninstall,
     RequestOperation, UpdateConfig, Delay, DelayFails, apiFrame, ReaperNext,
     ReaperReadIds, ReaperList, ReaperRemove, ReaperFails, reaperFrame, vars
<1>3. ASSUME NEW w \in Workers, LostStep(w) PROVE Elsewhere /\ UNCHANGED worker
  BY <1>3, LostElsewhere
<1> QED BY <1>2, <1>3, RunNext

\* A completed job stays completed.
LEMMA CompletedStays ==
    ASSUME TypeInv, TokenInv, NEW w \in Workers, SlotStep(w), NEW j \in Jobs,
           job[j].status = "completed"
    PROVE  job'[j].status = "completed"
<1>1. ASSUME worker[w].pc # "idle", NEW status \in JobStatus, MarkedJob(w, status)
      PROVE  job'[j].status = "completed"
  <2>1. Inserted(worker[w].job) /\ job[worker[w].job].status # "completed"
    BY <1>1 DEF TokenInv, TokenCount
  <2>2. j # worker[w].job
    BY <2>1
  <2> QED BY <1>1, <2>1, <2>2, MarkedFields
<1>2. ASSUME NEW m \in queue,
             job' = [job EXCEPT ![m.job].status = "running", ![m.job].runs = @ + 1]
      PROVE  job'[j].status = "completed"
  <2>1. m.job # j
    BY DEF TokenInv, TokenCount
  <2> QED BY <1>2, <2>1 DEF TypeInv, TypeOK
<1>3. CASE UNCHANGED job
  BY <1>3
<1>4. "failed" \in JobStatus /\ "completed" \in JobStatus
  BY DEF JobStatus
<1> QED BY <1>1, <1>2, <1>3, <1>4 DEF SlotStep, Takes, Works, Fails, Completes, GivesUp,
           Raises, Stays, Leaves

\* Two slots execute two jobs, and no completed one.
LEMMA OneRun ==
    ASSUME TokenInv, NEW v \in Workers, NEW id, SameRun(v, id)
    PROVE  /\ job[id.job].status # "completed"
           /\ \A u \in Workers : SameRun(u, id) => u = v
           /\ \A u \in Workers : Busy(u) /\ worker[u].job = id.job => u = v
  BY DEF TokenInv, TokenCount, OneExecution, SameRun, Executes, Busy

LEMMA RecordedKept ==
    ASSUME TypeInv, TypeInv', TokenInv, RunInv, NEW w \in Workers, RunStep(w),
           EndStep(w), NEW id, id.job \in Jobs, Recorded(id)
    PROVE  Recorded(id)'
<1>1. CASE job[id.job].status = "completed"
  BY <1>1, CompletedStays DEF RunStep, Recorded
<1>2. ASSUME NEW u \in Workers, SameRun(u, id), worker[u].pc = "finish"
      PROVE  Recorded(id)'
  <2>1. CASE u # w
    <3>1. worker'[u] = worker[u]
      BY <2>1, RunMoves DEF RunInv
    <3> QED BY <1>2, <3>1 DEF Recorded, SameRun, Executes
  <2>2. CASE u = w
    <3>1. worker'[w].pc = "idle"
      BY <1>2, <2>2 DEF RunStep, WorkStep, HeldIds
    <3>2. MarkedJob(w, "completed")
      BY <1>2, <2>2, <3>1 DEF EndStep
    <3>3. worker[w].pc # "idle" /\ worker[w].job = id.job /\ Inserted(worker[w].job)
      BY <1>2, <2>2 DEF SameRun, Executes, TokenInv, TokenCount
    <3>4. job'[id.job].status = "completed"
      BY <3>2, <3>3, MarkedFields DEF JobStatus
    <3> QED BY <3>4 DEF Recorded
  <2> QED BY <2>1, <2>2
<1> QED BY <1>1, <1>2 DEF Recorded

\* The ids in rows and sessions, and of containers, are ids of jobs.
LEMMA IdTypes ==
    ASSUME TypeInv
    PROVE  /\ \A i \in Installations : \A id \in row[i].ids : id \in ContainerId
           /\ \A w \in Workers : \A id \in worker[w].ids : id \in ContainerId
           /\ \A c \in containers : c.id \in ContainerId
<1>1. \A i \in Installations : \A id \in row[i].ids : id \in ContainerId
  BY DEF TypeInv, TypeOK, Row
<1>2. \A w \in Workers : \A id \in worker[w].ids : id \in ContainerId
  BY DEF TypeInv, TypeOK, Slot, IdleSlot, BusySlot
<1>3. \A c \in containers : c.id \in ContainerId
  BY DEF TypeInv, TypeOK, Container
<1> QED BY <1>1, <1>2, <1>3

LEMMA IdJob == \A id \in ContainerId : id.job \in Jobs /\ id.svc \in Services
  BY DEF ContainerId

LEMMA UpElsewhere ==
    ASSUME TypeInv, RunInv, UpInv, Elsewhere, UNCHANGED worker
    PROVE  UpInv'
<1>1. \A j \in Jobs : Inserted(j) => job'[j] = job[j]
  BY DEF Elsewhere
<1>2. ASSUME NEW id \in ContainerId, Recorded(id) PROVE Recorded(id)'
  <2>1. CASE job[id.job].status = "completed"
    BY <1>1, <2>1, IdJob DEF Recorded, Inserted
  <2> QED BY <1>2, <2>1 DEF Recorded, SameRun, Executes
<1>3. RowsRecorded'
  BY <1>2, IdTypes DEF RowsRecorded, UpInv, Elsewhere
<1>4. HeldRecorded'
  BY <1>2, IdTypes DEF HeldRecorded, UpInv
<1>5. ASSUME NEW c \in containers' PROVE c \in containers /\ job'[c.id.job] = job[c.id.job]
  BY <1>1 DEF Elsewhere, RunInv, ContainerRuns, RunOf
<1>6. MadeByCreators'
  BY <1>5 DEF MadeByCreators, UpInv, Creators
<1>7. OwnUp'
  BY <1>5 DEF OwnUp, UpInv, SameRun, Executes
<1>8. FailedRunsLeaveNothingUp'
  BY <1>5 DEF FailedRunsLeaveNothingUp, UpInv, RunActive, Executes
<1> QED BY <1>3, <1>4, <1>6, <1>7, <1>8 DEF UpInv

\* A recorded run that still executes is at its very end.
LEMMA RecordedEnd ==
    ASSUME TypeInv, TokenInv, RunInv, NEW v \in Workers, NEW id \in ContainerId,
           SameRun(v, id), Recorded(id), job[id.job].type \in Creators
    PROVE  worker[v].pc = "finish" /\ id.svc < worker[v].svc
<1>1. worker[v].pc = "finish"
  BY OneRun DEF Recorded
<1>2. Type(v) \in Creators
  BY DEF Type, SameRun, Executes
<1>3. worker[v].svc = NumServices + 1
  BY <1>1, <1>2 DEF RunInv, LoopDone
<1> QED BY <1>1, <1>3, IdJob, PlatformAssumption DEF Services

LEMMA OwnUpTask ==
    ASSUME TypeInv, TypeInv', TokenInv, RunInv, UpInv, NEW w \in Workers,
           RunStep(w), EndStep(w)
    PROVE  OwnUp'
<1> SUFFICES ASSUME NEW c \in containers', NEW v \in Workers, SameRun(v, c.id)', c.up
             PROVE  /\ c.id.svc < worker'[v].svc
                    /\ worker'[v].pc \notin {"failjob", "failinst"}
  BY DEF OwnUp
<1>1. PICK d \in containers :
          /\ d.id = c.id
          /\ \/ d.up
             \/ Busy(w) /\ worker[w].pc = "power" /\ c.id \in worker[w].ids
             \/ /\ worker[w].pc = "start" /\ c.id = OwnId(w, worker[w].svc)
                /\ worker'[w].pc = "ready" /\ worker'[w].svc = worker[w].svc + 1
  BY DEF RunStep, Origin, Stood, Made
<1>2. c.id \in ContainerId /\ job[c.id.job].type \in Creators
  BY <1>1, IdTypes DEF UpInv, MadeByCreators
<1>3. c.id \in worker[w].ids => Recorded(c.id)
  BY DEF UpInv, HeldRecorded
<1>4. CASE v # w
  <2>1. worker'[v] = worker[v] /\ SameRun(v, c.id)
    BY <1>4, RunMoves DEF RunInv, SameRun, Executes
  <2>2. CASE d.up
    BY <1>1, <2>1, <2>2 DEF UpInv, OwnUp
  <2>3. CASE c.id \in worker[w].ids
    BY <1>2, <1>3, <2>1, <2>3, RecordedEnd
  <2>4. CASE worker[w].pc = "start" /\ c.id = OwnId(w, worker[w].svc)
    <3>1. Busy(w) /\ c.id.job = worker[w].job
      BY <2>4 DEF Busy, OwnId, Id
    <3> QED BY <1>4, <2>1, <3>1, OneRun
  <2> QED BY <1>1, <2>2, <2>3, <2>4
<1>5. CASE v = w
  <2>1. GoesOn(w)
    <3>1. ASSUME NEW j \in Jobs, NewRun(w, j) PROVE FALSE
      <4>1. c.id.job = j /\ c.id.run = job[j].runs + 1 /\ job[j].runs \in Nat
        BY <1>5, <3>1, TokenTypes DEF SameRun, Executes, NewRun
      <4>2. c.id.run \in 1..job[c.id.job].runs
        BY <1>1 DEF RunInv, ContainerRuns, RunOf
      <4> QED BY <4>1, <4>2
    <3> QED BY <1>5, <3>1, RunMoves DEF RunInv, SameRun, Executes
  <2>2. SameRun(w, c.id) /\ Busy(w) /\ worker'[w].pc # "idle"
    BY <1>5, <2>1 DEF GoesOn, SameRun, Executes, Busy
  <2>3. worker[w].svc <= worker'[w].svc /\ worker[w].svc \in 1..(NumServices + 1)
    BY <2>2 DEF EndStep, Busy, TypeInv, TypeOK, Slot, IdleSlot, BusySlot
  <2>4. worker'[w].svc \in Nat
    BY <2>2, PlatformAssumption DEF TypeInv, TypeOK, Slot, IdleSlot, BusySlot
  <2>5. c.id.svc \in Services /\ c.id.svc \in Nat
    BY <1>2, IdJob DEF Services
  <2>6. CASE d.up
    <3>1. c.id.svc < worker[w].svc /\ worker[w].pc \notin {"failjob", "failinst"}
      BY <1>1, <2>2, <2>6 DEF UpInv, OwnUp
    <3>2. c.id \in CreatedIds(w)
      <4>1. c.id = OwnId(w, c.id.svc)
        BY <1>2, <2>2 DEF OwnId, Id, ContainerId, SameRun, Executes
      <4> QED BY <2>5, <3>1, <4>1 DEF CreatedIds
    <3>3. Type(w) \in Creators
      BY <1>2, <2>2 DEF Type, SameRun, Executes
    <3>4. worker[w].svc # 1
      BY <2>5, <3>1 DEF Services
    <3>5. worker'[w].pc \notin {"failjob", "failinst"}
      BY <3>1, <3>2, <3>3, <3>4 DEF EndStep
    <3>6. c.id.svc < worker'[w].svc
      BY <2>3, <2>4, <2>5, <3>1, PlatformAssumption
    <3> QED BY <1>5, <3>5, <3>6
  <2>7. CASE worker[w].pc = "power" /\ c.id \in worker[w].ids
    BY <1>2, <1>3, <2>2, <2>7, RecordedEnd
  <2>8. CASE /\ worker[w].pc = "start" /\ c.id = OwnId(w, worker[w].svc)
             /\ worker'[w].pc = "ready" /\ worker'[w].svc = worker[w].svc + 1
    <3>1. c.id.svc = worker[w].svc
      BY <2>8 DEF OwnId, Id
    <3> QED BY <1>5, <2>5, <2>8, <3>1
  <2> QED BY <1>1, <2>6, <2>7, <2>8
<1> QED BY <1>4, <1>5

LEMMA FailedRunsTask ==
    ASSUME TypeInv, TypeInv', TokenInv, RunInv, UpInv, NEW w \in Workers,
           RunStep(w), EndStep(w)
    PROVE  FailedRunsLeaveNothingUp'
<1> SUFFICES ASSUME NEW c \in containers', c.up
             PROVE  \/ \E v \in Workers : SameRun(v, c.id)'
                    \/ job'[c.id.job].status = "completed"
  BY DEF FailedRunsLeaveNothingUp, RunActive, SameRun, Executes
<1>1. PICK d \in containers :
          /\ d.id = c.id
          /\ \/ d.up
             \/ Busy(w) /\ worker[w].pc = "power" /\ c.id \in worker[w].ids
             \/ /\ worker[w].pc = "start" /\ c.id = OwnId(w, worker[w].svc)
                /\ worker'[w].pc = "ready"
  BY DEF RunStep, Origin, Stood, Made
<1>2. c.id \in ContainerId /\ c.id.job \in Jobs
  BY <1>1, IdTypes, IdJob
<1>3. CASE c.id \in worker[w].ids
  <2>1. Recorded(c.id)
    BY <1>3 DEF UpInv, HeldRecorded
  <2>2. Recorded(c.id)'
    BY <1>2, <2>1, RecordedKept
  <2> QED BY <2>2 DEF Recorded
<1>4. CASE worker[w].pc = "start" /\ c.id = OwnId(w, worker[w].svc)
           /\ worker'[w].pc = "ready"
  <2>1. GoesOn(w)
    BY <1>4, RunMoves DEF RunInv, NewRun, Busy
  <2>2. c.id.job = worker[w].job /\ c.id.run = worker[w].run
    BY <1>4 DEF OwnId, Id
  <2> QED BY <2>1, <2>2 DEF GoesOn, SameRun, Executes
<1>5. CASE d.up
  <2>1. CASE job[c.id.job].status = "completed"
    BY <1>2, <2>1, CompletedStays DEF RunStep
  <2>2. ASSUME NEW v \in Workers, SameRun(v, c.id), v # w
        PROVE  SameRun(v, c.id)'
    BY <2>2, RunMoves DEF RunInv, SameRun, Executes
  <2>3. ASSUME SameRun(w, c.id)
        PROVE  SameRun(w, c.id)' \/ job'[c.id.job].status = "completed"
    <3>1. worker[w].pc \notin {"failjob", "failinst"}
      BY <1>1, <1>5, <2>3 DEF UpInv, OwnUp
    <3>2. CASE worker'[w].pc = "idle"
      <4>1. MarkedJob(w, "completed")
        BY <3>1, <3>2 DEF EndStep
      <4>2. worker[w].pc # "idle" /\ worker[w].job = c.id.job /\ Inserted(worker[w].job)
        BY <2>3 DEF SameRun, Executes, TokenInv, TokenCount
      <4> QED BY <4>1, <4>2, MarkedFields DEF JobStatus
    <3>3. CASE worker'[w].pc # "idle"
      <4>1. GoesOn(w)
        BY <2>3, <3>3, RunMoves DEF RunInv, NewRun, Busy, SameRun, Executes
      <4> QED BY <2>3, <4>1 DEF GoesOn, SameRun, Executes
    <3> QED BY <3>2, <3>3
  <2>4. \/ \E v \in Workers : SameRun(v, c.id)
        \/ job[c.id.job].status = "completed"
    BY <1>1, <1>5 DEF UpInv, FailedRunsLeaveNothingUp, RunActive, SameRun
  <2> QED BY <2>1, <2>2, <2>3, <2>4
<1> QED BY <1>1, <1>3, <1>4, <1>5

LEMMA UpTask ==
    ASSUME TypeInv, TypeInv', TokenInv, RunInv, UpInv, NEW w \in Workers,
           RunStep(w), EndStep(w)
    PROVE  UpInv'
<1>1. \A id \in ContainerId : Recorded(id) => Recorded(id)'
  BY RecordedKept, IdJob
<1>2. RowsRecorded'
  <2> SUFFICES ASSUME NEW i \in Installations, NEW id \in row'[i].ids
               PROVE  Recorded(id)'
    BY DEF RowsRecorded
  <2>1. CASE id \in row[i].ids
    BY <1>1, <2>1, IdTypes DEF UpInv, RowsRecorded
  <2>2. CASE id \notin row[i].ids
    <3>1. /\ At(w, "commit", Creators) /\ id \in CreatedIds(w)
          /\ worker'[w].pc = "finish"
      BY <2>2 DEF RunStep, WorkStep, KeptIds
    <3>2. GoesOn(w)
      BY <3>1, RunMoves DEF RunInv, NewRun, Busy, At
    <3>3. id.job = worker[w].job /\ id.run = worker[w].run
      BY <3>1 DEF CreatedIds, OwnId, Id
    <3>4. SameRun(w, id)'
      BY <3>2, <3>3 DEF GoesOn, SameRun, Executes
    <3> QED BY <3>1, <3>4 DEF Recorded
  <2> QED BY <2>1, <2>2
<1>3. HeldRecorded'
  <2> SUFFICES ASSUME NEW v \in Workers, NEW id \in worker'[v].ids
               PROVE  Recorded(id)'
    BY DEF HeldRecorded
  <2>1. CASE id \in worker[v].ids
    BY <1>1, <2>1, IdTypes DEF UpInv, HeldRecorded
  <2>2. CASE id \notin worker[v].ids
    <3>1. v = w
      BY <2>2, RunMoves DEF RunInv
    <3>2. Busy(w) /\ id \in row[Target(w)].ids
      BY <2>2, <3>1 DEF RunStep, WorkStep, HeldIds
    <3>3. Target(w) \in Installations
      BY <3>2, TokenTypes, InstType DEF Target, TokenInv, TokenCount, Busy
    <3> QED BY <1>1, <3>2, <3>3, IdTypes DEF UpInv, RowsRecorded
  <2> QED BY <2>1, <2>2
<1>4. MadeByCreators'
  <2> SUFFICES ASSUME NEW c \in containers' PROVE job'[c.id.job].type \in Creators
    BY DEF MadeByCreators, Creators
  <2>1. job[c.id.job].type \in Creators
    <3>1. CASE Stood(w, c)
      BY <3>1 DEF Stood, UpInv, MadeByCreators
    <3>2. CASE Made(w, c)
      BY <3>2 DEF Made, At, Type, OwnId, Id
    <3> QED BY <3>1, <3>2 DEF RunStep, Origin
  <2>2. RunOf(c.id, c.inst)
    <3>1. CASE Stood(w, c)
      BY <3>1 DEF Stood, RunInv, ContainerRuns
    <3>2. CASE Made(w, c)
      BY <3>2, OwnRun DEF Made, At, Busy, RunInv
    <3> QED BY <3>1, <3>2 DEF RunStep, Origin
  <2>3. JobsKept
    BY RunMoves DEF RunInv
  <2> QED BY <2>1, <2>2, <2>3 DEF RunOf, JobsKept
<1> QED BY <1>2, <1>3, <1>4, OwnUpTask, FailedRunsTask DEF UpInv

LEMMA UpInit == Init => UpInv
  BY DEF Init, UpInv, FailedRunsLeaveNothingUp, RowsRecorded, HeldRecorded,
     MadeByCreators, OwnUp, FreeRow, IdleSlot

\* Without faults, and with a Docker engine that removes what it is told to, no
\* run that failed, or whose success could not be recorded, leaves a container
\* up, however many slots work on the same installation.
THEOREM FailedRunsHold ==
    MaxFaults = 0 /\ ~DockerErrors /\ Spec => []FailedRunsLeaveNothingUp
<1> DEFINE Inv == TypeInv /\ TokenInv /\ RunInv /\ UpInv
<1> SUFFICES ASSUME MaxFaults = 0, ~DockerErrors
             PROVE  Spec => []FailedRunsLeaveNothingUp
  OBVIOUS
<1>1. Init => Inv
  BY TypeInit, TokenInit, RunInit, UpInit
<1>2. Inv /\ [Next]_vars => Inv'
  <2> SUFFICES ASSUME Inv, [Next]_vars PROVE UpInv'
    BY TypeStep, TokenStep, RunInvStep, JobNext
  <2>1. ASSUME NEW w \in Workers, TaskStep(w), ~LostStep(w) PROVE UpInv'
    <3>1. EndStep(w)
      BY <2>1, TaskStepCases, SharedEnds, OwnEnds
    <3>2. RunStep(w)
      BY <2>1, TaskRuns
    <3> QED BY <3>1, <3>2, TypeStep, UpTask
  <2> QED BY <2>1, SlotsStand, UpElsewhere
<1>3. Inv => FailedRunsLeaveNothingUp
  BY DEF UpInv
<1> QED BY <1>1, <1>2, <1>3, PTL DEF Spec
=============================================================================
