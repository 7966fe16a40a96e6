---------------------------- MODULE RecreateTask ----------------------------
(***************************************************************************)
(* reconfigure_app and update_app: the containers of an installation are   *)
(* removed and created again.  reconfigure_app removes first; update_app   *)
(* first renders the template and pulls every image.                       *)
(***************************************************************************)
EXTENDS TaskRuntime

reconfigure == {"reconfigure"}
update == {"update"}
recreate == reconfigure \cup update

ReconfigureBegin(w, m) == Begin(w, m, reconfigure)
ReconfigureLoad(w) == LoadRow(w, reconfigure, "remove")

UpdateBegin(w, m) == Begin(w, m, update)
UpdateLoad(w) == LoadRow(w, update, "pull")

\* Every image is there: only now are the old containers touched.
UpdatePull(w) ==
    /\ At(w, "pull", update)
    /\ Goto(w, "remove")
    /\ UNCHANGED <<row, job, queue, containers, volumes, faults, taskFrame>>

RemoveOld(w, types) ==
    /\ At(w, "remove", types)
    /\ RemoveInstallationContainers(Target(w), worker[w].ids)
    /\ Goto(w, "create")
    /\ UNCHANGED <<row, job, queue, volumes, faults, taskFrame>>

ReconfigureRemove(w) == RemoveOld(w, reconfigure)
UpdateRemove(w) == RemoveOld(w, update)

ReconfigureLoop(w) == \/ CreateContainer(w, reconfigure)
                      \/ StartContainer(w, reconfigure)
                      \/ ContainerReady(w, reconfigure)
UpdateLoop(w) == \/ CreateContainer(w, update)
                 \/ StartContainer(w, update)
                 \/ ContainerReady(w, update)

ReconfigureFails(w) ==
    TaskFails(w, reconfigure, {"remove", "create", "start", "ready"}, "undo")
UpdateFails(w) ==
    TaskFails(w, update, {"pull", "remove", "create", "start", "ready"}, "undo")

ReconfigureRecord(w) == RecordContainers(w, reconfigure)
UpdateRecord(w) == RecordContainers(w, update)

RecreateComplete(w) == CompleteJob(w, recreate)

ReconfigureHandler(w) == \/ Rollback(w, reconfigure)
                         \/ HandlerRaises(w, reconfigure)
                         \/ FailJob(w, reconfigure)
                         \/ FailInstallation(w, reconfigure)
UpdateHandler(w) == \/ Rollback(w, update)
                    \/ HandlerRaises(w, update)
                    \/ FailJob(w, update)
                    \/ FailInstallation(w, update)

ReconfigureStep(w) ==
    \/ \E m \in queue : ReconfigureBegin(w, m)
    \/ ReconfigureLoad(w) \/ ReconfigureRemove(w) \/ ReconfigureLoop(w)
    \/ ReconfigureRecord(w) \/ ReconfigureFails(w) \/ ReconfigureHandler(w)

UpdateStep(w) ==
    \/ \E m \in queue : UpdateBegin(w, m)
    \/ UpdateLoad(w) \/ UpdatePull(w) \/ UpdateRemove(w) \/ UpdateLoop(w)
    \/ UpdateRecord(w) \/ UpdateFails(w) \/ UpdateHandler(w)

RecreateStep(w) == ReconfigureStep(w) \/ UpdateStep(w) \/ RecreateComplete(w)
=============================================================================
