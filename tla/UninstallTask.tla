--------------------------- MODULE UninstallTask ----------------------------
(***************************************************************************)
(* uninstall_app: containers, volumes, then the row.                       *)
(***************************************************************************)
EXTENDS TaskRuntime

uninstall == {"uninstall"}

UninstallBegin(w, m) == Begin(w, m, uninstall)

UninstallMark(w) == LoadAndMark(w, uninstall, "uninstalling", "remove")

\* By label, then by the ids stored when the row was loaded.
UninstallContainers(w) ==
    /\ At(w, "remove", uninstall)
    /\ RemoveInstallationContainers(Target(w), worker[w].ids)
    /\ Goto(w, "volumes")
    /\ UNCHANGED <<row, job, queue, volumes, faults, taskFrame>>

UninstallVolumes(w) ==
    /\ At(w, "volumes", uninstall)
    /\ RemoveInstallationVolumes(Target(w))
    /\ Goto(w, "delete")
    /\ UNCHANGED <<row, job, queue, containers, faults, taskFrame>>

\* db.delete(installation) and the flush of its commit.  No cascade covers the
\* jobs: the flush reads those of the installation and sets their
\* installation_id to NULL.
UninstallUnlink(w) ==
    /\ At(w, "delete", uninstall)
    /\ worker' = [worker EXCEPT ![w].pc = "flush",
                                ![w].unlinked = {j \in Jobs : job[j].inst = Target(w)}]
    /\ UNCHANGED <<row, job, queue, containers, volumes, faults, taskFrame>>

\* A job committed since then still refers to the row.
Referenced(w) ==
    \E j \in Jobs : job[j].inst = Target(w) /\ j \notin worker[w].unlinked

\* Then it deletes the row: the logs go with it.  Deleting one that is gone is a
\* warning; one that is referred to stays, and the session is deactivated.
UninstallDelete(w) ==
    /\ At(w, "flush", uninstall)
    /\ IF Live(Target(w)) /\ Referenced(w)
       THEN /\ worker' = [worker EXCEPT ![w].pc = "failjob", ![w].dead = TRUE]
            /\ UNCHANGED row
       ELSE /\ row' = [row EXCEPT ![Target(w)] = [FreeRow EXCEPT !.status = "deleted"]]
            /\ Goto(w, "finish")
    /\ UNCHANGED <<job, queue, containers, volumes, faults, taskFrame>>

UninstallComplete(w) == CompleteJob(w, uninstall)

\* The two listings may raise.
UninstallFails(w) == TaskFails(w, uninstall, {"remove", "volumes"}, "failjob")

UninstallHandler(w) == HandlerRaises(w, uninstall) \/ FailJobAndRetry(w, uninstall)

UninstallStep(w) ==
    \/ \E m \in queue : UninstallBegin(w, m)
    \/ UninstallMark(w)
    \/ UninstallContainers(w) \/ UninstallVolumes(w)
    \/ UninstallUnlink(w) \/ UninstallDelete(w) \/ UninstallComplete(w)
    \/ UninstallFails(w) \/ UninstallHandler(w)
=============================================================================
