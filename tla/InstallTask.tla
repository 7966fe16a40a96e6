---------------------------- MODULE InstallTask -----------------------------
(***************************************************************************)
(* install_app: the first containers of an installation.                   *)
(***************************************************************************)
EXTENDS TaskRuntime

install == {"install"}

InstallBegin(w, m) == Begin(w, m, install)

\* _update_installation_status(installing).  Without a row it returns None,
\* and the next line reads its app_id.
InstallMark(w) == LoadAndMark(w, install, "installing", "create")

\* One turn of the loop.  ensure_image comes before the container is created.
InstallCreate(w) == CreateContainer(w, install)
InstallStart(w) == StartContainer(w, install)
InstallReady(w) == ContainerReady(w, install)

\* No GPU, no template, no image, a 409, a container that does not start or
\* does not answer in time.
InstallFails(w) == TaskFails(w, install, {"create", "start", "ready"}, "undo")

InstallRecord(w) == RecordContainers(w, install)
InstallComplete(w) == CompleteJob(w, install)

InstallRollback(w) == Rollback(w, install)
InstallHandlerRaises(w) == HandlerRaises(w, install)
InstallFailJob(w) == FailJob(w, install)
InstallFailInstallation(w) == FailInstallation(w, install)

InstallStep(w) ==
    \/ \E m \in queue : InstallBegin(w, m)
    \/ InstallMark(w)
    \/ InstallCreate(w) \/ InstallStart(w) \/ InstallReady(w)
    \/ InstallRecord(w) \/ InstallComplete(w)
    \/ InstallFails(w)
    \/ InstallRollback(w)
    \/ InstallHandlerRaises(w) \/ InstallFailJob(w) \/ InstallFailInstallation(w)
=============================================================================
