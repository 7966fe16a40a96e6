----------------------------- MODULE ApiService -----------------------------
(***************************************************************************)
(* InstallationService: the operations of the HTTP API on installations.   *)
(* Each commits its rows and only then publishes the Celery task, in a     *)
(* separate step that may fail.  None of them takes a lock or looks at the *)
(* status of the installation.                                             *)
(***************************************************************************)
EXTENDS Platform

apiFrame == <<queue, worker, containers, volumes, reaper, lost>>

Installed(a) == {i \in Installations : /\ row[i].app = a
                                       /\ Live(i)
                                       /\ row[i].status # "uninstalling"}

\* create_installation up to its check.  With two such rows scalar_one_or_none
\* raises, with one the API answers InstallationConflict: nothing changes.
\* (Bound: nobody asks for an installation there is no id left for.)
CheckExisting(r, a) ==
    /\ "install" \in UserOps
    /\ \E i \in Installations : row[i].status = "free"
    /\ request[r] = "none"
    /\ Installed(a) = {}
    /\ request' = [request EXCEPT ![r] = a]
    /\ UNCHANGED <<row, job, unsent, faults, apiFrame>>

\* The rest of it: one transaction inserts the installation and its job.
CreateInstallation(r, i, j) ==
    /\ request[r] # "none"
    /\ NextInstallation(i)
    /\ row' = [row EXCEPT ![i] = [app |-> request[r], status |-> "pending",
                                  ids |-> {}]]
    /\ InsertJob(j, "install", i)
    /\ request' = [request EXCEPT ![r] = "none"]
    /\ UNCHANGED <<faults, apiFrame>>

\* uninstall: marks the row in the transaction that inserts the job.
Uninstall(i, j) ==
    /\ "uninstall" \in UserOps
    /\ Live(i)
    /\ row' = [row EXCEPT ![i].status = "uninstalling"]
    /\ InsertJob(j, "uninstall", i)
    /\ UNCHANGED <<request, faults, apiFrame>>

\* start, stop, restart, update: only the job is inserted.
RequestOperation(i, j, t) ==
    /\ t \in UserOps \cap {"start", "stop", "restart", "update"}
    /\ Live(i)
    /\ InsertJob(j, t, i)
    /\ UNCHANGED <<row, request, faults, apiFrame>>

\* update_config: the stored configuration is merged, the job inserted.
UpdateConfig(i, j) ==
    /\ "reconfigure" \in UserOps
    /\ Live(i)
    /\ InsertJob(j, "reconfigure", i)
    /\ UNCHANGED <<row, request, faults, apiFrame>>

\* Faulty variant: what is published can be published again.
DelayRepeatedly(j) ==
    /\ j \in unsent
    /\ queue' = queue \cup {[job |-> j, retries |-> 0]}
    /\ UNCHANGED <<row, job, unsent, worker, containers, volumes, reaper,
                   request, lost, faults>>

\* xxx_app.delay(installation.id, job.id).
Delay(j) ==
    /\ j \in unsent
    /\ unsent' = unsent \ {j}
    /\ queue' = queue \cup {[job |-> j, retries |-> 0]}
    /\ UNCHANGED <<row, job, worker, containers, volumes, reaper, request,
                   lost, faults>>

\* The refresh after the commit raises, the API process dies, or the broker
\* refuses: the job is there and nobody is told of it.
DelayFails(j) ==
    /\ j \in unsent
    /\ unsent' = unsent \ {j}
    /\ lost' = lost \cup {j}
    /\ UNCHANGED <<row, job, queue, worker, containers, volumes, reaper,
                   request, faults>>

ApiNext ==
    \/ \E r \in Requests, a \in Apps : CheckExisting(r, a)
    \/ \E r \in Requests, i \in Installations, j \in Jobs :
           CreateInstallation(r, i, j)
    \/ \E i \in Installations, j \in Jobs : Uninstall(i, j)
    \/ \E i \in Installations, j \in Jobs, t \in JobTypes :
           RequestOperation(i, j, t)
    \/ \E i \in Installations, j \in Jobs : UpdateConfig(i, j)
    \/ \E j \in Jobs : Delay(j) \/ DelayFails(j)
=============================================================================
