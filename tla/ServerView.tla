----------------------------- MODULE ServerView -----------------------------
(***************************************************************************)
(* What a client of the HTTP API can see of installations and jobs, and    *)
(* how it may change under the client's eyes: the abstract specification   *)
(* of the back end that the pages are modelled against.                    *)
(***************************************************************************)
EXTENDS Naturals

CONSTANTS
    Insts,    \* installation ids
    JobIds,   \* job ids
    MaxRuns   \* how often a job may be executed

ASSUME ServerAssumption == MaxRuns \in Nat

VARIABLES
    shown,  \* installation -> its status, "free" before and "deleted" after
    work    \* job -> [type, inst, status, runs]

serverVars == <<shown, work>>

\* The statuses the task of each job type may write to its installation.
Writes == [install     |-> {"installing", "running", "error"},
           uninstall   |-> {"uninstalling"},
           start       |-> {"running"},
           stop        |-> {"stopped"},
           restart     |-> {"running"},
           update      |-> {"running", "error"},
           reconfigure |-> {"running", "error"}]

Statuses == {"pending"} \cup UNION {Writes[t] : t \in DOMAIN Writes}
Listed(i) == shown[i] \in Statuses

NoWork == [type |-> "none", inst |-> 0, status |-> "free", runs |-> 0]

\* Faulty variant: a job that waits for a worker is not one yet.
RunningJob(i) == {j \in JobIds : work[j].inst = i /\ work[j].status = "running"}

\* The jobs behind active_job.
ActiveJob(i) == {j \in JobIds : work[j].inst = i /\ work[j].status \in {"pending", "running"}}

\* A behaviour may begin with some installations up.
ServerStarts(up) ==
    /\ shown = [i \in Insts |-> IF i \in up THEN "running" ELSE "free"]
    /\ work = [j \in JobIds |-> NoWork]

ServerInit == ServerStarts({})

\* An operation is accepted: its job is the next one and pending.  An install makes a row, an
\* uninstall marks one.
Request(j, t, i) ==
    /\ work[j] = NoWork
    /\ \A k \in JobIds : k < j => work[k] # NoWork
    /\ work' = [work EXCEPT ![j] = [type |-> t, inst |-> i, status |-> "pending", runs |-> 0]]
    /\ IF t = "install"
       THEN shown[i] = "free" /\ shown' = [shown EXCEPT ![i] = "pending"]
       ELSE /\ Listed(i)
            /\ shown' = IF t = "uninstall" THEN [shown EXCEPT ![i] = "uninstalling"]
                                           ELSE shown

\* A task begins, for the first time or as a retry.
Begin(j) ==
    /\ work[j].status \in {"pending", "failed"}
    /\ work[j].runs < MaxRuns
    /\ work' = [work EXCEPT ![j].status = "running", ![j].runs = @ + 1]
    /\ UNCHANGED shown

\* A task writes a status, and possibly an error after its job has failed.
WriteStatus(j, s) ==
    /\ \/ work[j].status = "running"
       \/ work[j].status = "failed" /\ s = "error"
    /\ s \in Writes[work[j].type]
    /\ Listed(work[j].inst)
    /\ shown' = [shown EXCEPT ![work[j].inst] = s]
    /\ UNCHANGED work

\* The task of an uninstall deletes the row.
DeleteRow(j) ==
    /\ work[j].status = "running" /\ work[j].type = "uninstall"
    /\ shown' = [shown EXCEPT ![work[j].inst] = "deleted"]
    /\ UNCHANGED work

EndWork(j, s) ==
    /\ work[j].status = "running"
    /\ work' = [work EXCEPT ![j].status = s]
    /\ UNCHANGED shown
Ends(j) == EndWork(j, "completed") \/ EndWork(j, "failed")

TaskStepOf(j) ==
    \/ Begin(j) \/ Ends(j) \/ DeleteRow(j)
    \/ \E s \in Statuses : WriteStatus(j, s)

ServerNext ==
    \/ \E j \in JobIds : TaskStepOf(j)
    \/ \E j \in JobIds, t \in DOMAIN Writes, i \in Insts : Request(j, t, i)

ServerSpec == ServerInit /\ [][ServerNext]_serverVars
=============================================================================
