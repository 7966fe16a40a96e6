---------------------------- MODULE TaskRuntime -----------------------------
(***************************************************************************)
(* What the Celery tasks share: taking a message, the session's view of    *)
(* the installation row, the loop that creates containers, the except      *)
(* clause with its rollback, retry, and what befalls a worker process.     *)
(*                                                                         *)
(* A task keeps one SQLAlchemy session.  db.get returns the object loaded  *)
(* first, so a later write of an attribute reaches the database only when  *)
(* it differs from the value this session knows ("seen"); and an UPDATE of *)
(* a row somebody deleted raises StaleDataError and deactivates the        *)
(* session ("dead"): every later use of it raises too, because the except  *)
(* clauses never call db.rollback().                                       *)
(***************************************************************************)
EXTENDS Platform

taskFrame == <<unsent, reaper, request, lost>>

Type(w) == job[worker[w].job].type
Target(w) == job[worker[w].job].inst

At(w, pc, types) == worker[w].pc = pc /\ Type(w) \in types

Goto(w, pc) == worker' = [worker EXCEPT ![w].pc = pc]

MaxRetries(t) == IF t = "install" THEN InstallRetries ELSE OpRetries

\* The containers of the task's run, and those of them it has recorded in
\* created_ids: the services before the current one.
OwnId(w, s) == Id(worker[w].job, worker[w].run, s)
CreatedIds(w) == {OwnId(w, s) : s \in {t \in Services : t < worker[w].svc}}

\* The broker hands a message to one consumer.
Deliver(m) == m \in queue /\ queue' = queue \ {m}

\* _get_docker_client() comes before the try and before the job is marked.  In a
\* process that has no client yet it asks the daemon for its version, and what it
\* raises nobody catches: the message is used up, the job stays as it is.  (Any
\* task may be the first of its process, which is replaced when it dies idle.)
ClientFails(w, m) ==
    /\ worker[w].pc = "idle"
    /\ Deliver(m)
    /\ lost' = lost \cup {m.job}
    /\ UNCHANGED <<row, job, worker, containers, volumes, faults, unsent, reaper,
                   request>>

\* A free slot takes a message and has its Docker client; the job is marked.
Begin(w, m, types) ==
    /\ worker[w].pc = "idle"
    /\ Deliver(m)
    /\ job[m.job].type \in types
    /\ job' = [job EXCEPT ![m.job].status = "running", ![m.job].runs = @ + 1]
    /\ worker' = [worker EXCEPT ![w] =
                    [IdleSlot EXCEPT !.pc = "load", !.job = m.job,
                                     !.run = job[m.job].runs + 1,
                                     !.retries = m.retries]]
    /\ UNCHANGED <<row, containers, volumes, faults, taskFrame>>

\* db.get(Installation, id) and the first use of what it returns: None has no
\* attributes, and the handler has nothing to roll back.
LoadRow(w, types, next) ==
    LET i == Target(w) IN
    /\ At(w, "load", types)
    /\ IF Live(i)
       THEN worker' = [worker EXCEPT ![w].pc = next,
                                     ![w].seen = row[i].status,
                                     ![w].ids = row[i].ids]
       ELSE Goto(w, "failjob")
    /\ UNCHANGED <<row, job, queue, containers, volumes, faults, taskFrame>>

\* db.get, then a status written at once: the write of a fresh value.
LoadAndMark(w, types, status, next) ==
    LET i == Target(w) IN
    /\ At(w, "load", types)
    /\ IF Live(i)
       THEN /\ row' = [row EXCEPT ![i].status = status]
            /\ worker' = [worker EXCEPT ![w].pc = next, ![w].seen = status,
                                        ![w].ids = row[i].ids]
       ELSE /\ Goto(w, "failjob")
            /\ UNCHANGED row
    /\ UNCHANGED <<job, queue, containers, volumes, faults, taskFrame>>

-----------------------------------------------------------------------------
(* The loop over container_configs.                                        *)

\* container_mgr.create: 409 when the name is in use.
CreateContainer(w, types) ==
    LET i == Target(w)
        s == worker[w].svc
    IN  /\ At(w, "create", types)
        /\ ~NameTaken(i, s)
        /\ containers' = containers \cup {[inst |-> i, id |-> OwnId(w, s),
                                           up |-> FALSE]}
        /\ MountVolumes(i)
        /\ Goto(w, "start")
        /\ UNCHANGED <<row, job, queue, faults, taskFrame>>

\* container_mgr.start, and the container enters created_ids.
StartContainer(w, types) ==
    LET mine == ById({OwnId(w, worker[w].svc)}) IN
    /\ At(w, "start", types)
    /\ mine # {}
    /\ containers' = Switched(mine, TRUE)
    /\ worker' = [worker EXCEPT ![w].pc = "ready", ![w].svc = @ + 1]
    /\ UNCHANGED <<row, job, queue, volumes, faults, taskFrame>>

\* Faulty variant: one turn of the loop too many.
AfterReadyOneMore(w) ==
    IF worker[w].svc > NumServices + 1 THEN "commit" ELSE "create"

\* On to the next service, or out of the loop.
AfterReady(w) == IF worker[w].svc > NumServices THEN "commit" ELSE "create"

\* The readiness probe answers.
ContainerReady(w, types) ==
    /\ At(w, "ready", types)
    /\ Goto(w, AfterReady(w))
    /\ UNCHANGED <<row, job, queue, containers, volumes, faults, taskFrame>>

\* Any call the task makes outside an inner try may raise.
TaskFails(w, types, pcs, handler) ==
    /\ worker[w].pc \in pcs
    /\ Type(w) \in types
    /\ Goto(w, handler)
    /\ UNCHANGED <<row, job, queue, containers, volumes, faults, taskFrame>>

\* Faulty variant: the new ids are appended to those already stored.
WriteSuccessAppending(w, i) ==
    row' = [row EXCEPT ![i].status = "running", ![i].ids = @ \cup CreatedIds(w)]

\* The attributes set on success; an unchanged status is not written.
WriteSuccess(w, i) ==
    row' = [row EXCEPT
              ![i].status = IF worker[w].seen = "running" THEN @ ELSE "running",
              ![i].ids = CreatedIds(w)]

\* The success commit: status running and the ids of the new containers.
RecordContainers(w, types) ==
    LET i == Target(w) IN
    /\ At(w, "commit", types)
    /\ IF Live(i)
       THEN /\ WriteSuccess(w, i)
            /\ worker' = [worker EXCEPT ![w].pc = "finish",
                                        ![w].seen = "running"]
       ELSE /\ worker' = [worker EXCEPT ![w].pc = "undo", ![w].dead = TRUE]
            /\ UNCHANGED row
    /\ UNCHANGED <<job, queue, containers, volumes, faults, taskFrame>>

\* The job is completed, the session closed, the message acknowledged.
CompleteJob(w, types) ==
    /\ At(w, "finish", types)
    /\ job' = [job EXCEPT ![worker[w].job].status = "completed"]
    /\ worker' = [worker EXCEPT ![w] = IdleSlot]
    /\ UNCHANGED <<row, queue, containers, volumes, faults, taskFrame>>

-----------------------------------------------------------------------------
(* The except clause.                                                      *)

\* Faulty variant: the container being probed is not yet in created_ids.
RemoveCreatedButLast(w) ==
    containers' = containers \ ById(CreatedIds(w) \ {OwnId(w, worker[w].svc - 1)})

\* Faulty variant: rolling back whatever carries the installation's label.
RemoveLabelled(w) == containers' = containers \ ListManaged(Target(w))

\* Remove the containers of created_ids; a failing removal is logged only.
RemoveCreated(w) ==
    \E gone \in Reached(ById(CreatedIds(w))) : containers' = containers \ gone

Rollback(w, types) ==
    /\ At(w, "undo", types)
    /\ RemoveCreated(w)
    /\ Goto(w, "failjob")
    /\ UNCHANGED <<row, job, queue, volumes, faults, taskFrame>>

\* Faulty variants: one retry too many, and none at all.
RetryOnceMore(w) ==
    IF worker[w].retries <= MaxRetries(Type(w))
    THEN queue' = queue \cup {[job |-> worker[w].job,
                               retries |-> worker[w].retries + 1]}
    ELSE UNCHANGED queue
RetryNever(w) == UNCHANGED queue

\* self.retry: the same arguments with one more retry, unless none is left.
Retry(w) ==
    IF worker[w].retries < MaxRetries(Type(w))
    THEN queue' = queue \cup {[job |-> worker[w].job,
                               retries |-> worker[w].retries + 1]}
    ELSE UNCHANGED queue

\* Faulty variant: the job keeps its status.
MarkNothing(w) == UNCHANGED job

\* _update_job(failed).
MarkFailed(w) == job' = [job EXCEPT ![worker[w].job].status = "failed"]

\* Faulty variant: the row is written whether or not it still exists.
WriteErrorAnyway(w, i) == row' = [row EXCEPT ![i].status = "error"]

\* _update_installation_status(error) on what the session holds.
WriteError(w, i) ==
    row' = IF Live(i) /\ worker[w].seen \notin {"none", "error"}
           THEN [row EXCEPT ![i].status = "error"] ELSE row

\* The handler's first statement on a deactivated session raises, so the task
\* ends there: the job keeps its status and is not retried.
HandlerRaises(w, types) ==
    /\ At(w, "failjob", types)
    /\ worker[w].dead
    /\ worker' = [worker EXCEPT ![w] = IdleSlot]
    /\ UNCHANGED <<row, job, queue, containers, volumes, faults, taskFrame>>

\* _update_job(failed) in the handlers that go on to mark the installation.
FailJob(w, types) ==
    /\ At(w, "failjob", types)
    /\ ~worker[w].dead
    /\ MarkFailed(w)
    /\ Goto(w, "failinst")
    /\ UNCHANGED <<row, queue, containers, volumes, faults, taskFrame>>

\* The installation is marked, then self.retry.  A row that was there and is
\* gone makes the write raise, before the retry.
FailInstallation(w, types) ==
    LET i == Target(w) IN
        /\ At(w, "failinst", types)
        /\ WriteError(w, i)
        /\ IF ~Live(i) /\ worker[w].seen \notin {"none", "error"}
           THEN UNCHANGED queue ELSE Retry(w)
        /\ worker' = [worker EXCEPT ![w] = IdleSlot]
        /\ UNCHANGED <<job, containers, volumes, faults, taskFrame>>

\* _update_job(failed) and self.retry, in the handlers that do only that.
FailJobAndRetry(w, types) ==
    /\ At(w, "failjob", types)
    /\ ~worker[w].dead
    /\ MarkFailed(w)
    /\ Retry(w)
    /\ worker' = [worker EXCEPT ![w] = IdleSlot]
    /\ UNCHANGED <<row, containers, volumes, faults, taskFrame>>

-----------------------------------------------------------------------------
(* Faults.  task_acks_late leaves the message with the broker until the    *)
(* task ends.                                                              *)

Held(w) == [job |-> worker[w].job, retries |-> worker[w].retries]

Fault(w) == worker[w].pc # "idle" /\ faults < MaxFaults /\ faults' = faults + 1

\* The worker dies; the broker delivers the message again.
WorkerCrash(w) ==
    /\ Fault(w)
    /\ queue' = queue \cup {Held(w)}
    /\ worker' = [worker EXCEPT ![w] = IdleSlot]
    /\ UNCHANGED <<row, job, containers, volumes, taskFrame>>

\* The task outlives the visibility timeout and is delivered again.
Redelivery(w) ==
    /\ Fault(w)
    /\ queue' = queue \cup {Held(w)}
    /\ UNCHANGED <<row, job, worker, containers, volumes, taskFrame>>

\* Only the pool's child dies: the parent acknowledges the message.
ChildLost(w) ==
    /\ Fault(w)
    /\ worker' = [worker EXCEPT ![w] = IdleSlot]
    /\ UNCHANGED <<row, job, queue, containers, volumes, taskFrame>>

FaultNext == \E w \in Workers : WorkerCrash(w) \/ Redelivery(w) \/ ChildLost(w)
=============================================================================
