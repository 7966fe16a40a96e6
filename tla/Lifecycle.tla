----------------------------- MODULE Lifecycle ------------------------------
(***************************************************************************)
(* The life of installations: the API, the Celery workers, the reaper and  *)
(* the faults, composed; and what must hold of them together.              *)
(***************************************************************************)
EXTENDS ApiService, InstallTask, RecreateTask, UninstallTask, PowerTask, Reaper

\* A pool slot executes one task at a time.
TaskStep(w) ==
    \/ \E m \in queue : ClientFails(w, m)
    \/ InstallStep(w) \/ RecreateStep(w) \/ UninstallStep(w) \/ PowerStep(w)

\* Every job allowed by MaxJobs is done, its messages are consumed and no
\* create request can go on: the bounded instance stops here.
Next ==
    \/ ApiNext
    \/ \E w \in Workers : TaskStep(w)
    \/ ReaperNext
    \/ FaultNext

\* The event loop of the API goes on after a commit; the pool goes on with its
\* tasks and takes messages; beat starts the reaper over and over, some of its
\* listings succeed, and some of its removals miss nothing.
Fairness ==
    /\ \A j \in Jobs : WF_vars(Delay(j))
    /\ \A w \in Workers : WF_vars(TaskStep(w))
    /\ WF_vars(ReaperReadIds)
    /\ SF_vars(ReaperList)
    /\ WF_vars(ReaperRemove)
    /\ SF_vars(ReaperRemovesAll)

Spec == Init /\ [][Next]_vars
FairSpec == Spec /\ Fairness

-----------------------------------------------------------------------------
(* Types.                                                                  *)

\* Every variable has its type.  In particular an inserted job belongs to an
\* installation, a slot that is not idle executes a job, and the loop over the
\* services never runs past the end of the template.
TypeOK ==
    /\ row \in [Installations -> Row]
    /\ job \in [Jobs -> Job]
    /\ unsent \subseteq Jobs
    /\ queue \subseteq Message
    /\ worker \in [Workers -> Slot]
    /\ containers \subseteq Container
    /\ volumes \subseteq Volume
    /\ reaper \in [pc: {"idle", "list", "reap"}, live: SUBSET Installations,
                   orphans: SUBSET ContainerId]
    /\ request \in [Requests -> Apps \cup {"none"}]
    /\ lost \subseteq Jobs
    /\ faults \in 0..MaxFaults

-----------------------------------------------------------------------------
(* Jobs and their executions.                                              *)

Executes(w, j) == worker[w].pc # "idle" /\ worker[w].job = j
Queued(j) == \E m \in queue : m.job = j

\* A job has one token: it waits to be published, or is one message of the
\* broker, or is executed by one slot.  Two executions of one job would create
\* and roll back the same containers.  (Without faults: publication, retry and
\* acknowledgement neither duplicate nor overlap.)
OneExecution ==
    /\ \A m, n \in queue : m.job = n.job => m = n
    /\ \A v, w \in Workers :
           worker[v].pc # "idle" /\ worker[w].pc # "idle" /\ v # w
               => worker[v].job # worker[w].job
    /\ \A m \in queue, w \in Workers : ~Executes(w, m.job)
    /\ \A j \in unsent : ~Queued(j) /\ \A w \in Workers : ~Executes(w, j)

\* A job runs at most so often, whichever task it names.
MaxRuns == IF InstallRetries > OpRetries THEN InstallRetries + 1 ELSE OpRetries + 1

\* Where a job is, and how often it was executed.
Place(j) ==
    IF job[j].status = "free" THEN "none"
    ELSE IF j \in unsent THEN "unsent"
    ELSE IF Queued(j) THEN "queued"
    ELSE IF \E w \in Workers : Executes(w, j) THEN "executing"
    ELSE "over"

Places == [j \in Jobs |-> Place(j)]
Runs == [j \in Jobs |-> job[j].runs]

Life == INSTANCE JobLife WITH place <- Places, runs <- Runs

\* The service, the broker and the pool together keep the promise of JobLife:
\* a job never skips a place, never goes back except by a counted retry, and
\* never comes back once it is over.  (Without faults.)
ImplementsJobLife == Life!Spec

\* What the API shows of the two tables.
Shown == [i \in Installations |-> row[i].status]

View == INSTANCE ServerView WITH Insts <- Installations, JobIds <- Jobs,
                                 shown <- Shown, work <- job

\* The pages may rely on what ServerView says of the back end: whatever API and
\* tasks do together, a client sees statuses written only by a job that is at
\* work on that very installation, errors of failed ones included, rows that
\* vanish only by an uninstall, and jobs that come back from "failed" only.
\* (Without faults.)
ImplementsServerView == View!ServerSpec

\* A job that the user requested while the flush of the deletion was under way
\* has refused it, and the uninstall has ended there.
Refused(j) ==
    /\ job[j].type = "uninstall"
    /\ Place(j) = "over"
    /\ \E k \in Jobs : k > j /\ job[k].inst = job[j].inst

\* The UI keeps a row busy while it has a pending or running job.  Such a job
\* is really on its way, but for three cases: its message came to nothing before
\* it was first executed, its installation is gone, or it is an uninstall whose
\* deletion a later job has refused.  Nothing else that fails, in whatever order,
\* leaves a job behind that nobody will ever finish.  (Without faults.)
NoStuckJob ==
    \A j \in Jobs :
        /\ job[j].status = "pending" => j \in unsent \/ Queued(j) \/ j \in lost
        /\ job[j].status = "running" => \/ \E w \in Workers : Executes(w, j)
                                        \/ row[job[j].inst].status = "deleted"
                                        \/ Refused(j)

\* A job is executed at most once more than its task's max_retries, and a
\* completed job is over: no message or slot still holds it.
RetriesBounded ==
    \A j \in Jobs :
        /\ job[j].runs <= MaxRetries(job[j].type) + 1
        /\ job[j].status = "completed" =>
               ~Queued(j) /\ \A w \in Workers : ~Executes(w, j)

-----------------------------------------------------------------------------
(* Containers.                                                             *)

\* The run that made a container is still executing.
RunActive(c) ==
    \E w \in Workers : Executes(w, c.id.job) /\ worker[w].run = c.id.run

\* A run that fails, or whose success could not be recorded, leaves no
\* container up: whatever is up belongs to a run in progress or to a job that
\* completed.  (Without faults and with a Docker engine that removes what it
\* is told to.)
FailedRunsLeaveNothingUp ==
    \A c \in containers :
        c.up => RunActive(c) \/ job[c.id.job].status = "completed"

\* The ids stored for an installation are those of one run that created every
\* service of the template, a run of a job of this very installation.
StoredFromOneRun ==
    \A i \in Installations :
        row[i].ids # {} =>
            \E j \in Jobs :
                /\ job[j].inst = i
                /\ \E r \in 1..job[j].runs :
                       row[i].ids = {Id(j, r, s) : s \in Services}

\* The containers recorded for an installation disappear only when they are
\* torn down by a task that has come to its removal step (for an update: after
\* all images were pulled) or by the reaper; never by the rollback of another
\* run that failed.
RecordedSurvive ==
    [][\A c \in containers : c.id \in row[c.inst].ids /\ c.id \notin {d.id : d \in containers'}
           => \/ \E w \in Workers : /\ worker[w].pc = "remove"
                                    /\ worker'[w].pc # "remove"
                                    /\ Target(w) = c.inst
              \/ reaper.pc = "reap"]_vars

\* No late commit of a task, no retry and no redelivery brings a deleted
\* installation back.
DeletedIsFinal ==
    [][\A i \in Installations :
           row[i].status = "deleted" => row'[i] = row[i]]_vars

\* With one slot tasks do not overlap: once the row of an installation is
\* deleted none of its containers is left, and none comes back.
DeletedMeansGone ==
    \A i \in Installations : row[i].status = "deleted" => ListManaged(i) = {}

-----------------------------------------------------------------------------
(* What must happen.                                                       *)

\* The reaper's purpose: whatever races left behind, the containers of an
\* installation whose row is gone are removed, for good.
OrphansReaped ==
    \A i \in Installations :
        row[i].status = "deleted" ~> [](ListManaged(i) = {})

\* An uninstall that is requested ends in the deletion of the row, or its job
\* has failed and used up its retries, or it has ended in one of the two ways
\* nobody is told of: its message came to nothing, or the deletion was refused.
UninstallSettles ==
    \A j \in Jobs :
        (job[j].type = "uninstall") ~>
            \/ \E i \in Installations : /\ i = job[j].inst
                                        /\ row[i].status = "deleted"
            \/ job[j].status = "failed" /\ job[j].runs = OpRetries + 1
            \/ j \in lost
            \/ Refused(j) /\ job[j].status = "running"

-----------------------------------------------------------------------------
(* What comments and messages of the repository say, and the code does not *)
(* keep.                                                                   *)

\* The comment in install_app's handler: partially created containers are
\* rolled back "so retries don't hit 409 name conflicts".
RetriesHitNoConflict ==
    \A w \in Workers :
        At(w, "create", install) /\ worker[w].retries > 0
            => ~NameTaken(Target(w), worker[w].svc)

\* The reaper's docstring: it is safe because "a legit running container
\* always has a matching row".
ReaperSparesLegit ==
    [][reaper.pc = "reap" /\ reaper'.pc = "idle"
           => \A c \in containers \ containers' : c.up => ~Live(c.inst)]_vars

\* The confirmation of an uninstall: "This will remove all data".
DeletedLeavesNoData ==
    \A i \in Installations :
        row[i].status = "deleted" => ~\E v \in volumes : v.inst = i

\* InstallationConflict: "This app is already installed" keeps a second
\* installation of an app from being created.
OneInstallationPerApp ==
    \A a \in Apps : \A i, k \in Installed(a) : i = k
=============================================================================
