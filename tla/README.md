# IAnoIE in TLA+

IAnoIE installs AI applications on one machine: a FastAPI back end records what
its users ask for, Celery workers carry it out with Docker, and a React front
end shows it. This directory models the parts of it where things happen at the
same time or in an order nobody chose: the life of an installation from the
request to the containers, the default LLM provider, the log websocket, the
update script, and the pages of the browser application with their requests,
timers and effects.

## 1. The system

Paths are below `src/backend/src/ianoie/` unless they start with `scripts/` or
`frontend/`.

| Part | State it keeps | Operations | Talks to | Correct when | Modelled in |
|---|---|---|---|---|---|
| Installation service, `services/installation_service.py` | rows of `installations` and `jobs` | create, uninstall, start, stop, restart, update, update_config | commits a pending job, then publishes a task | one installation per app; each job is carried out or seen to fail | `ApiService` |
| `install_app`, `workers/tasks/install.py` | one session, `created_ids` | mark; create, start and probe each container; record; roll back; retry | rows, Docker, broker | a failed run leaves nothing up; what is stored is one complete run | `InstallTask` |
| `reconfigure_app`, `update_app` | the same | (pull,) remove the old containers, create, record, roll back, retry | rows, Docker, broker | the same, and a failing pull touches nothing | `RecreateTask` |
| `uninstall_app`, `workers/tasks/uninstall.py` | one session | remove containers and volumes, delete the row, retry | rows, Docker, broker | deleted is final and leaves no container | `UninstallTask` |
| `start_app`, `stop_app`, `restart_app` | one session | switch the stored containers, write the status | rows, Docker, broker | no deleted row comes back | `PowerTask` |
| Reaper, `workers/tasks/reaper.py` | ids read, orphans listed | remove containers whose installation is gone | rows, Docker | orphans go, others stay | `Reaper` |
| Docker wrappers, `docker_ops/` | none (the engine's) | create, start, stop, remove, list by label, volumes | Docker | | `Platform`, `TaskRuntime` |
| Celery, `workers/celery_app.py` | messages, pool slots | deliver, acknowledge at the end, retry, redeliver | tasks | one execution of a job at a time | `TaskRuntime`, `Lifecycle` |
| LLM providers, `services/llm_provider_service.py` | `llm_providers` | create, update, delete, toggle | its own session per request | one default | `LLMProviders` |
| Log websocket, `api/v1/logs.py` | a queue, `pending`, `stop`, threads | follow, hand over, send, finish | Docker, the client | every line is sent, every thread freed | `LogStream` |
| Update script, `scripts/update.sh` | `.ianoie-prev-commit`, HEAD | pull, rebuild, recreate, roll back | git, compose | what runs is what is checked out | `UpdateScript` |
| Templates, `templates/` | YAML files | load, render, order by dependency | tasks | dependencies first | not yet |
| Seed, `seed/seed_apps.py` | rows of `apps` | upsert, delete what is gone | rows | | not yet |
| List of installations, `frontend/src/hooks/useInstallations.ts`, `MyAppsPage`, `AppDetailPage`, `DashboardPage` | query cache, `pendingActionId`, requests | poll, invalidate, the buttons of a row | API | what is shown catches up with what is | `InstallationList`, `AppRows`, `AppPage` |
| Log viewers, `useLogStream.ts`, `LogViewer.tsx` | `expandedId`, a websocket per viewer | expand, collapse, connect, clean up | the log websocket | no socket outlives its viewer | `LogPanels` |
| Lifecycle events, `useInstallLogs.ts`, `InstallProgressPanel`, `InstallErrorPanel` | a query per panel | poll while shown | API | a failed row tells why | `InstallEvents` |
| Settings dialog, `MyAppsPage.tsx`, `useJobPolling.ts` | template, form, job, flag, timer | open, save, follow the job | API | what it says of a job is so | `SettingsDialog` |
| Catalogue and install dialog, `CatalogPage`, `AppDetailDialog` | template, provider, model and GPUs chosen by effects | open, choose, install | API | what is asked for fits the app | `InstallDialog` |
| Providers page, `LLMProvidersPage` | form, requests, mark and results of tests | create, edit, delete, test, switch | API | keys and URLs go where they belong | `ProvidersPage` |
| Session, `api/client.ts`, `App.tsx`, `useAuth.ts` | a token that the tabs share | sign in and out, the 401 hook | API | no page without a session | `BrowserSession` |
| Monitors, `SystemMonitorPage`, `DashboardPage` | three queries | poll | API | the badge follows the worker | `Monitors` |
| Authentication, GPU and system monitors, worker restart | users; samples | stateless, or append and prune | | | no (see 9) |

What makes it hard:

* A task runs for minutes, keeps one SQLAlchemy session all that time and never
  locks the row. The API and other tasks change the row, the jobs and the
  containers under it, and the session goes on with the object it loaded.
* Nothing stops a second operation on an installation that is being worked on.
* Almost every call to Docker may fail. Some failures are rolled back, some
  retried, some swallowed, and one, of making the client, nobody catches.
* Commit and publication are two steps, and so are creating, starting and
  remembering a container.
* The log threads cannot be interrupted, and share an executor.
* The update script stops at the first command that fails, after it has already
  moved HEAD.
* A page holds answers of different ages. Requests are not cancelled when the
  dialog that made them closes; effects run after each render, and timers go off
  whatever is on the screen by then.
* Polling is driven by what the last answer said: if that is wrong, nobody asks
  again.

`PROJECT.json` lists each hazard at its line with the properties that cover it.

## 2. Modules

| Module | Contents |
|---|---|
| `Platform` | constants, rows, jobs, messages, containers, volumes, the variables and their initial values, what every part does to Docker |
| `ApiService` | the check and the insert of a create request, the other operations, publication and its failure |
| `TaskRuntime` | what the tasks share: taking a message, loading, marking, creating and starting containers, recording, the except clauses, retries; and the faults of the pool |
| `InstallTask`, `RecreateTask`, `UninstallTask`, `PowerTask` | each task as the sequence of its steps |
| `Reaper` | the periodic cleaner |
| `Lifecycle` | all of these composed, the fairness, the properties |
| `JobLife` | abstract: what a job promises whoever asked for it |
| `LLMProviders`, `DefaultRegister` | provider requests with their sessions; abstract: a register holding one provider or none |
| `LogStream` | handler, pumps, queue, executor, client |
| `UpdateScript` | runs of the script between pushes |
| `ServerView` | abstract: what a client of the API can see of installations and jobs, and how it may change; `Lifecycle` implements it, the pages are built on it |
| `InstallationList` | the cached list and the requests that refresh it; with it `AppRows` (buttons, requests, the mark), `LogPanels` (viewers and sockets), `AppPage` (one installation's page, from both), `InstallEvents` (progress and error panels) |
| `SettingsDialog`, `InstallDialog` | the two dialogs, on `ServerView` |
| `ProvidersPage`, `BrowserSession`, `Monitors` | pages that do not look at installations |
| `FrontEnd` | the pages and `LogStream` composed: a behaviour is the life of one mounted page |
| `MC…` | instances for TLC: model values and symmetry |
| `LifecycleProofs`, `JobSafety`, `ContainerSafety` | theorems about `Lifecycle`: types and deleted rows; jobs; containers |
| `LLMProofs`, `UpdateProofs` | theorems about the providers and the script |
| `PageProofs`, `DialogProofs`, `StreamProofs` | theorems about the pages and the log websocket |

The two halves meet in two places. `Lifecycle` implements `ServerView`
(`ImplementsServerView`), so that whatever the pages are shown to bear, the tasks
do no more than that. And the viewers of `LogPanels` are the clients of
`LogStream`: the sockets of the one closing is what lets the handlers of the
other find that nobody listens.

Definitions called *Faulty variant* are plausible bugs. Nothing uses them; they
are put in the place of a definition to see that a property notices.

## 3. How the models correspond to the code

**Lifecycle.** `row` is the table `installations`: its status (`"free"` before
the insert, `"deleted"` after the delete) and `container_ids`. `job` is `jobs`, with the
number of executions as a history. `unsent` are jobs between `commit` and
`delay`; `queue` the broker; `lost` are jobs that came to nothing before a task
marked them. `worker` is a slot of the pool: `pc` names the
next statement at which others can interleave, `svc` the position in the
container loop, `dead` that its session was deactivated by an `UPDATE` of a row
that is gone or by a `DELETE` that was refused. `containers` and `volumes` are the engine's; a container id is
made of job, execution and service, so that ids never repeat. A step of a task is the code
between two points where another process can be seen: a commit, a Docker call,
a first use of a row.

* A session returns the object it loaded, not the row. A status write is an
  `UPDATE` only if it differs from what was loaded, and an `UPDATE` that
  matches no row raises and deactivates the session (`HandlerRaises`).
* Every task calls `_get_docker_client()` before its `try` and before it marks the
  job (`install.py:101`, `uninstall.py:43`, `:94`, `:132`, `:170`, `reconfigure.py:74`,
  `update.py:89`). `client.py` keeps the client for the life of its process; the
  first task of a process makes one, which asks the daemon for its version and may
  raise. Nothing catches that: no retry, the message is acknowledged and the job
  stays as it is (`ClientFails`). Any task may be the first of its process, as the
  pool replaces a child that has died between two tasks; a retry may be too, whose
  job then stays "failed".
* A commit whose publication fails leaves its job likewise (`DelayFails`).
* The deletion of a row is two steps, as its flush is two statements
  (`UninstallUnlink`, `UninstallDelete`): it sets the `installation_id` of the jobs it
  finds to NULL and then deletes the row. The relationship has no cascade and the
  foreign key no `ON DELETE`, so a job that is committed in between refuses the
  second one; the handler's first statement raises on the session, and the uninstall
  ends with its job "running" and its row "uninstalling". The model keeps a job's
  `inst` when it is unlinked, as nobody reads it afterwards.
* API operations other than create read and commit in one step: what they read
  is the row they check to exist. A create request checks and inserts in two; it is
  left out when no installation or no job is left to insert (the bounds), so that it
  does not wait for ever.
* `_update_job` opens its own session and is one step. Progress texts and
  `log_event` are left out.
* Removing several containers is one step. With `DockerErrors`, a call whose
  failure is swallowed misses any subset of them.
* Templates are assumed to mount a named volume, as those in `templates/` do.
* `MaxFaults` bounds crashes, lost children and redeliveries only. Failing calls of
  tasks, a client that raises, a publication that fails and a deletion that is
  refused may happen at any time in every run.
* Not modelled: an operation that reads the row before it is deleted and inserts
  its job after (the foreign key rejects that job, and the request fails), and lost
  database connections.

**LLMProviders.** A request has a session: load, clear, commit are its steps,
as each awaits the database. `session` maps providers to the objects *as
loaded*; only attributes that differ are written. Row locks taken by an early
flush restrict the order of commits and are left out. `RequestFails` is any
exception: the session is closed without a commit. `overtaken` is a history: the
requests that were under way when the commit of another one changed which providers
are the default.

**LogStream.** `pump[s][c]` is the thread of a container: `"queued"` in the
executor, reading, finished. `backlog` are lines it has not read, `inbox` the
asyncio queue. A handler learns that its client left when it sends. At the end
it cancels: a queued pump never starts, one that reads goes on to its next
line. Blank lines, which the code drops, are not lines of the model.

**UpdateScript.** A commit is the set of parts it changes: what is built
(`backend`, `frontend`) and `config`, which stands for the services that compose
does not build and that change only when compose's files are applied. `applied`
says from which commit each part runs. `script.said` is the last message.

**ServerView.** `shown` is the status of a row, `work` a job with the number of
its executions. A task may write, at any time while its job runs (and an error
after it has failed), any status its code writes; an installation may
be in any of them when its job ends. The refinement maps the columns of `row` and `job`.

**InstallationList.** `listed` is `query.data`. A request has a moment when the
API reads the rows and another when it reads their jobs (two statements in
`installation_service.py`), and one when the answer is applied; `listTorn`
remembers that the two did not agree, `behind` that the user has seen a mutation
succeed since. The query library is external and modelled from its use: an
interval while `refetchInterval` returns a number, and an invalidation, which
replaces a request under way if there is data and leaves it otherwise. Other
clients' requests and the tasks move the server at any time.

**AppRows, AppPage.** `post[n]` is a request of the user: sent, accepted by the
server, acknowledged or failed. Failing stands for a refusal, a lost answer and the
client's timeout; after the last two the server may have accepted.
`pendingActionId` and the callbacks of the last `mutate` are as in the code: one
of each for all rows. On the page of one app `lastUninstall` is the last call of
`uninstall.mutate`, the only one whose `onSuccess` takes the user away.

**LogPanels.** The effect and the cleanup of `useLogStream` run after each render
that shows another viewer or none (`Follow`), which any change of the list may be.
Events of a socket that was closed are still possible and must change nothing.

**InstallEvents.** Events are counted, not told apart; the API returns the first
`EventLimit` of them.

**SettingsDialog.** The template call, the save and the job query are separate
requests. None is cancelled when the dialog closes, and their continuations act on
whatever the dialog shows by then, as the closures over `setState` do. `completed`
is the ref-like flag of `useJobPolling`, `timer` its callback's `setTimeout`.

**InstallDialog.** The effect that loads a template sets `cancelled` in its
cleanup; the two effects that choose provider and model run in the same step as
what triggers them. A tick is a GPU and the app it was made for.

**ProvidersPage.** Text fields are known by what they were meant for: a key by
the provider it was typed for, a URL by its type. `shown` in a toggle request is
what the switch showed when it was clicked.

**BrowserSession.** The token in `localStorage` is shared by the tabs; everything
else is a tab's own and goes with its document. A request carries the token of
the moment it was made. `polling` are the tabs in view whose page has an interval that
runs: the dashboard and the monitors always, the pages with the list while something in
it is busy, the providers page and the catalogue (until a dialog is open) never; the
query library pauses the intervals of a hidden tab. `TurnPolling` is each of these
changes.

**FrontEnd.** One page is mounted, and the others' variables are at rest. Pages
share only the server and the query cache; the part of that cache a page starts
with is what `ListInit` and the like allow.

Line references for every definition are in `PROJECT.json` under `map`.

## 4. Runs

Times are with two TLC workers.

| Run | Instance | Checks | States | Time |
|---|---|---|---|---|
| `all_operations` | 2 slots, 3 jobs of any kind, 1 service, 1 retry (none for installs) | `TypeOK`, `OneExecution`, `NoStuckJob`, `RetriesBounded`, `FailedRunsLeaveNothingUp`, `RecordedSurvive`, `ImplementsJobLife`, `ImplementsServerView` | 928,472 | 95 s |
| `single_slot` | 1 slot, 3 jobs, 2 services, the retries of the code (3 and 2) | `DeletedMeansGone` | 1,876,092 | 50 s |
| `faults` | 2 slots, 2 jobs, 2 services, 1 fault, Docker errors | `StoredFromOneRun`, `DeletedIsFinal` | 962,065 | 30 s |
| `reaping` | 2 slots, 3 jobs (installs and uninstalls), 1 retry of an uninstall, Docker errors, reaper, fairness | `OrphansReaped`, `UninstallSettles` | 174,394 | 110 s |
| `llm_concurrent` | 2 requests, 2 providers | `DeletedForGood`, `OnlyAskedChanges`, `AskedIsDefault`, `ImplementsRegister` | 194,630 | 15 s |
| `update_runs` | 3 commits, 1 run cut short, updates, rebuilds, rollbacks | `SourcesCurrent`, `NothingForgotten` | 1,295,629 | 16 s |
| `front_end` | each page: 2 installations, 2 jobs of up to 2 executions, 2 requests, 2 tabs and 2 tokens, 3 providers; the log handler with 2 sockets, 2 containers (1 talkative) and 3 threads; fairness | the 20 properties below | 937,554 | 185 s |

`front_end` checks, by page (with the states of each): list and rows (149,418)
`ListCatchesUp`, `ListSettles`, `BusyForWholeJob`, `MarkFollowsRequest`; one app
(119,648) the same and, with the viewers, `NoSocketLeft`, `LiveIsOpen`; events
`FailureExplained`; settings (294,264) `OutcomeIsReal`, `SaveFollowed`; catalogue
(118,625) `TemplateOfApp`, `InstallFits`; providers (50,654) `KeyOfProvider`,
`UrlFitsType`, `TestingClears`; session `NoPageWithoutSession`,
`SessionSurvives`; monitors `BadgeFollows`; the log handler (77,858)
`SentinelsCount`, `NothingUnsent`, `ThreadsReleased`.

What they show:

* Overlapping tasks never execute one job twice and never run it more often than
  its retries allow. A job is forgotten, "pending" or "running" for good, in three ways
  and no other: its message came to nothing before its first execution (the publication
  or the Docker client failed), its row is gone, or it is an uninstall whose
  deletion a job committed during the flush has refused. Whatever else fails, in any
  order, somebody still holds the job or it has ended. An uninstall settles but for the
  same exceptions.
* However tasks overlap, a run that fails leaves nothing up, and the rollback of one run never takes what another has recorded. The reason is
  that created ids are the run's own and names collide before they can be
  shared; the mutant that rolls back by label breaks it.
* Without overlap, and with removals that succeed, a deleted installation is gone.
  With overlap it is not (an install may still be creating containers), nor when the
  uninstall swallowed an error, and the reaper is what makes it so in the end, even if its
  runs fail, or miss some containers, now and then.
* With crashes, redeliveries and lost children, what is stored still comes from
  one complete run, and a deleted row stays deleted.
* The provider table is a register of the default, requests that overlap included,
  but for one step: the commit of a request for the default that has cleared the
  defaults of the past, another commit having moved them since. That one leaves two
  (`two_defaults`) or none. An update that asks for the default and was not
  overtaken also repairs a table that has two. Requests never overwrite what they only
  read.
* The log handler ends exactly when all pumps are done, with nothing unsent.
* The list never keeps an answer that is older than what the user has seen
  succeed, and comes to rest on the true statuses as long as jobs complete at
  their first execution and no answer is torn.
* Marks, badges, "Live" and "Testing..." end with what they stand for, however
  requests overlap and fail; sockets close with their viewers.
* Late answers may put the wrong fields in a dialog (section 6), but never make it
  tell of a job what has not happened, ask for a provider the app does not support, or
  give a key to another provider.
* A tab that goes on polling does not stay on a page without a session, and a good
  token goes only by signing out or by a refusal.
* Runs of the update script add up, whatever the order.

Bounds. One installation is enough: tasks of different installations share
slots only: container and volume names carry the installation's id, and GPUs are data here. Three jobs are an install and two operations that overlap
it or each other; two slots give the overlap. Two services are needed where a loop can be
interrupted in the middle, and one where only names matter. A retry budget of
one distinguishes retrying from giving up, and `single_slot` takes the numbers of the
code. Two providers and two requests give the races; a default that moves twice
under a third request changes nothing that `overtaken` does not say (the same
properties hold with three providers, in 3 million states). Two
sockets on a shared container with fewer threads than pumps give the contention.
Three commits give a pull of two after an update, and rollbacks across them.
In the front end two installations tell "this row" from "another one", two
requests give answers that overtake each other, two jobs the second save or the
second operation, two executions of a job the retry under the user's eyes; two
providers are stored and a third can be created; with two tabs one can sign out
under the other. The parts of different pages share no state in the browser but the
query cache, which is why one page at a time is enough. `MaxPosts`, `PageJobs`,
`MaxRuns`, `MaxEvents`, `MaxAsks`, `MaxTokens`, `MaxBacklog` and `MaxInbox` are the
bounds on what users, tasks and containers do.

`CHECK_DEADLOCK FALSE` is in the lifecycle configurations and in `front_end`: when
all the jobs, requests or tokens that the bounds allow are over, the instance stops.
Symmetry is used where no liveness is checked.

## 5. Fairness

*Lifecycle* (run `reaping`). Weak fairness of `Delay` (the API goes on after
its commit), of each slot's step (the pool takes messages and tasks go on; a
slot that may succeed or fail takes either), of reading the ids and removing
(beat starts the reaper forever). Strong fairness of the reaper's listing, and of a
removal that misses nothing (`ReaperRemovesAll`): either may fail again and again, but
not always. The run has no crashes: a child that is lost would leave a job without an
end.

*FrontEnd*, weak fairness only. `ListFairness`: the timer of the interval fires,
the API reads and answers. `EventsFairness`: a panel's query polls as long as it
is shown. `SessionFairness`: a page that polls goes on asking as long as it does
(`polling`), answers arrive; nothing makes an idle page or a hidden tab ask.
`MonitorsFairness`: the API answers the monitors now and then. Nothing is assumed of
users, of tasks, of other clients or of the success of a request.
`ChattyFairness`: a talkative container writes, the threads that read it and the
event loop run.

*LogStream* also states `Fairness`, with strong fairness of `StartPump` (the
executor serves waiting calls in order): `OneThreadPerContainer` is false even
under it (section 6).

*UpdateScript* and *LLMProviders* have no liveness: people start the runs and
requests.

## 6. Where code and words differ

| Run | Property | What happens |
|---|---|---|
| `retry_after_failed_start` | `RetriesHitNoConflict` | `start` raises before the id is appended, the rollback misses the container, and the retry meets its name (`install.py:175`, against the comment at `:216`) |
| `reaper_race` | `ReaperSparesLegit` | an installation inserted between the reaper's query and its listing loses its running containers (`reaper.py:45`, against the docstring at `:27`) |
| `double_create` | `OneInstallationPerApp` | two requests pass the check (`installation_service.py:73`) |
| `two_defaults` | `AtMostOneDefault` | two requests for the default clear what they find, and both are stored as the default (`llm_provider_service.py:50`, against the comment at `:48`) |
| `update_after_failed_build` | `UpToDateMeansCurrent` | HEAD has moved, the build has failed, the next run says "Already up to date" (`update.sh:127`) |

The modules state more of what the repository says and does not keep. These are not part of the
standing runs; put in a configuration, each is refuted at once:

* `OneInstallationPerApp` with one create request at a time (`Lifecycle`, one slot,
  install and uninstall): the check passes over an installation that is being
  uninstalled, and an install task that begins, or goes on, after the uninstall was
  requested writes its status over "uninstalling".
* `DeletedLeavesNoData` (`Lifecycle`, one slot, install and uninstall): volumes
  mounted by name have no label, so `remove_installation_volumes` never finds
  them, although the dialog says "This will remove all data".
* `OneThreadPerContainer` (`LogStream`, `FairSpec`, one thread): a pump on a silent
  container keeps its thread after its client left.
* `ConfigPickedUp` (`UpdateScript`, one commit): a first run or `--rebuild-all`
  after a change of the compose files never recreates the other services.
* `RollbackUndoes` (`UpdateScript`, one commit): the first run records the commit it
  has just pulled.

* In `AppRows`, `OneJobPerRow`: between the acknowledgement and the next answer a row is
  neither marked nor busy, and takes a second operation. `RetriesShown`: between a failure
  and its retry no job is active (`_active_jobs_map`), an answer of that time ends the
  polling, and the badge stays.
* In `SettingsDialog`, `EverySaveFollowed`: `completed` is never reset, so the job of a
  second save is not polled and the dialog says "Applying new configuration..." until it
  is hidden. `FollowsOwnJob`, `ShowsOwnFields`: an answer to a save, or a template, that
  arrives after the dialog was closed goes to the one that is open by then.
  `TimerClosesOwn`: so does the timer.
* In `InstallDialog`, `NoneStays`: "None" is taken back by the effect that chooses the
  default. `InstallsOffered`: a provider that was disabled meanwhile is still sent.
  `InstallClosesOwn`: the answer to one install closes the dialog of another app and
  takes the user away.
* In `ProvidersPage`, `KeyFitsType`, `SaveClosesOwn`, `MarkedWhileTested` and
  `SwitchDoesAsShown`: a key stays in the form when another type is picked; a save
  closes whichever dialog is open; one mark serves all tests; the switch turns round
  what the server has, not what it shows.
* In `LogPanels`, `LogsResume` (nothing reconnects) and `CanCollapse` (the button is gone
  once the status changes). In `AppPage`, `NotFoundIsReal` (it is also said when the list
  could not be loaded) and `OneAtATime` (no button is disabled while a request is sent).
* In `InstallEvents`, `StatusLineMoves` (the API returns the oldest events, so the line
  stands still after the first 500) and `NoDeadRow` (a failed uninstall leaves the row at
  "Uninstalling" without a button). In `InstallationList`, `NoneRunningIsReal` (the
  dashboard says so before the first answer).
* In `BrowserSession`, `RefusedTokenOnly`: a 401 to a request made with the old token
  removes the new one. In `Monitors`, `UnhealthyIsReal` and `HealthyIsRecent`: the badge
  says "Unhealthy" without an answer, and keeps the last one while none comes.

`ListSettles` makes an exception for an answer that is torn (`listTorn`). It
comes about when a task ends between the two statements of the API: the row is read
as `running` under a stop whose job is active, the jobs when that one is over. Nothing
in the answer is busy, so that nobody asks again, and the page shows the old status
until the window gets the focus or something is asked for.

Seen on the way, and contradicted by no text: a crash in the middle of an
install leaves containers up whose names its redelivery then meets, so that it
ends in an error while they run; `start_app` on an installation without stored
containers writes "running"; a job whose task finds its row deleted may stay
"running" forever, since nobody can ask for it any more; a Docker client that raises
leaves a "pending" job and a row that the page shows as busy, and a job committed during
the flush of a deletion leaves the row "uninstalling" (section 3; `NoStuckJob` and
`UninstallSettles` name both); a failing pull marks an
app as errored that still runs (`update.py:225`); the edit form of a provider sends
the `is_default` it was opened with, which another may have taken meanwhile; and the
list of installations ends after 20 rows, as the pages ask for the first page only.

## 7. Proofs

All theorems hold for any number of apps, installations, jobs, services, slots,
retries, requests, providers, commits, pages, sockets, containers and threads. They assume the named assumptions of the
modules, which TLC evaluates in the runs, and the conditions below.

| Theorem | States | Condition |
|---|---|---|
| `TypeCorrect` | `TypeOK` of `Lifecycle` | |
| `DeletedStaysDeleted` | `DeletedIsFinal` | |
| `OneExecutionHolds`, `RetriesBoundedHolds`, `NoStuckJobHolds` | the job invariants | `MaxFaults = 0` |
| `JobLifeImplemented`, `ServerViewImplemented` | `Spec` implements `JobLife` and `ServerView` | `MaxFaults = 0` |
| `StoredFromOneRunHolds`, `RecordedSurviveHolds` | what is recorded of containers, and what removes them | |
| `LeftoversExplained` | `DeletedMeansGone`, unless two tasks of one installation overlapped or the removal of an uninstall missed a container | |
| `FailedRunsHold` | `FailedRunsLeaveNothingUp` | `MaxFaults = 0`, `~DockerErrors` |
| `ProviderTypes`, `DeletedForGoodHolds`, `OnlyAskedChangesHolds` | `TypeOK`, `DeletedForGood` and `OnlyAskedChanges` of `LLMProviders` | |
| `AskedIsDefaultHolds`, `RegisterImplemented` | the default is a register, but for the commit of an overtaken claim | |
| `SourcesCurrentHolds`, `NothingForgottenHolds` | the update script | |
| `MarkFollowsRequestHolds`, `ListCatchesUpHolds`, `BusyForWholeJobHolds`, `NoSocketLeftHolds`, `LiveIsOpenHolds` | list, rows and viewers, for `FrontSpec` | |
| `SessionSurvivesHolds` | the session of the tabs | |
| `OutcomeIsRealHolds`, `SaveFollowedHolds` | the settings dialog | |
| `TemplateOfAppHolds`, `InstallFitsHolds` | the install dialog | |
| `KeyOfProviderHolds`, `UrlFitsTypeHolds`, `TestingClearsHolds` | the providers page | |
| `SentinelsCountHolds`, `NothingUnsentHolds` | the log handler | |

Each condition is needed. A redelivery is a second execution of a job, a child that is
lost ends one without a trace, and a worker that crashes leaves up what it has
started (`MaxFaults = 0`). With `DockerErrors` a rollback whose failure is only logged
leaves containers up. `MaxFaults = 0` excludes neither failing calls nor a publication or
a client that fails nor a deletion that is refused. Where a theorem has no condition it
holds with any number of faults, although the run that checks its property may have none.

* *Types.* `TypeOK` is not inductive: a step of the container loop needs that
  the service it is about exists. `LoopIndex` adds it (`TypeInv`).
* *Deleted rows.* `RowStep` says in one formula what any step does to rows:
  nothing, an insert, or a change of one row that is live or gets deleted. It
  is proved action by action; `DeletedEmpty` (a deleted row is the empty
  record) makes it an invariant.
* *One execution.* `JobSafety` reduces the 30-odd actions to seven things a step
  can do to jobs and messages (insert, publish, lose, take, stay, leave, retry). The
  invariant `TokenInv` is `OneExecution` and a count: runs of a job, retries of
  its message or its slot, and whether it is over.
* *No stuck job.* `FateInv` adds what a failing task relies on: a dead session
  belongs to a row that is gone or to a deletion that a later job refuses, and a task
  marks its job before its installation. `OrderInv` says why that job is later: ids are
  handed out in order, so that what the flush has not found was committed since.
* *Refinement.* `Place` and `Runs` map a state to `JobLife`; each of the seven is
  one of its actions or a stutter, by `TokenInv`. For `ServerView`, `StatusInv` says
  which status the job of a message or a slot has: a task writes to its row only while its
  job is running, or failed when it marks the error, and what is taken from the queue
  is pending or failed. `ShowStep` says what a step does to the rows and which job it
  does it for.
* *Runs.* `RunInv` ties ids to executions: every slot executes a run of its own
  (`SlotRuns`, also after a redelivery), and the ids in a row, in a session and of a
  container name a run of a job of that installation. `RowRuns` is the heart: a run
  whose ids are in a row has nothing left to do but to complete its job, so its rollback
  cannot follow. With `LoopDone` (a task leaves the loop after the last service)
  it makes what is committed whole.
* *Recorded containers.* By `RowRuns` an id in a row is none that a rollback
  removes, as those are the slot's own run's; what is left are the teardowns and the
  reaper. The proof asks each step which containers it can remove.
* *Leftovers.* `LeftoversExplained` is about behaviours in which no two busy slots have
  the same installation (`TasksApart`) and each removal of an uninstall leaves nothing
  that carries the label (`TeardownComplete`), whatever the number of slots, errors and
  faults. `AloneInv`: a task that creates containers has a live row, and between the
  removal and the deletion of the row there are no containers. The step of one slot
  cannot disturb another's installation (`LostElsewhere`, `AloneElsewhere`), and it has
  its own for itself.
* *Failed runs.* `UpInv` adds to the property that what a run has up are services
  its loop has passed (so the rollback, which goes by `created_ids`, reaches all of
  it), that nothing of it is up by the time it marks its job, and that the ids
  stored are those of completed jobs or of slots about to complete theirs: a task
  that starts stored containers starts none of a failed run.
* *LLM.* `Fresh`: the session of a request that was not overtaken knows the defaults of
  now, and one that is about to commit a claim has cleared them all. So its commit sets
  the register; for the others `ClearedAsked` (only a request for the default has
  objects it clears) says that the default stays, or is given up or deleted.
* *Update script.* `Forward` and `Covered`: at a decision the sources are as
  they were before the pull, after it those left out are current. `Carried` is
  the lemma on histories: what is current at a commit and not changed up to a
  later one is current there.

* *Pages.* A theorem about one page is one about `FrontSpec`: a lemma first says what
  any step of the application does to the variables of the part (`PartSteps`,
  `StreamSteps`), and the rest is about the part's own actions.
* *Mark.* `LastIsMade`: the last request has been made, so that a new one never takes its
  number.
* *List.* `GetInv`: a request that an acknowledgement has not replaced is
  newer than it, because nobody can ask for an operation before there is a list.
* *Busy rows.* `AwaitedShown`: an answer that has been read, and the list unless it is
  behind, show the row of each acknowledged job at its first execution as busy. It rests on
  `GetInv`, on a job being there when its request is acknowledged (`JobsMade`), and on
  no job coming back to its first execution (`JobsGoOn`).
* *Session.* Only a tab on a page has a request that can be refused, and a new document
  has none.
* *Viewers.* `PanelInv` is the two properties together: only the viewer's socket can be
  open, so its cleanup leaves nothing, and an event of any other socket changes nothing.
* *Install dialog.* `CatalogInv`: a call that was not cancelled is the open dialog's, and
  the choice is always one that was made for the app shown (`MadeFor`).
* *Settings.* `KnownIsReal`: what the cache knows of a job was so, unless the job has
  been executed again. `SaveIsNew`: nobody has asked about the job of a save that is
  not answered yet.
* *Providers.* `KeysRight` and `UrlsRight` follow a key and a URL from the card through form
  and request to the row; they rest on a provider keeping its type until it is deleted
  (`OfType`).
* *Log handler.* `Counted`: `pending` is the number of pumps at work and of sentinels in
  the queue, and when none is at work the last item is a sentinel. The lemmas on
  `Sentinels` say how a queue's count changes at either end. With one left, the
  head and the last item are the same.

## 8. Only model-checked

Liveness under fairness, which is out of the prover's reach: `OrphansReaped`,
`UninstallSettles`, `ThreadsReleased`, `ListSettles`, `FailureExplained`,
`NoPageWithoutSession`, `BadgeFollows`. Every other property of a passing run is a
theorem of section 7 (`DeletedMeansGone` as `LeftoversExplained` puts it). The five properties that are refuted need no proof: their
counterexamples are behaviours of small instances.

## 9. Not modelled

* Authentication, schemas, configuration: stateless or declarations.
* GPU and system monitors of the back end: append samples and prune old ones.
* Image pulls, GPU choice, LLM keys in environments: calls that may raise, and
  data.
* In `update.sh`: backup, images of apps, health check, pruning. The other
  scripts: straight-line shell.
* The merged configuration of `update_config`, whose lost update is listed as a
  hazard, and with it the values typed into a `ConfigForm`.
* In the pages: texts, translations (`i18n/`), pictures and descriptions
  (`content/apps.ts`), terms, styling and widgets; `GpuMonitorPage`, which
  `App.tsx` does not route; the name and the default box of the provider form and its
  list of models; the values of the metrics and the averages of their history; the
  lines of a log, their filter and the scrolling; a URL typed into the browser.
* Two pages that share the query cache one after the other: a page starts with an
  empty list or what its own `Init` allows.
* The statuses that tasks write while the settings dialog is open: it does not read
  them.

## 10. Plan

In this order:

1. *Dependency order*: `templates/renderer.py` as a function, checked against
   "dependencies first" over all small graphs, cycles included.
2. *Seed synchronisation* and the lost update of `update_config`.
3. GPU allocation between installations; two reapers that overlap.
4. Proofs of what an eventual answer rests on, for any number of jobs: that a step
   which fairness asks for is possible as long as the goal is not reached (the safety
   half of `UninstallSettles` and `OrphansReaped`).
