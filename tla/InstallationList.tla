-------------------------- MODULE InstallationList --------------------------
(***************************************************************************)
(* The cached list of installations that the pages read (useInstallations) *)
(* and the requests that refresh it.  The query library is external: one   *)
(* request at a time, an interval while refetchInterval says so, and an    *)
(* invalidation that gives up the request under way once there is data.    *)
(***************************************************************************)
EXTENDS ServerView

CONSTANT PageJobs  \* bound: the jobs requested while a page shows the list

ASSUME InstallationListAssumption == PageJobs \subseteq JobIds

VARIABLES
    listed,     \* query.data: installation -> [status, busy], or NotLoaded
    listGet,    \* the request under way
    listError,  \* query.isError
    listTorn,   \* history: the rows and the jobs of query.data do not agree
    behind      \* history: query.data is older than an acknowledged mutation

listVars == <<listed, listGet, listError, listTorn, behind>>

NotLoaded == <<>>
IdleGet == [pc |-> "idle"]
SentGet == [pc |-> "sent"]

ListInit ==
    /\ listed = NotLoaded
    /\ listGet = SentGet
    /\ listError = FALSE /\ listTorn = FALSE /\ behind = FALSE

Transitioning == {"pending", "installing", "uninstalling"}
HasRow(i) == listed # NotLoaded /\ listed[i].status \in Statuses

\* Faulty variant: the jobs are not looked at.
ListBusyByStatus == \E i \in Insts : HasRow(i) /\ listed[i].status \in Transitioning

\* refetchInterval: what is cached says that something is going on.
ListBusy ==
    \E i \in Insts :
        HasRow(i) /\ (listed[i].status \in Transitioning \/ listed[i].busy)

-----------------------------------------------------------------------------
(* One request.                                                            *)

\* A request for data that was never there takes the error away.
Retrying == listError' = (listError /\ listed # NotLoaded)

SendGet ==
    /\ listGet = IdleGet
    /\ listGet' = SentGet
    /\ Retrying
    /\ UNCHANGED <<listed, listTorn, behind>>

\* Every two seconds while busy; when the window gets the focus or the error
\* page's button is pressed.
ListPoll == ListBusy /\ SendGet
ListRefocus == SendGet

\* The API reads the rows, and then their jobs in a statement of its own.
ListRows ==
    /\ listGet.pc = "sent"
    /\ listGet' = [pc |-> "rows", rows |-> shown, fresh |-> TRUE]
    /\ UNCHANGED <<listed, listError, listTorn, behind>>

ListJobs ==
    /\ listGet.pc = "rows"
    /\ listGet' = [pc |-> "answered", fresh |-> listGet.fresh,
                   torn |-> listGet.rows # shown,
                   data |-> [i \in Insts |-> [status |-> listGet.rows[i],
                                              busy |-> ActiveJob(i) # {}]]]
    /\ UNCHANGED <<listed, listError, listTorn, behind>>

ListDelivered ==
    /\ listGet.pc = "answered"
    /\ listed' = listGet.data
    /\ listTorn' = listGet.torn
    /\ behind' = (behind /\ ~listGet.fresh)
    /\ listGet' = IdleGet
    /\ listError' = FALSE

\* The request and its retries fail; what was cached stays.
ListFails ==
    /\ listGet # IdleGet
    /\ listGet' = IdleGet
    /\ listError' = TRUE
    /\ UNCHANGED <<listed, listTorn, behind>>

\* Faulty variant: a request under way is taken for new enough.
KeepGet ==
    listGet' = IF listGet = IdleGet THEN SentGet
               ELSE IF listGet.pc = "sent" THEN listGet
               ELSE [listGet EXCEPT !.fresh = FALSE]

\* With data a request under way is replaced, without it is waited for.
ReplaceGet ==
    listGet' = IF listed # NotLoaded \/ listGet.pc \in {"idle", "sent"} THEN SentGet
               ELSE [listGet EXCEPT !.fresh = FALSE]

\* onSuccess of every mutation: invalidateQueries(["installations"]).
ListInvalidated ==
    /\ ReplaceGet
    /\ behind' = TRUE
    /\ Retrying
    /\ UNCHANGED <<listed, listTorn>>

\* What a page makes of the query.
ListShows ==
    IF listed = NotLoaded /\ ~listError THEN "skeleton"
    ELSE IF listError THEN "error"
    ELSE IF \E i \in Insts : HasRow(i) THEN "rows"
    ELSE "empty"

\* The card "Running Applications" of the dashboard, which does not look at isLoading.
RunningApps == {i \in Insts : HasRow(i) /\ listed[i].status = "running"}
DashboardShows ==
    IF listError THEN "error"
    ELSE IF RunningApps = {} THEN "No apps running" ELSE "apps"

ListNext == ListPoll \/ ListRefocus \/ ListRows \/ ListJobs \/ ListDelivered \/ ListFails

\* The timer of the interval fires, and requests are answered or fail.
ListFairness ==
    /\ WF_listVars(ListPoll)
    /\ WF_listVars(ListRows \/ ListJobs \/ ListDelivered)

\* Another client asks for an operation.
RequestElsewhere == \E j \in PageJobs, t \in DOMAIN Writes, i \in Insts : Request(j, t, i)
ServerStep == RequestElsewhere \/ \E j \in JobIds : TaskStepOf(j)

-----------------------------------------------------------------------------
\* No list that is older than a mutation the user saw succeed is kept: it is
\* being replaced, or the page says that loading failed.
ListCatchesUp == behind => listGet # IdleGet \/ listError

-----------------------------------------------------------------------------
(* What one would expect as well, and the code does not keep.              *)

\* "No apps running" is said of a list that was read.  (It is also what the
\* dashboard says before the first answer.)
NoneRunningIsReal == DashboardShows = "No apps running" => listed # NotLoaded
=============================================================================
