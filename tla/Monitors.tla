------------------------------ MODULE Monitors ------------------------------
(***************************************************************************)
(* SystemMonitorPage and the resources of DashboardPage: queries that poll *)
(* whatever they show, and what the pages make of data, of errors and of   *)
(* neither.                                                                *)
(***************************************************************************)

VARIABLES
    actual,  \* query -> what the API would answer
    polled   \* query -> [data, isError]

monitorVars == <<actual, polled>>

\* useWorkerHealth; useSystemMetrics and useGpuMetrics.
Answers == [worker |-> {"healthy", "unhealthy"}, metrics |-> {"idle", "busy"},
            gpu |-> {"none", "some"}]
Queries == DOMAIN Answers
NoData == [data |-> "undefined", isError |-> FALSE]

MonitorsInit ==
    /\ actual \in [Queries -> UNION {Answers[q] : q \in Queries}]
    /\ \A q \in Queries : actual[q] \in Answers[q]
    /\ polled = [q \in Queries |-> NoData]

\* The workers come and go, the load changes; GPUs stay.
Turn(q) ==
    /\ q # "gpu"
    /\ actual' \in {[actual EXCEPT ![q] = a] : a \in Answers[q]}
    /\ UNCHANGED polled

\* What was read stays.
Failed(q) == [data |-> polled[q].data, isError |-> TRUE]

\* Faulty variant: no interval, the data is not asked for again.
PolledOnce(q) == polled[q].data = "undefined"

\* Every ten or fifteen seconds, whether or not the last request failed.
Interval(q) == TRUE

Poll(q) ==
    /\ Interval(q)
    /\ polled' = [polled EXCEPT ![q] = [data |-> actual[q], isError |-> FALSE]]
    /\ UNCHANGED actual

PollFails(q) ==
    /\ Interval(q)
    /\ polled' = [polled EXCEPT ![q] = Failed(q)]
    /\ UNCHANGED actual

MonitorsNext == \E q \in Queries : Turn(q) \/ Poll(q) \/ PollFails(q)

\* The API answers now and then.
MonitorsFairness == WF_monitorVars(Poll("worker"))

-----------------------------------------------------------------------------
(* The pages.                                                              *)

Undefined(q) == polled[q].data = "undefined"

\* The card "Background Worker".
WorkerBadge == IF polled["worker"].data = "healthy" THEN "Healthy" ELSE "Unhealthy"

\* SystemMonitorPage: only the first load of the metrics is waited for.
SystemShows ==
    IF Undefined("metrics") /\ ~polled["metrics"].isError THEN {"spinner"}
    ELSE {"cards", WorkerBadge,
          IF polled["gpu"].data = "some" THEN "GPU" ELSE "No GPU detected"}

\* The card "System Resources" of the dashboard.
ResourcesShow ==
    IF ~Undefined("metrics") THEN "bars"
    ELSE IF polled["metrics"].isError THEN "error" ELSE "loading"

-----------------------------------------------------------------------------
\* The monitor tells of a worker that is down, and of one that is up again, as
\* long as the API answers: no state it has shown before sticks.
BadgeFollows ==
    /\ <>[](actual["worker"] = "unhealthy") => []<>(WorkerBadge = "Unhealthy")
    /\ <>[](actual["worker"] = "healthy") => []<>(WorkerBadge = "Healthy")

-----------------------------------------------------------------------------
(* What one would expect as well, and the code does not keep.              *)

\* "Unhealthy" is said of a worker that was found to be.  (It is also what the
\* badge says before the first answer, and when there is none.)
UnhealthyIsReal ==
    "Unhealthy" \in SystemShows => polled["worker"].data = "unhealthy"

\* "Healthy" is not said while the API does not answer.  (isError is not read.)
HealthyIsRecent == "Healthy" \in SystemShows => ~polled["worker"].isError
=============================================================================
