--------------------------- MODULE InstallEvents ----------------------------
(***************************************************************************)
(* The panels below a row of MyAppsPage that show what the tasks wrote to  *)
(* app_logs (InstallProgressPanel, InstallErrorPanel, ErrorLogs), each     *)
(* with a query of its own that polls as long as the panel is there        *)
(* (useInstallLogs).  Events are known by their number.                    *)
(***************************************************************************)
EXTENDS InstallationList

CONSTANTS
    EventLimit,  \* the events the API returns at most, the oldest ones
    MaxEvents    \* bound: events of an installation

ASSUME InstallEventsAssumption == EventLimit \in Nat /\ MaxEvents \in Nat

VARIABLES
    events,      \* installation -> events in app_logs
    installLogs  \* installation -> the events the cached query holds

eventVars == <<events, installLogs>>

EventsInit ==
    /\ events = [i \in Insts |-> 0]
    /\ installLogs = [i \in Insts |-> 0]

ShowsRow(i) == ListShows = "rows" /\ HasRow(i)

\* InstallProgressPanel.  Jobs that are over are not behind active_job, so none
\* of them is ever said to have ended there.
HasProgress(i) == ShowsRow(i) /\ listed[i].status \in Transitioning
ProgressSays(i) == IF listed[i].status = "uninstalling" THEN "Uninstalling" ELSE "Installing"

\* InstallErrorPanel, and ErrorLogs of AppDetailPage.
HasErrorPanel(i) == ShowsRow(i) /\ listed[i].status = "error"

\* Faulty variant: the error panel shows what the progress panel had read.
PolledInProgress(i) == HasProgress(i)

\* The query is enabled where a panel uses it.
Polled(i) == HasProgress(i) \/ HasErrorPanel(i)

\* A task writes a lifecycle event.
EventWritten(i) ==
    /\ \E j \in JobIds : work[j].inst = i /\ work[j].runs > 0
    /\ events[i] < MaxEvents
    /\ events' = [events EXCEPT ![i] = @ + 1]
    /\ UNCHANGED <<serverVars, listVars, installLogs>>

Returned(i) == IF events[i] < EventLimit THEN events[i] ELSE EventLimit

\* Every 1.5 seconds.
PollEvents(i) ==
    /\ Polled(i)
    /\ installLogs' = [installLogs EXCEPT ![i] = Returned(i)]
    /\ UNCHANGED <<serverVars, listVars, events>>

\* The status line below the progress bar: the last event of the list.
currentStatus(i) == installLogs[i]

EventsNext ==
    \/ \E i \in Insts : EventWritten(i) \/ PollEvents(i)
    \/ ListNext /\ UNCHANGED <<serverVars, eventVars>>
    \/ ServerStep /\ UNCHANGED <<listVars, eventVars>>

EventsFairness == \A i \in Insts : WF_eventVars(PollEvents(i))

-----------------------------------------------------------------------------
\* The comments at ErrorLogs and InstallErrorPanel: "the app_logs lifecycle
\* events ... survive the failure".  A row that stays failed comes to show the
\* last event that was written about it, as far as the API returns it, also
\* those written after the failure was first shown.
FailureExplained ==
    \A i \in Insts : <>[]HasErrorPanel(i) => []<>(installLogs[i] = Returned(i))

-----------------------------------------------------------------------------
(* What one would expect as well, and the code does not keep.              *)

\* currentStatus is "the latest event" of the answer's moment.  (The API returns
\* the oldest events: from the limit on the line stands still.)
StatusLineMoves ==
    [][\A i \in Insts : installLogs'[i] # installLogs[i] => currentStatus(i)' = events[i]]_eventVars

\* A row has buttons again, or says what failed, once its jobs are over.  (One
\* whose uninstall has failed stays at "Uninstalling".)
NoDeadRow ==
    \A i \in Insts :
        /\ ShowsRow(i) /\ listed[i] = [status |-> shown[i], busy |-> FALSE]
        /\ \A j \in JobIds : work[j].inst = i => work[j].runs = MaxRuns
        => ~HasProgress(i)
=============================================================================
