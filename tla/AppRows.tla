------------------------------ MODULE AppRows -------------------------------
(***************************************************************************)
(* The rows of MyAppsPage: which buttons a row offers, the requests they   *)
(* send, and pendingActionId, the one row that is marked while a request   *)
(* of the shared action mutation is under way.                             *)
(***************************************************************************)
EXTENDS InstallationList

CONSTANTS
    RowOps,    \* the buttons users press in this instance
    MaxPosts   \* bound: requests the user makes

ASSUME AppRowsAssumption == RowOps \subseteq DOMAIN Writes /\ MaxPosts \in Nat

VARIABLES
    post,             \* the requests: [pc, op, inst, job]
    pendingActionId,  \* an installation, or 0 for null
    lastAction        \* the request whose mutate callbacks still count

rowVars == <<post, pendingActionId, lastAction>>

Posts == 1..MaxPosts
NoPost == [pc |-> "unused", op |-> "none", inst |-> 0, job |-> 0]

RowsInit ==
    /\ post = [n \in Posts |-> NoPost]
    /\ pendingActionId = 0
    /\ lastAction = 0

\* The buttons of a row by the status it shows.
Controls(s) ==
    (IF s = "running" THEN {"stop", "restart"} ELSE {})
    \cup (IF s = "stopped" THEN {"start"} ELSE {})
    \cup (IF s \in Transitioning THEN {} ELSE {"update", "uninstall"})

RowBusy(i) == pendingActionId = i \/ listed[i].busy
Offers(i, op) ==
    /\ ListShows = "rows" /\ HasRow(i)
    /\ ~RowBusy(i)
    /\ op \in RowOps \cap Controls(listed[i].status)

NewPost(n, i, op) ==
    /\ post[n] = NoPost
    /\ \A k \in Posts : k < n => post[k] # NoPost
    /\ post' = [post EXCEPT ![n] = [NoPost EXCEPT !.pc = "sent", !.op = op, !.inst = i]]

\* onStart, onStop, onRestart, onUpdate.
ClickAction(n, i, op) ==
    /\ op # "uninstall"
    /\ Offers(i, op)
    /\ NewPost(n, i, op)
    /\ pendingActionId' = i
    /\ lastAction' = n
    /\ UNCHANGED <<serverVars, listVars>>

\* onUninstall marks nothing.
ClickUninstall(n, i) ==
    /\ Offers(i, "uninstall")
    /\ NewPost(n, i, "uninstall")
    /\ UNCHANGED <<serverVars, listVars, pendingActionId, lastAction>>

-----------------------------------------------------------------------------
(* What becomes of a request.                                              *)

PostAccepted(n) ==
    /\ post[n].pc = "sent"
    /\ \E j \in PageJobs :
           /\ Request(j, post[n].op, post[n].inst)
           /\ post' = [post EXCEPT ![n].pc = "accepted", ![n].job = j]
    /\ UNCHANGED <<listVars, pendingActionId, lastAction>>

\* The client repeats a DELETE whose answer it did not get.
PostRepeated(n) ==
    /\ post[n].pc = "accepted" /\ post[n].op = "uninstall"
    /\ post' = [post EXCEPT ![n].pc = "sent"]
    /\ UNCHANGED <<serverVars, listVars, pendingActionId, lastAction>>

\* Faulty variant: the mark is taken away on success only.
SettledOnSuccess(n) ==
    pendingActionId' = IF n = lastAction /\ post[n].pc = "accepted" THEN 0 ELSE pendingActionId

\* onSettled runs for the last call of the mutation only.
Settled(n) == pendingActionId' = IF n = lastAction THEN 0 ELSE pendingActionId

PostOver(n, pc, j) == post' = [post EXCEPT ![n] = [NoPost EXCEPT !.pc = pc, !.job = j]]

PostAnswered(n) ==
    /\ post[n].pc = "accepted"
    /\ ListInvalidated
    /\ Settled(n)
    /\ PostOver(n, "acked", post[n].job)
    /\ UNCHANGED <<serverVars, lastAction>>

\* The API refuses, the answer is lost, or the client's timeout runs out.
PostFails(n) ==
    /\ post[n].pc \in {"sent", "accepted"}
    /\ Settled(n)
    /\ PostOver(n, "failed", 0)
    /\ UNCHANGED <<serverVars, listVars, lastAction>>

PostStep(n) == PostAccepted(n) \/ PostRepeated(n) \/ PostAnswered(n) \/ PostFails(n)

RowsNext ==
    \/ \E n \in Posts, i \in Insts, op \in DOMAIN Writes : ClickAction(n, i, op)
    \/ \E n \in Posts, i \in Insts : ClickUninstall(n, i)
    \/ \E n \in Posts : PostStep(n)
    \/ \E j \in JobIds : TaskStepOf(j) /\ UNCHANGED <<listVars, rowVars>>
    \/ ListNext /\ UNCHANGED <<serverVars, rowVars>>

-----------------------------------------------------------------------------
Acked(j) == \E n \in Posts : post[n].pc = "acked" /\ post[n].job = j

\* The comment in useInstallations: "status badges + progress update live".
\* Once a page has asked for the list, and the jobs have all completed at their
\* first run and the page knew of them, each badge comes to show the status its
\* installation has settled at, or the page says that loading failed.  The answer
\* that is shown then may still be one whose rows and jobs were read at different
\* moments.
ListSettles ==
    <>[](/\ listed # NotLoaded \/ listGet # IdleGet
         /\ \A j \in JobIds : work[j] = NoWork \/ (work[j].status = "completed" /\ work[j].runs = 1 /\ Acked(j)))
        => \/ <>[](listed # NotLoaded /\ \A i \in Insts : listed[i].status = shown[i])
           \/ []<>(listError \/ listTorn)

UnderWay(n) == post[n].pc \in {"sent", "accepted"}

\* One mark serves all rows: it is on the row of the last request, exactly as
\* long as that one is under way, whatever becomes of the earlier ones and
\* however it ends.
MarkFollowsRequest ==
    pendingActionId = IF lastAction # 0 /\ UnderWay(lastAction) THEN post[lastAction].inst ELSE 0

\* The comment at jobBusy: a job keeps the row busy "for the whole job, not
\* just the POST ack".  From the first answer that is newer than the
\* acknowledgement on, the row of a job this page asked for stays busy until
\* the job is over.  (Between a failure and its retry the job is not active, so
\* that the row may be offered again.)
BusyForWholeJob ==
    \A n \in Posts :
        post[n].pc = "acked" /\ ~behind /\ ListShows = "rows"
            => LET j == post[n].job IN
               work[j].status \in {"pending", "running"} /\ work[j].runs <= 1 /\ HasRow(work[j].inst)
                   => listed[work[j].inst].busy

-----------------------------------------------------------------------------
(* What one would expect as well, and the code does not keep.              *)

\* The same comment, taken from the request on: a row has one job at a time.
\* (Between the acknowledgement and the next answer it is enabled.)
OneJobPerRow == \A i \in Insts : \A j, k \in ActiveJob(i) : j = k

\* The badge follows a job to the end of its last run.  (Between a failure and
\* its retry no job is active: an answer of that time ends the polling.)
RetriesShown ==
    <>[](/\ listed # NotLoaded \/ listGet # IdleGet
         /\ \A j \in JobIds : work[j] = NoWork \/ (work[j].status = "completed" /\ Acked(j)))
        => \/ <>[](listed # NotLoaded /\ \A i \in Insts : listed[i].status = shown[i])
           \/ []<>(listError \/ listTorn)
=============================================================================
