------------------------------ MODULE AppPage -------------------------------
(***************************************************************************)
(* AppDetailPage: one installation, looked up in the cached list, with     *)
(* buttons that no request disables, and a log panel chosen by its status. *)
(***************************************************************************)
EXTENDS AppRows, LogPanels

CONSTANT PageInst  \* the id in the path

ASSUME AppPageAssumption == PageInst \in Insts

VARIABLES
    away,          \* the user was taken to /my-apps
    lastUninstall  \* the post of the last uninstall.mutate, 0 before the first

navVars == <<away, lastUninstall>>
appPageVars == <<rowVars, panelVars, navVars>>

AppPageInit == RowsInit /\ PanelsInit /\ away = FALSE /\ lastUninstall = 0

\* isLoading is over after an error too.
AppPageShows ==
    IF listed = NotLoaded /\ ~listError THEN "spinner"
    ELSE IF HasRow(PageInst) THEN "app" ELSE "not found"

Status == listed[PageInst].status

\* The buttons below the title.
AppControls ==
    {"uninstall"} \cup (IF Status = "running" THEN {"stop", "restart"} ELSE {})
                  \cup (IF Status = "stopped" THEN {"start"} ELSE {})

\* The card "Application Logs".
LogsShow ==
    IF Status = "error" THEN "error logs"
    ELSE IF Status \in {"running", "stopped"} THEN "viewer" ELSE "text"

PageViewer ==
    IF ~away /\ AppPageShows = "app" /\ LogsShow = "viewer" THEN PageInst ELSE 0

ClickOnPage(n, op) ==
    /\ ~away /\ AppPageShows = "app"
    /\ op \in RowOps \cap AppControls
    /\ NewPost(n, PageInst, op)
    /\ lastUninstall' = IF op = "uninstall" THEN n ELSE lastUninstall
    /\ UNCHANGED <<serverVars, listVars, pendingActionId, lastAction, panelVars, away>>

\* The onSuccess given to mutate takes the user to the list; it is called for
\* the last call of mutate only.
PagePost(n) ==
    /\ PostStep(n)
    /\ away' = (away \/ (post'[n].pc = "acked" /\ n = lastUninstall))
    /\ Follow(PageViewer')
    /\ UNCHANGED <<expandedId, lastUninstall>>

PageList ==
    /\ ListNext
    /\ UNCHANGED <<serverVars, rowVars, expandedId, navVars>>
    /\ Follow(PageViewer')

AppPageNext ==
    \/ \E n \in Posts, op \in DOMAIN Writes : ClickOnPage(n, op)
    \/ \E n \in Posts : PagePost(n)
    \/ PageList
    \/ WsEvent /\ UNCHANGED <<serverVars, listVars, rowVars, expandedId, navVars>>
    \/ \E j \in JobIds : TaskStepOf(j) /\ UNCHANGED <<listVars, appPageVars>>

-----------------------------------------------------------------------------
(* What one would expect, and the code does not keep.                      *)

\* "Installation not found" is said of none that is there.  (It is said of
\* every one when the list could not be loaded.)
NotFoundIsReal == AppPageShows = "not found" => ~Listed(PageInst) \/ behind

\* The page asks for one operation at a time.  (No button is disabled while a
\* request or a job is under way.)
OneAtATime ==
    \A n, m \in Posts :
        n # m => ~(post[n].pc \in {"sent", "accepted"} /\ post[m].pc \in {"sent", "accepted"})
=============================================================================
