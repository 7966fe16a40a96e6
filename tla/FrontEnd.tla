------------------------------ MODULE FrontEnd ------------------------------
(***************************************************************************)
(* The pages of the browser application, and the websocket handler that    *)
(* serves the log viewers.  A behaviour is the life of one mounted page    *)
(* (App's routes): its own component, the server it talks to, and nothing  *)
(* of the pages that are not there.                                        *)
(***************************************************************************)
EXTENDS AppPage, InstallEvents, SettingsDialog, InstallDialog, ProvidersPage,
        BrowserSession, Monitors, LogStream

CONSTANT Pages  \* the parts of the pages that this instance looks at

ASSUME FrontEndAssumption ==
    Pages \subseteq {"rows", "viewers", "events", "settings", "app", "catalog",
                     "providers", "session", "monitors", "stream"}

VARIABLE page

ListPages == {"rows", "viewers", "events", "app"}

allVars == <<page, serverVars, listVars, rowVars, panelVars, navVars, eventVars, dialogVars,
             catalogVars, provVars, sessionVars, monitorVars, vars>>

\* What is installed when the page is opened: another client works on the
\* viewers' and the events' installations as well.
Installed ==
    CASE page = "catalog"          -> {}
      [] page \in {"events", "app"} -> {PageInst}
      [] OTHER                     -> Insts

\* A page that is not there asks for nothing, and nothing happens to it.
ListAtRest ==
    /\ listed = NotLoaded /\ listGet = IdleGet
    /\ listError = FALSE /\ listTorn = FALSE /\ behind = FALSE
MonitorsAtRest ==
    /\ actual = [q \in Queries |-> CHOOSE a \in Answers[q] : TRUE]
    /\ polled = [q \in Queries |-> [data |-> actual[q], isError |-> FALSE]]
StreamsAtRest == ended = Containers /\ NoStreams
CatalogAtRest == CatalogInit /\ filter = CHOOSE f \in AllFilters : TRUE

FrontInit ==
    /\ page \in Pages
    /\ ServerStarts(Installed)
    /\ IF page \in ListPages THEN ListInit ELSE ListAtRest
    /\ IF page = "monitors" THEN MonitorsInit ELSE MonitorsAtRest
    /\ IF page = "stream" THEN Init ELSE StreamsAtRest
    /\ IF page = "catalog" THEN CatalogInit ELSE CatalogAtRest
    /\ AppPageInit /\ EventsInit /\ DialogInit /\ ProvInit /\ SessionInit

OnList ==
    /\ \/ page = "rows" /\ RowsNext /\ UNCHANGED <<panelVars, navVars, eventVars>>
       \/ page = "viewers" /\ PanelsNext /\ UNCHANGED <<rowVars, navVars, eventVars>>
       \/ page = "events" /\ EventsNext /\ UNCHANGED <<rowVars, panelVars, navVars>>
       \/ page = "app" /\ AppPageNext /\ UNCHANGED eventVars
    /\ UNCHANGED <<dialogVars, catalogVars>>

OnDialog ==
    /\ \/ page = "settings" /\ DialogNext /\ UNCHANGED catalogVars
       \/ page = "catalog" /\ CatalogNext /\ UNCHANGED dialogVars
    /\ UNCHANGED <<listVars, appPageVars, eventVars>>

Elsewhere == UNCHANGED <<serverVars, listVars, appPageVars, eventVars, dialogVars, catalogVars>>

FrontNext ==
    /\ UNCHANGED page
    /\ \/ (OnList \/ OnDialog) /\ UNCHANGED <<provVars, sessionVars, monitorVars, vars>>
       \/ page = "providers" /\ ProvNext /\ Elsewhere /\ UNCHANGED <<sessionVars, monitorVars, vars>>
       \/ page = "session" /\ SessionNext /\ Elsewhere /\ UNCHANGED <<provVars, monitorVars, vars>>
       \/ page = "monitors" /\ MonitorsNext /\ Elsewhere /\ UNCHANGED <<provVars, sessionVars, vars>>
       \/ page = "stream" /\ Next /\ Elsewhere /\ UNCHANGED <<provVars, sessionVars, monitorVars>>

\* Timers fire, requests are answered and threads run: the parts' own fairness.
FrontFairness ==
    ListFairness /\ EventsFairness /\ SessionFairness /\ MonitorsFairness /\ ChattyFairness

FrontSpec == FrontInit /\ [][FrontNext]_allVars /\ FrontFairness
=============================================================================
