----------------------------- MODULE LogPanels ------------------------------
(***************************************************************************)
(* The log viewers of the pages (LogViewer, useLogStream): which row of    *)
(* MyAppsPage has one open, and the websocket an effect opens when a       *)
(* viewer appears and its cleanup closes when the viewer goes.  The other  *)
(* end of the socket is in LogStream.                                      *)
(***************************************************************************)
EXTENDS InstallationList

CONSTANT WebSockets  \* names of websockets; one that is closed is used again

VARIABLES
    expandedId,  \* the row whose logs are expanded, 0 for null
    viewer,      \* the mounted viewer: its installation (0 for none), socket and isConnected
    ws           \* websocket -> "connecting", "open" or "closed"

panelVars == <<expandedId, viewer, ws>>

NoViewer == [inst |-> 0, ws |-> 0, isConnected |-> FALSE]

PanelsInit ==
    /\ expandedId = 0
    /\ viewer = NoViewer
    /\ ws = [w \in WebSockets |-> "closed"]

\* The viewer of MyAppsPage: there are no rows while the page shows an error.
ExpandedRow ==
    IF expandedId # 0 /\ ListShows = "rows" /\ HasRow(expandedId)
    THEN expandedId ELSE 0

\* Faulty variant: the cleanup drops the reference and does not close.
CleanupForgets == ws

\* The cleanup of useLogStream.
Cleanup == [w \in WebSockets |-> IF w = viewer.ws THEN "closed" ELSE ws[w]]

\* After a render that shows the viewer of i, or none: the cleanup of the one
\* that went, and the effect of the one that came.
Follow(i) ==
    IF i = viewer.inst THEN UNCHANGED <<viewer, ws>>
    ELSE IF i = 0 THEN viewer' = NoViewer /\ ws' = Cleanup
    ELSE \E w \in WebSockets :
            /\ Cleanup[w] = "closed"
            /\ \A v \in WebSockets : v < w => Cleanup[v] # "closed"
            /\ viewer' = [inst |-> i, ws |-> w, isConnected |-> FALSE]
            /\ ws' = [Cleanup EXCEPT ![w] = "connecting"]

-----------------------------------------------------------------------------
\* The button is there for running and stopped apps only.
CanToggle(i) == ListShows = "rows" /\ HasRow(i) /\ listed[i].status \in {"running", "stopped"}

toggleLogs(i) ==
    /\ CanToggle(i)
    /\ expandedId' = IF expandedId = i THEN 0 ELSE i
    /\ UNCHANGED <<serverVars, listVars>>
    /\ Follow(ExpandedRow')

\* The list is rendered again.
PanelsList ==
    /\ ListNext
    /\ UNCHANGED <<serverVars, expandedId>>
    /\ Follow(ExpandedRow')

\* onopen.
WsOpens(w) ==
    /\ ws[w] = "connecting"
    /\ ws' = [ws EXCEPT ![w] = "open"]
    /\ viewer' = [viewer EXCEPT !.isConnected = @ \/ viewer.ws = w]

\* Faulty variant: there is no onclose.
CloseUnheard(w) == viewer

\* onclose.
Hung(w) == [viewer EXCEPT !.isConnected = @ /\ viewer.ws # w]

\* The handler is done, has refused the token, or the connection is lost.
WsCloses(w) ==
    /\ ws[w] # "closed"
    /\ ws' = [ws EXCEPT ![w] = "closed"]
    /\ viewer' = Hung(w)

WsEvent == \E w \in WebSockets : WsOpens(w) \/ WsCloses(w)

\* The toolbar of the viewer.
ViewerSays == IF viewer.isConnected THEN "Live" ELSE "Disconnected"

\* Another client is at work on the installations.
PanelsNext ==
    \/ \E i \in Insts : toggleLogs(i)
    \/ PanelsList
    \/ WsEvent /\ UNCHANGED <<serverVars, listVars, expandedId>>
    \/ ServerStep /\ UNCHANGED <<listVars, panelVars>>

-----------------------------------------------------------------------------
\* The sockets that are open or being opened are those of viewers on the
\* screen: however rows come, go, fail to load and are expanded, none is left
\* whose thread at the other end would go on reading.
NoSocketLeft == \A w \in WebSockets : ws[w] # "closed" => viewer.inst # 0 /\ viewer.ws = w

\* "Live" is shown while the viewer's own socket is open, and only then.
LiveIsOpen == viewer.isConnected <=> viewer.inst # 0 /\ ws[viewer.ws] = "open"

-----------------------------------------------------------------------------
(* What one would expect as well, and the code does not keep.              *)

\* A viewer that is left open is connected again.  (Nothing reconnects: after a
\* stop and a start it stays "Disconnected" until it is closed and opened.)
LogsResume ==
    \A i \in Insts : viewer.inst = i /\ ~viewer.isConnected
                        ~> viewer.inst # i \/ viewer.isConnected

\* What was expanded can be collapsed.  (The button is gone in the other statuses.)
CanCollapse == viewer.inst # 0 => CanToggle(viewer.inst)
=============================================================================
