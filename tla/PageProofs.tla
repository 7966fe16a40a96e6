----------------------------- MODULE PageProofs -----------------------------
(***************************************************************************)
(* Theorems about the pages that show the list of installations, for any   *)
(* number of installations, jobs and requests: the list, the mark of a row *)
(* and the sockets of the log viewers.                                     *)
(***************************************************************************)
EXTENDS FrontEnd, TLAPS

\* What any step of the application may do to a part that only one page has.
LEMMA PartSteps ==
    ASSUME [FrontNext]_allVars
    PROVE  \/ RowsNext /\ UNCHANGED panelVars
           \/ AppPageNext
           \/ PanelsNext /\ UNCHANGED rowVars
           \/ (ListNext \/ UNCHANGED listVars) /\ UNCHANGED <<rowVars, panelVars>>
<1>1. CASE UNCHANGED allVars
  BY <1>1 DEF allVars, listVars, rowVars, panelVars
<1>2. CASE OnList
  <2>1. CASE RowsNext /\ UNCHANGED <<panelVars, navVars, eventVars>>
    BY <2>1 DEF panelVars
  <2>2. CASE PanelsNext /\ UNCHANGED <<rowVars, navVars, eventVars>>
    BY <2>2 DEF rowVars
  <2>3. CASE EventsNext /\ UNCHANGED <<rowVars, panelVars, navVars>>
    BY <2>3 DEF EventsNext, EventWritten, PollEvents, listVars, rowVars, panelVars
  <2>4. CASE AppPageNext
    BY <2>4
  <2> QED BY <1>2, <2>1, <2>2, <2>3, <2>4 DEF OnList
<1>3. CASE OnDialog
  BY <1>3 DEF OnDialog, appPageVars, listVars, rowVars, panelVars
<1>4. CASE Elsewhere
  BY <1>4 DEF Elsewhere, appPageVars, listVars, rowVars, panelVars
<1> QED BY <1>1, <1>2, <1>3, <1>4 DEF FrontNext

-----------------------------------------------------------------------------
(* The mark of a row.                                                      *)

Post == [pc: {"unused", "sent", "accepted", "acked", "failed"},
         op: DOMAIN Writes \cup {"none"}, inst: Insts \cup {0}, job: JobIds \cup {0}]

RowsType ==
    /\ post \in [Posts -> Post]
    /\ lastAction \in Posts \cup {0}

\* The last request is one that was made: no later one takes its number.
LastIsMade == lastAction # 0 => post[lastAction].pc # "unused"

MarkInv == RowsType /\ LastIsMade /\ MarkFollowsRequest

LEMMA PostsArePositive == Posts \subseteq Nat /\ 0 \notin Posts
BY AppRowsAssumption DEF Posts

LEMMA NewPostIs ==
    ASSUME RowsType, NEW n \in Posts, NEW i \in Insts, NEW op \in DOMAIN Writes,
           NewPost(n, i, op)
    PROVE  /\ post[n].pc = "unused"
           /\ post' \in [Posts -> Post]
           /\ post'[n].pc = "sent" /\ post'[n].inst = i
           /\ \A m \in Posts : m # n => post'[m] = post[m]
<1>1. post[n] = NoPost /\ NoPost.pc = "unused"
  BY DEF NewPost, NoPost
<1>2. [NoPost EXCEPT !.pc = "sent", !.op = op, !.inst = i] \in Post
  BY DEF NoPost, Post
<1> QED BY <1>1, <1>2 DEF NewPost, RowsType, NoPost

\* Answers and failures end a request and, if it is the last, its mark.
LEMMA PostStepIs ==
    ASSUME MarkInv, NEW n \in Posts, PostStep(n)
    PROVE  /\ post[n].pc \in {"sent", "accepted"}
           /\ post' \in [Posts -> Post]
           /\ lastAction' = lastAction
           /\ post'[n].pc # "unused"
           /\ \A m \in Posts : m # n => post'[m] = post[m]
           /\ \/ /\ post'[n].pc \in {"sent", "accepted"} /\ post'[n].inst = post[n].inst
                 /\ pendingActionId' = pendingActionId
              \/ /\ post'[n].pc \in {"acked", "failed"}
                 /\ Settled(n)
<1> USE DEF MarkInv, RowsType
<1>1. CASE PostAccepted(n)
  <2>1. PICK j \in PageJobs : post' = [post EXCEPT ![n].pc = "accepted", ![n].job = j]
    BY <1>1 DEF PostAccepted
  <2>2. j \in JobIds
    BY InstallationListAssumption
  <2>3. post' = [post EXCEPT ![n] = [post[n] EXCEPT !.pc = "accepted", !.job = j]]
    BY <2>1
  <2>4. [post[n] EXCEPT !.pc = "accepted", !.job = j] \in Post
    BY <2>2 DEF Post
  <2> QED BY <1>1, <2>3, <2>4 DEF PostAccepted, Post
<1>2. CASE PostRepeated(n)
  BY <1>2 DEF PostRepeated, Post, rowVars
<1>3. CASE PostAnswered(n)
  <2>1. [NoPost EXCEPT !.pc = "acked", !.job = post[n].job] \in Post
    BY DEF NoPost, Post
  <2> QED BY <1>3, <2>1 DEF PostAnswered, PostOver, NoPost
<1>4. CASE PostFails(n)
  <2>1. [NoPost EXCEPT !.pc = "failed", !.job = 0] \in Post
    BY DEF NoPost, Post
  <2> QED BY <1>4, <2>1 DEF PostFails, PostOver, NoPost
<1> QED BY <1>1, <1>2, <1>3, <1>4 DEF PostStep

LEMMA MarkStep ==
    ASSUME MarkInv, RowsNext \/ AppPageNext \/ UNCHANGED rowVars
    PROVE  MarkInv'
<1> USE PostsArePositive
<1>1. ASSUME NEW n \in Posts, NEW i \in Insts, NEW op \in DOMAIN Writes, ClickAction(n, i, op)
      PROVE  MarkInv'
  BY <1>1, NewPostIs DEF ClickAction, MarkInv, RowsType, LastIsMade, MarkFollowsRequest, UnderWay
<1>2. ASSUME NEW n \in Posts, NEW i \in Insts, NEW op \in DOMAIN Writes, NewPost(n, i, op),
             UNCHANGED <<pendingActionId, lastAction>>
      PROVE  MarkInv'
  BY <1>2, NewPostIs DEF MarkInv, RowsType, LastIsMade, MarkFollowsRequest, UnderWay
<1>3. ASSUME NEW n \in Posts, PostStep(n)
      PROVE  MarkInv'
  BY <1>3, PostStepIs DEF MarkInv, RowsType, LastIsMade, MarkFollowsRequest, UnderWay, Settled
<1>4. CASE UNCHANGED rowVars
  BY <1>4 DEF rowVars, MarkInv, RowsType, LastIsMade, MarkFollowsRequest, UnderWay
<1>5. CASE RowsNext
  <2>1. ASSUME NEW n \in Posts, NEW i \in Insts, ClickUninstall(n, i)
        PROVE  MarkInv'
    BY <2>1, <1>2 DEF ClickUninstall, Writes
  <2> QED BY <1>1, <1>3, <1>4, <1>5, <2>1 DEF RowsNext
<1>6. CASE AppPageNext
  <2>1. ASSUME NEW n \in Posts, NEW op \in DOMAIN Writes, ClickOnPage(n, op)
        PROVE  MarkInv'
    BY <2>1, <1>2, AppPageAssumption DEF ClickOnPage
  <2> QED BY <1>3, <1>4, <1>6, <2>1 DEF AppPageNext, PagePost, PageList, appPageVars, rowVars
<1> QED BY <1>4, <1>5, <1>6

LEMMA MarkKept == FrontSpec => []MarkInv
<1>1. FrontInit => MarkInv
  <2> SUFFICES ASSUME RowsInit PROVE MarkInv
    BY DEF FrontInit, AppPageInit
  <2>1. NoPost \in Post
    BY DEF NoPost, Post
  <2> QED BY <2>1 DEF RowsInit, MarkInv, RowsType, LastIsMade, MarkFollowsRequest
<1>2. MarkInv /\ [FrontNext]_allVars => MarkInv'
  BY PartSteps, MarkStep DEF rowVars
<1> QED BY <1>1, <1>2, PTL DEF FrontSpec

\* On every page the mark is on the row of the last request as long as that is
\* under way, whatever becomes of the others (MyAppsPage: pendingActionId).
THEOREM MarkFollowsRequestHolds == FrontSpec => []MarkFollowsRequest
<1>1. MarkInv => MarkFollowsRequest
  BY DEF MarkInv
<1> QED BY <1>1, MarkKept, PTL

-----------------------------------------------------------------------------
(* The sockets of the viewers.                                             *)

Viewer == [inst: Insts \cup {0}, ws: WebSockets \cup {0}, isConnected: BOOLEAN]

PanelsType ==
    /\ viewer \in Viewer
    /\ ws \in [WebSockets -> {"connecting", "open", "closed"}]
    /\ viewer.inst # 0 => viewer.ws \in WebSockets

PanelInv == PanelsType /\ NoSocketLeft /\ LiveIsOpen

\* The cleanup leaves nothing open.
LEMMA CleanupCloses ==
    ASSUME PanelInv
    PROVE  Cleanup = [w \in WebSockets |-> "closed"]
BY DEF PanelInv, PanelsType, NoSocketLeft, Cleanup

LEMMA FollowStep ==
    ASSUME PanelInv, NEW i \in Insts \cup {0}, Follow(i)
    PROVE  PanelInv'
<1>1. CASE UNCHANGED <<viewer, ws>>
  BY <1>1 DEF PanelInv, PanelsType, NoSocketLeft, LiveIsOpen
<1>2. CASE viewer' = NoViewer /\ ws' = Cleanup
  BY <1>2, CleanupCloses
     DEF PanelInv, PanelsType, NoSocketLeft, LiveIsOpen, NoViewer, Viewer
<1>3. CASE i # 0 /\ \E w \in WebSockets :
                      /\ viewer' = [inst |-> i, ws |-> w, isConnected |-> FALSE]
                      /\ ws' = [Cleanup EXCEPT ![w] = "connecting"]
  <2>1. PICK w \in WebSockets :
            /\ viewer' = [inst |-> i, ws |-> w, isConnected |-> FALSE]
            /\ ws' = [Cleanup EXCEPT ![w] = "connecting"]
    BY <1>3
  <2>2. ws' = [v \in WebSockets |-> IF v = w THEN "connecting" ELSE "closed"]
    BY <2>1, CleanupCloses
  <2> QED BY <1>3, <2>1, <2>2 DEF PanelInv, PanelsType, NoSocketLeft, LiveIsOpen, Viewer
<1> QED BY <1>1, <1>2, <1>3 DEF Follow

\* The pages show viewers of installations.
LEMMA ShownViewers ==
    /\ ExpandedRow' \in Insts \cup {0} \/ expandedId' \notin Insts \cup {0}
    /\ PageViewer' \in Insts \cup {0}
BY AppPageAssumption DEF ExpandedRow, PageViewer

LEMMA WsEventStep ==
    ASSUME PanelInv, WsEvent, UNCHANGED expandedId
    PROVE  PanelInv'
<1>1. ASSUME NEW w \in WebSockets, WsOpens(w)
      PROVE  PanelInv'
  <2>1. viewer.inst # 0 /\ viewer.ws = w /\ viewer' = [viewer EXCEPT !.isConnected = TRUE]
    BY <1>1 DEF WsOpens, PanelInv, PanelsType, NoSocketLeft, Viewer
  <2> QED BY <1>1, <2>1 DEF WsOpens, PanelInv, PanelsType, NoSocketLeft, LiveIsOpen, Viewer
<1>2. ASSUME NEW w \in WebSockets, WsCloses(w)
      PROVE  PanelInv'
  <2>1. viewer.inst # 0 /\ viewer.ws = w /\ viewer' = [viewer EXCEPT !.isConnected = FALSE]
    BY <1>2 DEF WsCloses, Hung, PanelInv, PanelsType, NoSocketLeft, Viewer
  <2> QED BY <1>2, <2>1 DEF WsCloses, PanelInv, PanelsType, NoSocketLeft, LiveIsOpen, Viewer
<1> QED BY <1>1, <1>2 DEF WsEvent

PanelRowInv == PanelInv /\ expandedId \in Insts \cup {0}

LEMMA PanelStep ==
    ASSUME PanelRowInv, PanelsNext \/ AppPageNext \/ UNCHANGED panelVars
    PROVE  PanelRowInv'
<1> USE DEF PanelRowInv
<1>1. CASE UNCHANGED panelVars
  BY <1>1 DEF panelVars, PanelInv, PanelsType, NoSocketLeft, LiveIsOpen
<1>2. CASE PanelsNext
  <2>1. ASSUME NEW i \in Insts, toggleLogs(i)
        PROVE  PanelRowInv'
    <3>1. expandedId' \in Insts \cup {0}
      BY <2>1 DEF toggleLogs
    <3> QED BY <2>1, <3>1, ShownViewers, FollowStep DEF toggleLogs
  <2>2. CASE PanelsList
    BY <2>2, ShownViewers, FollowStep DEF PanelsList
  <2> QED BY <1>1, <1>2, <2>1, <2>2, WsEventStep DEF PanelsNext
<1>3. CASE AppPageNext
  <2>1. ASSUME NEW n \in Posts, PagePost(n)
        PROVE  PanelRowInv'
    BY <2>1, ShownViewers, FollowStep DEF PagePost
  <2>2. CASE PageList
    BY <2>2, ShownViewers, FollowStep DEF PageList
  <2>3. ASSUME NEW n \in Posts, NEW op \in DOMAIN Writes, ClickOnPage(n, op)
        PROVE  PanelRowInv'
    BY <2>3, <1>1 DEF ClickOnPage
  <2> QED BY <1>1, <1>3, <2>1, <2>2, <2>3, WsEventStep DEF AppPageNext, appPageVars
<1> QED BY <1>1, <1>2, <1>3

LEMMA PanelsKept == FrontSpec => []PanelRowInv
<1>1. FrontInit => PanelRowInv
  BY DEF FrontInit, AppPageInit, PanelsInit, PanelRowInv, PanelInv, PanelsType,
         NoSocketLeft, LiveIsOpen, NoViewer, Viewer
<1>2. PanelRowInv /\ [FrontNext]_allVars => PanelRowInv'
  BY PartSteps, PanelStep DEF panelVars
<1> QED BY <1>1, <1>2, PTL DEF FrontSpec

\* However rows come, go, fail to load and are expanded, every websocket that is
\* not closed belongs to a viewer on the screen (useLogStream: the cleanup).
THEOREM NoSocketLeftHolds == FrontSpec => []NoSocketLeft
<1>1. PanelRowInv => NoSocketLeft
  BY DEF PanelRowInv, PanelInv
<1> QED BY <1>1, PanelsKept, PTL

\* A viewer says "Live" exactly while its own socket is open (useLogStream:
\* isConnected).
THEOREM LiveIsOpenHolds == FrontSpec => []LiveIsOpen
<1>1. PanelRowInv => LiveIsOpen
  BY DEF PanelRowInv, PanelInv
<1> QED BY <1>1, PanelsKept, PTL

-----------------------------------------------------------------------------
(* The list catches up.                                                    *)

\* A request that the last mutation has not replaced is newer than it, because
\* nobody can ask for an operation before there is a list.
GetInv ==
    /\ listGet.pc \in {"rows", "answered"} => listGet.fresh = TRUE
    /\ listGet.pc = "answered" => DOMAIN listGet.data = Insts
    /\ listed = NotLoaded => \A n \in Posts : post[n].pc = "unused"
CatchInv == GetInv /\ ListCatchesUp

LEMMA NotLoadedIsEmpty == DOMAIN NotLoaded # Insts
<1>1. DOMAIN NotLoaded = {}
  BY DEF NotLoaded
<1> QED BY <1>1, AppPageAssumption

LEMMA GetStep ==
    ASSUME CatchInv, ListNext \/ UNCHANGED listVars, UNCHANGED rowVars
    PROVE  CatchInv'
<1> USE DEF CatchInv, GetInv, ListCatchesUp, rowVars
<1>1. CASE UNCHANGED listVars
  BY <1>1 DEF listVars
<1>2. CASE SendGet
  BY <1>2 DEF SendGet, SentGet, IdleGet, Retrying
<1>3. CASE ListRows
  BY <1>3 DEF ListRows, IdleGet
<1>4. CASE ListJobs
  BY <1>4 DEF ListJobs, IdleGet
<1>5. CASE ListDelivered
  BY <1>5, NotLoadedIsEmpty DEF ListDelivered, IdleGet
<1>6. CASE ListFails
  BY <1>6 DEF ListFails, IdleGet
<1> QED BY <1>1, <1>2, <1>3, <1>4, <1>5, <1>6 DEF ListNext, ListPoll, ListRefocus

LEMMA NewPostCaughtUp ==
    ASSUME CatchInv, listed # NotLoaded, UNCHANGED listVars
    PROVE  CatchInv'
BY DEF CatchInv, GetInv, ListCatchesUp, listVars

LEMMA PostCaughtUp ==
    ASSUME CatchInv, MarkInv, NEW n \in Posts, PostStep(n)
    PROVE  CatchInv'
<1>1. listed # NotLoaded
  BY PostStepIs DEF CatchInv, GetInv
<1>2. CASE PostAnswered(n)
  <2>1. listGet' = SentGet /\ listed' = listed
    BY <1>1, <1>2 DEF PostAnswered, ListInvalidated, ReplaceGet
  <2> QED BY <1>1, <2>1 DEF CatchInv, GetInv, ListCatchesUp, SentGet, IdleGet
<1> QED BY <1>1, <1>2, NewPostCaughtUp DEF PostStep, PostAccepted, PostRepeated, PostFails

LEMMA CatchStep ==
    ASSUME CatchInv, MarkInv, [FrontNext]_allVars
    PROVE  CatchInv'
<1>1. ASSUME UNCHANGED listVars, UNCHANGED rowVars
      PROVE  CatchInv'
  BY <1>1, GetStep
<1>2. CASE RowsNext
  <2>1. ASSUME NEW n \in Posts, NEW i \in Insts, NEW op \in DOMAIN Writes,
               ClickAction(n, i, op) \/ ClickUninstall(n, i)
        PROVE  CatchInv'
    BY <2>1, NewPostCaughtUp DEF ClickAction, ClickUninstall, Offers, HasRow
  <2>2. \E op \in DOMAIN Writes : TRUE
    BY DEF Writes
  <2> QED BY <1>1, <1>2, <2>1, <2>2, PostCaughtUp, GetStep DEF RowsNext
<1>3. CASE AppPageNext
  <2>1. ASSUME NEW n \in Posts, NEW op \in DOMAIN Writes, ClickOnPage(n, op)
        PROVE  CatchInv'
    BY <2>1, NewPostCaughtUp DEF ClickOnPage, AppPageShows, HasRow
  <2> QED BY <1>1, <1>3, <2>1, PostCaughtUp, GetStep
      DEF AppPageNext, PagePost, PageList, appPageVars
<1>4. CASE PanelsNext /\ UNCHANGED rowVars
  BY <1>1, <1>4, GetStep DEF PanelsNext, PanelsList, toggleLogs
<1> QED BY <1>2, <1>3, <1>4, GetStep, PartSteps DEF rowVars

LEMMA CatchKept == FrontSpec => []CatchInv
<1>1. FrontInit => CatchInv
  BY DEF FrontInit, ListInit, ListAtRest, AppPageInit, RowsInit, NoPost,
         SentGet, IdleGet, CatchInv, GetInv, ListCatchesUp
<1>2. CatchInv /\ MarkInv /\ [FrontNext]_allVars => CatchInv'
  BY CatchStep
<1> QED BY <1>1, <1>2, MarkKept, PTL DEF FrontSpec

\* No list that is older than an acknowledged mutation is kept: it is being
\* replaced or the page says that loading failed (the onSuccess callbacks of
\* useInstallations).
THEOREM ListCatchesUpHolds == FrontSpec => []ListCatchesUp
<1>1. CatchInv => ListCatchesUp
  BY DEF CatchInv
<1> QED BY <1>1, CatchKept, PTL
-----------------------------------------------------------------------------
(* A row is busy for the whole job.                                        *)

Work == [type: DOMAIN Writes \cup {"none"}, inst: Insts \cup {0},
         status: {"free", "pending", "running", "completed", "failed"}, runs: Nat]

\* A job that waits has not run, and one that runs, has ended or waits for its
\* retry has; every job is about an installation.
WorkInv ==
    /\ work \in [JobIds -> Work]
    /\ \A j \in JobIds :
           /\ work[j].status = "pending" => work[j].runs = 0
           /\ work[j].status \in {"running", "completed", "failed"} => work[j].runs # 0
           /\ work[j].status # "free" => work[j].inst \in Insts

FirstRun(j) == work[j].status \in {"pending", "running"} /\ work[j].runs <= 1

\* What an accepted request has made is there.
JobsMade ==
    \A n \in Posts :
        /\ post[n].pc \in {"sent", "accepted"} =>
               post[n].inst \in Insts /\ post[n].op \in DOMAIN Writes
        /\ post[n].pc \in {"accepted", "acked"} =>
               post[n].job \in JobIds /\ work[post[n].job].status # "free"

\* The jobs that the user knows to be accepted and that are at their first run.
AwaitedJobs == {j \in JobIds : FirstRun(j) /\ Acked(j)}

\* An answer that has been read and the list that is not behind know of them.
AwaitedShown ==
    \A j \in AwaitedJobs :
        /\ listGet.pc = "answered" => listGet.data[work[j].inst].busy
        /\ ~behind /\ listed # NotLoaded => listed[work[j].inst].busy

RowPages == {"rows", "app"}

RowsBusy == WorkInv /\ JobsMade /\ AwaitedShown

BusyInv ==
    IF page \in RowPages THEN RowsBusy
                         ELSE \A n \in Posts : post[n].pc = "unused"

\* Jobs are made and run, but none returns to its first run.
JobsGoOn ==
    \A j \in JobIds : work[j].status # "free" =>
        /\ work'[j].status # "free" /\ work'[j].inst = work[j].inst
        /\ FirstRun(j)' => FirstRun(j)

LEMMA NoWorkIs == NoWork \in Work /\ NoWork.status = "free"
BY DEF NoWork, Work

LEMMA TaskWorkStep ==
    ASSUME WorkInv, NEW j \in JobIds, TaskStepOf(j)
    PROVE  WorkInv' /\ JobsGoOn
<1>1. work[j] \in Work
  BY DEF WorkInv
<1>2. CASE Begin(j)
  <2> DEFINE new == [work[j] EXCEPT !.status = "running", !.runs = @ + 1]
  <2>1. work' = [work EXCEPT ![j] = new]
    BY <1>2 DEF Begin, WorkInv
  <2>2. /\ work[j].runs \in Nat /\ work[j].runs + 1 \in Nat
        /\ work[j].status \in {"pending", "failed"}
    BY <1>1, <1>2 DEF Work, Begin
  <2>3. /\ new \in Work /\ new.status = "running" /\ new.inst = work[j].inst
        /\ new.runs = work[j].runs + 1
    BY <1>1, <2>2 DEF Work
  <2> HIDE DEF new
  <2> QED BY <2>1, <2>2, <2>3 DEF WorkInv, JobsGoOn, FirstRun
<1>3. CASE Ends(j)
  <2>1. PICK s \in {"completed", "failed"} : EndWork(j, s)
    BY <1>3 DEF Ends
  <2> DEFINE new == [work[j] EXCEPT !.status = s]
  <2>2. work' = [work EXCEPT ![j] = new]
    BY <2>1 DEF EndWork, WorkInv
  <2>3. /\ new \in Work /\ new.status = s /\ new.inst = work[j].inst
        /\ new.runs = work[j].runs /\ work[j].status = "running"
    BY <1>1, <2>1 DEF Work, EndWork
  <2> HIDE DEF new
  <2> QED BY <2>2, <2>3 DEF WorkInv, JobsGoOn, FirstRun
<1>4. CASE work' = work
  BY <1>4 DEF WorkInv, JobsGoOn, FirstRun
<1> QED BY <1>2, <1>3, <1>4 DEF TaskStepOf, DeleteRow, WriteStatus

LEMMA RequestWorkStep ==
    ASSUME WorkInv, NEW j \in JobIds, NEW t \in DOMAIN Writes, NEW i \in Insts,
           Request(j, t, i)
    PROVE  WorkInv' /\ JobsGoOn /\ work'[j].status = "pending"
<1> DEFINE new == [type |-> t, inst |-> i, status |-> "pending", runs |-> 0]
<1>1. new \in Work /\ new.status = "pending" /\ new.runs = 0 /\ new.inst = i
  BY DEF Work
<1>2. work' = [work EXCEPT ![j] = new] /\ work[j].status = "free"
  BY NoWorkIs DEF Request
<1> HIDE DEF new
<1> QED BY <1>1, <1>2 DEF WorkInv, JobsGoOn, FirstRun

\* Nothing is awaited that was not, unless a request is acknowledged.
LEMMA AwaitedStep ==
    ASSUME WorkInv, JobsMade, JobsGoOn,
           \A n \in Posts : post'[n].pc = "acked" =>
               post[n].pc = "acked" /\ post'[n].job = post[n].job
    PROVE  /\ AwaitedJobs' \subseteq AwaitedJobs
           /\ \A j \in AwaitedJobs' : work'[j].inst = work[j].inst
<1> SUFFICES ASSUME NEW j \in AwaitedJobs'
             PROVE  j \in AwaitedJobs /\ work'[j].inst = work[j].inst
  OBVIOUS
<1>1. j \in JobIds /\ FirstRun(j)' /\ Acked(j)'
  BY DEF AwaitedJobs
<1>2. Acked(j)
  BY <1>1 DEF Acked
<1>3. work[j].status # "free"
  BY <1>2 DEF Acked, JobsMade
<1> QED BY <1>1, <1>2, <1>3 DEF JobsGoOn, AwaitedJobs

LEMMA JobsMadeStep ==
    ASSUME JobsMade, JobsGoOn, UNCHANGED post
    PROVE  JobsMade'
BY DEF JobsMade, JobsGoOn

\* A step of a task or of the page that neither asks nor answers.
LEMMA QuietBusyStep ==
    ASSUME RowsBusy, GetInv, WorkInv', JobsGoOn,
           (ListNext /\ UNCHANGED work) \/ UNCHANGED listVars,
           UNCHANGED post
    PROVE  RowsBusy'
<1> USE DEF RowsBusy
<1>1. JobsMade'
  BY JobsMadeStep
<1>2. /\ AwaitedJobs' \subseteq AwaitedJobs
      /\ \A j \in AwaitedJobs' : work'[j].inst = work[j].inst
  BY AwaitedStep
<1> SUFFICES ASSUME NEW j \in AwaitedJobs'
             PROVE  /\ listGet'.pc = "answered" => listGet'.data[work'[j].inst].busy
                    /\ ~behind' /\ listed' # NotLoaded => listed'[work'[j].inst].busy
  BY <1>1 DEF AwaitedShown
<1> DEFINE i == work[j].inst
<1>3. j \in AwaitedJobs /\ work'[j].inst = i
  BY <1>2
<1>4. /\ listGet.pc = "answered" => listGet.data[i].busy
      /\ ~behind /\ listed # NotLoaded => listed[i].busy
  BY <1>3 DEF AwaitedShown
<1>5. i \in Insts /\ j \in ActiveJob(i)
  BY <1>3 DEF AwaitedJobs, FirstRun, WorkInv, ActiveJob
<1> HIDE DEF i
<1>6. CASE UNCHANGED listVars
  BY <1>3, <1>4, <1>6 DEF listVars
<1>7. CASE SendGet \/ ListFails
  BY <1>3, <1>4, <1>7 DEF SendGet, ListFails, SentGet, IdleGet
<1>8. CASE ListRows
  BY <1>3, <1>4, <1>8 DEF ListRows
<1>9. CASE ListJobs
  <2>1. listGet'.data[i].busy
    BY <1>5, <1>9 DEF ListJobs
  <2> QED BY <1>3, <1>4, <1>9, <2>1 DEF ListJobs
<1>10. CASE ListDelivered
  BY <1>3, <1>4, <1>10 DEF ListDelivered, IdleGet
<1> QED BY <1>6, <1>7, <1>8, <1>9, <1>10 DEF ListNext, ListPoll, ListRefocus

LEMMA ClickBusyStep ==
    ASSUME MarkInv, RowsBusy,
           NEW n \in Posts, NEW i \in Insts, NEW op \in DOMAIN Writes, NewPost(n, i, op),
           UNCHANGED <<serverVars, listVars>>
    PROVE  RowsBusy'
<1> USE DEF RowsBusy
<1>1. /\ post'[n].pc = "sent" /\ post'[n].inst = i /\ post'[n].op = op
      /\ \A m \in Posts : m # n => post'[m] = post[m]
  <2>1. post' = [post EXCEPT ![n] = [NoPost EXCEPT !.pc = "sent", !.op = op, !.inst = i]]
    BY DEF NewPost
  <2> QED BY <2>1 DEF NoPost, MarkInv, RowsType
<1>2. work' = work
  BY DEF serverVars
<1>3. WorkInv' /\ JobsGoOn
  BY <1>2 DEF WorkInv, JobsGoOn, FirstRun
<1>4. JobsMade'
  BY <1>1, <1>2 DEF JobsMade
<1>5. AwaitedJobs' \subseteq AwaitedJobs
  BY <1>1, <1>3, AwaitedStep
<1> QED BY <1>2, <1>3, <1>4, <1>5 DEF AwaitedShown, listVars

LEMMA PostBusyStep ==
    ASSUME MarkInv, CatchInv, RowsBusy, NEW n \in Posts, PostStep(n)
    PROVE  RowsBusy'
<1> USE DEF RowsBusy
<1>1. /\ \A m \in Posts : m # n => post'[m] = post[m]
      /\ post[n].pc \in {"sent", "accepted"}
      /\ post[n] \in Post
  BY PostStepIs DEF MarkInv, RowsType
<1>2. CASE PostAccepted(n)
  <2>1. PICK j \in PageJobs :
            /\ Request(j, post[n].op, post[n].inst)
            /\ post' = [post EXCEPT ![n].pc = "accepted", ![n].job = j]
    BY <1>2 DEF PostAccepted
  <2>2. /\ j \in JobIds /\ post[n].inst \in Insts /\ post[n].op \in DOMAIN Writes
    BY <1>1, InstallationListAssumption DEF JobsMade
  <2>3. WorkInv' /\ JobsGoOn /\ work'[j].status = "pending"
    BY <2>1, <2>2, RequestWorkStep
  <2>4. /\ post'[n].pc = "accepted" /\ post'[n].job = j
        /\ post'[n].inst = post[n].inst /\ post'[n].op = post[n].op
    BY <1>1, <2>1 DEF MarkInv, RowsType, Post
  <2>5. JobsMade'
    BY <1>1, <2>2, <2>3, <2>4 DEF JobsMade, JobsGoOn
  <2>6. /\ AwaitedJobs' \subseteq AwaitedJobs
        /\ \A k \in AwaitedJobs' : work'[k].inst = work[k].inst
    <3>1. \A m \in Posts : post'[m].pc = "acked" =>
              post[m].pc = "acked" /\ post'[m].job = post[m].job
      BY <1>1, <2>4
    <3> QED BY <2>3, <3>1, AwaitedStep
  <2>7. UNCHANGED listVars
    BY <1>2 DEF PostAccepted
  <2> QED BY <2>3, <2>5, <2>6, <2>7 DEF AwaitedShown, listVars
<1>3. ASSUME work' = work, UNCHANGED listVars,
             \/ post'[n].pc = "failed"
             \/ /\ post'[n].pc = "sent"
                /\ post'[n].inst = post[n].inst /\ post'[n].op = post[n].op
      PROVE  RowsBusy'
  <2>1. WorkInv' /\ JobsGoOn
    BY <1>3 DEF WorkInv, JobsGoOn, FirstRun
  <2>2. JobsMade'
    BY <1>1, <1>3 DEF JobsMade
  <2>3. \A m \in Posts : post'[m].pc = "acked" =>
            post[m].pc = "acked" /\ post'[m].job = post[m].job
    BY <1>1, <1>3
  <2>4. AwaitedJobs' \subseteq AwaitedJobs
    BY <2>1, <2>3, AwaitedStep
  <2> QED BY <1>3, <2>1, <2>2, <2>4 DEF AwaitedShown, listVars
<1>4. CASE PostRepeated(n)
  <2>1. /\ post'[n].pc = "sent"
        /\ post'[n].inst = post[n].inst /\ post'[n].op = post[n].op
    BY <1>1, <1>4 DEF PostRepeated, Post, MarkInv, RowsType
  <2> QED BY <1>3, <1>4, <2>1 DEF PostRepeated, serverVars
<1>5. CASE PostFails(n)
  <2>1. post'[n].pc = "failed"
    BY <1>5 DEF PostFails, PostOver, NoPost, MarkInv, RowsType
  <2> QED BY <1>3, <1>5, <2>1 DEF PostFails, serverVars
<1>6. CASE PostAnswered(n)
  <2>1. /\ post'[n].pc = "acked" /\ post'[n].job = post[n].job
        /\ post[n].pc = "accepted" /\ work' = work
    BY <1>6 DEF PostAnswered, PostOver, NoPost, MarkInv, RowsType, serverVars
  <2>2. WorkInv'
    BY <2>1 DEF WorkInv
  <2>3. JobsMade'
    BY <1>1, <2>1 DEF JobsMade
  <2>4. listed # NotLoaded
    BY <1>1 DEF CatchInv, GetInv
  <2>5. listGet' = SentGet /\ behind' = TRUE
    BY <1>6, <2>4 DEF PostAnswered, ListInvalidated, ReplaceGet
  <2> QED BY <2>2, <2>3, <2>5 DEF AwaitedShown, SentGet
<1> QED BY <1>2, <1>4, <1>5, <1>6 DEF PostStep

LEMMA BusyStep ==
    ASSUME BusyInv, MarkInv, CatchInv, [FrontNext]_allVars
    PROVE  BusyInv'
<1>1. page' = page
  BY DEF FrontNext, allVars
<1>2. CASE page \notin RowPages
  <2>1. UNCHANGED post
    BY <1>2 DEF FrontNext, OnList, OnDialog, Elsewhere, appPageVars, rowVars, allVars,
                EventsNext, RowPages
  <2> QED BY <1>1, <1>2, <2>1 DEF BusyInv
<1>3. CASE page \in RowPages
  <2> SUFFICES RowsBusy'
    BY <1>1, <1>3 DEF BusyInv
  <2>1. RowsBusy /\ WorkInv /\ GetInv
    BY <1>3 DEF BusyInv, RowsBusy, CatchInv
  <2>2. \/ RowsNext
        \/ AppPageNext
        \/ UNCHANGED <<serverVars, listVars, rowVars>>
    BY <1>3 DEF FrontNext, OnList, OnDialog, RowPages, allVars
  <2>3. ASSUME work' = work, post' = post, ListNext \/ UNCHANGED listVars
        PROVE  RowsBusy'
    <3>1. WorkInv' /\ JobsGoOn
      BY <2>1, <2>3 DEF WorkInv, JobsGoOn, FirstRun
    <3> QED BY <2>1, <2>3, <3>1, QuietBusyStep
  <2>4. ASSUME NEW j \in JobIds, TaskStepOf(j), UNCHANGED listVars, post' = post
        PROVE  RowsBusy'
    <3>1. WorkInv' /\ JobsGoOn
      BY <2>1, <2>4, TaskWorkStep
    <3> QED BY <2>1, <2>4, <3>1, QuietBusyStep
  <2>5. CASE RowsNext
    <3>1. ASSUME NEW n \in Posts, NEW i \in Insts, NEW op \in DOMAIN Writes,
                 ClickAction(n, i, op)
          PROVE  RowsBusy'
      BY <2>1, <3>1, ClickBusyStep DEF ClickAction
    <3>2. ASSUME NEW n \in Posts, NEW i \in Insts, ClickUninstall(n, i)
          PROVE  RowsBusy'
      BY <2>1, <3>2, ClickBusyStep DEF ClickUninstall, Writes
    <3> QED BY <2>1, <2>3, <2>4, <2>5, <3>1, <3>2, PostBusyStep
        DEF RowsNext, rowVars, serverVars
  <2>6. CASE AppPageNext
    <3>1. ASSUME NEW n \in Posts, NEW op \in DOMAIN Writes, ClickOnPage(n, op)
          PROVE  RowsBusy'
      BY <2>1, <3>1, ClickBusyStep, AppPageAssumption DEF ClickOnPage
    <3> QED BY <2>1, <2>3, <2>4, <2>6, <3>1, PostBusyStep
        DEF AppPageNext, PagePost, PageList, appPageVars, rowVars, serverVars
  <2>7. CASE UNCHANGED <<serverVars, listVars, rowVars>>
    BY <2>3, <2>7 DEF serverVars, rowVars
  <2> QED BY <2>2, <2>5, <2>6, <2>7
<1> QED BY <1>2, <1>3

\* From the first answer that is newer than the acknowledgement on, the row of a
\* job that the page asked for stays busy until its first run is over, however
\* many jobs, requests and installations there are (the comment at jobBusy).
THEOREM BusyForWholeJobHolds == FrontSpec => []BusyForWholeJob
<1>1. FrontInit => BusyInv
  <2> SUFFICES ASSUME FrontInit PROVE BusyInv
    OBVIOUS
  <2>1. /\ \A n \in Posts : post[n].pc = "unused"
        /\ work = [j \in JobIds |-> NoWork]
    BY DEF FrontInit, AppPageInit, RowsInit, NoPost, ServerStarts
  <2>2. WorkInv
    BY <2>1, NoWorkIs DEF WorkInv
  <2>3. JobsMade /\ AwaitedJobs = {}
    BY <2>1 DEF JobsMade, AwaitedJobs, Acked
  <2> QED BY <2>1, <2>2, <2>3 DEF BusyInv, RowsBusy, AwaitedShown
<1>2. BusyInv /\ MarkInv /\ CatchInv /\ [FrontNext]_allVars => BusyInv'
  BY BusyStep
<1>3. BusyInv => BusyForWholeJob
  <2> SUFFICES ASSUME BusyInv, NEW n \in Posts, post[n].pc = "acked", ~behind,
                      LET j == post[n].job IN
                          /\ work[j].status \in {"pending", "running"}
                          /\ work[j].runs <= 1 /\ HasRow(work[j].inst)
               PROVE  listed[work[post[n].job].inst].busy
    BY DEF BusyForWholeJob
  <2>1. JobsMade /\ AwaitedShown /\ listed # NotLoaded
    BY DEF BusyInv, RowsBusy, HasRow
  <2>2. post[n].job \in AwaitedJobs
    BY <2>1 DEF JobsMade, AwaitedJobs, FirstRun, Acked
  <2> QED BY <2>1, <2>2 DEF AwaitedShown
<1> QED BY <1>1, <1>2, <1>3, MarkKept, CatchKept, PTL DEF FrontSpec

-----------------------------------------------------------------------------
(* The session that the tabs share.                                        *)

CallOfPage == [pc: {"idle", "sent", "401"}, token: Nat]

SessionType ==
    /\ ianoie_token \in Nat /\ issued \in Nat
    /\ pathname \in [Tabs -> {"/login", "/"}]
    /\ call \in [Tabs -> CallOfPage]

\* Only pages make requests, and a page that is left gives them up; no token is
\* the null of localStorage.
SessionInv ==
    /\ SessionType
    /\ NoToken \notin valid
    /\ \A t \in Tabs : call[t].pc # "idle" => pathname[t] = "/"

LEMMA NoCallIs == NoCall \in CallOfPage /\ NoCall.pc = "idle"
BY DEF NoCall, CallOfPage

\* A new document has no requests.
LEMMA NavigateStep ==
    ASSUME SessionInv, NEW t \in Tabs, NEW path \in {"/login", "/"}, Navigate(t, path)
    PROVE  /\ pathname' \in [Tabs -> {"/login", "/"}]
           /\ pathname'[t] = path
           /\ call' \in [Tabs -> CallOfPage]
           /\ \A u \in Tabs : call'[u].pc # "idle" => pathname'[u] = "/"
BY NoCallIs DEF Navigate, SessionInv, SessionType

\* A request changes its tab's page only when it is refused.
LEMMA CallStep ==
    ASSUME SessionInv, NEW t \in Tabs, NEW new \in CallOfPage,
           call' = [call EXCEPT ![t] = new], new.pc # "idle" => pathname[t] = "/",
           UNCHANGED <<ianoie_token, issued, valid, pathname>>
    PROVE  SessionInv'
BY DEF SessionInv, SessionType

\* What a step may do to the session: it stays as it is, or it is given up by a
\* page that turns into the login page, or a new one begins.
LEMMA SessionStep ==
    ASSUME SessionInv, SessionNext
    PROVE  /\ SessionInv'
           /\ \/ ianoie_token' = ianoie_token
              \/ ianoie_token' # NoToken
              \/ \E t \in Tabs : pathname[t] = "/" /\ pathname'[t] = "/login"
<1>1. ASSUME NEW t \in Tabs, Load(t)
      PROVE  SessionInv' /\ ianoie_token' = ianoie_token
  BY <1>1, NavigateStep DEF Load, AuthGuard, SessionInv, SessionType
<1>2. ASSUME NEW t \in Tabs, handleLogout(t) \/ CallRefused(t)
      PROVE  SessionInv' /\ pathname[t] = "/" /\ pathname'[t] = "/login"
  <2>1. pathname[t] = "/"
    BY <1>2 DEF handleLogout, CallRefused, SessionInv
  <2>2. Navigate(t, "/login") /\ ianoie_token' = NoToken /\ UNCHANGED <<issued, valid>>
    BY <1>2 DEF handleLogout, CallRefused, SignOut
  <2> QED BY <2>1, <2>2, NavigateStep DEF SessionInv, SessionType, NoToken
<1>3. ASSUME NEW t \in Tabs, LoginGranted(t)
      PROVE  SessionInv' /\ ianoie_token' # NoToken
  BY <1>3, NavigateStep DEF LoginGranted, SessionInv, SessionType, NoToken
<1>4. ASSUME NEW t \in Tabs, SendCall(t) \/ CallJudged(t) \/ CallFails(t)
      PROVE  SessionInv' /\ ianoie_token' = ianoie_token
  <2>1. CASE SendCall(t)
    <3>1. [pc |-> "sent", token |-> ianoie_token] \in CallOfPage
      BY DEF CallOfPage, SessionInv, SessionType
    <3> QED BY <2>1, <3>1, CallStep DEF SendCall
  <2>2. CASE CallJudged(t)
    <3>1. call[t] \in CallOfPage /\ pathname[t] = "/"
      BY <2>2 DEF CallJudged, SessionInv, SessionType
    <3>2. [call[t] EXCEPT !.pc = "401"] \in CallOfPage
      BY <3>1 DEF CallOfPage
    <3> DEFINE new == IF Request401(t) THEN [call[t] EXCEPT !.pc = "401"] ELSE NoCall
    <3>3. call' = [call EXCEPT ![t] = new] /\ new \in CallOfPage
      BY <2>2, <3>2, NoCallIs DEF CallJudged
    <3> HIDE DEF new
    <3> QED BY <2>2, <3>1, <3>3, CallStep DEF CallJudged
  <2>3. CASE CallFails(t)
    BY <2>3, NoCallIs, CallStep DEF CallFails
  <2> QED BY <1>4, <2>1, <2>2, <2>3 DEF SendCall, CallJudged, CallFails
<1>5. ASSUME NEW t \in Tabs, handleSignIn(t) \/ LoginRefused(t)
      PROVE  SessionInv' /\ ianoie_token' = ianoie_token
  BY <1>5 DEF handleSignIn, LoginRefused, Refusal, SessionInv, SessionType
<1>6. ASSUME NEW k \in 1..MaxTokens, Expire(k)
      PROVE  SessionInv' /\ ianoie_token' = ianoie_token
  BY <1>6 DEF Expire, SessionInv, SessionType
<1>7. ASSUME NEW t \in Tabs, TurnPolling(t)
      PROVE  SessionInv' /\ ianoie_token' = ianoie_token
  BY <1>7 DEF TurnPolling, SessionInv, SessionType
<1> QED BY <1>1, <1>2, <1>3, <1>4, <1>5, <1>6, <1>7 DEF SessionNext

LEMMA SessionFrontStep ==
    ASSUME SessionInv, [FrontNext]_allVars
    PROVE  /\ SessionInv'
           /\ ianoie_token' = NoToken /\ ianoie_token \in valid
                  => \E t \in Tabs : pathname[t] = "/" /\ pathname'[t] = "/login"
<1>1. CASE SessionNext
  BY <1>1, SessionStep DEF SessionInv
<1>2. CASE UNCHANGED sessionVars
  BY <1>2 DEF sessionVars, SessionInv, SessionType
<1> QED BY <1>1, <1>2 DEF FrontNext, allVars

\* A token that is still good goes only when a page turns into the login page:
\* somebody signs out, or a request has been refused; a wrong password in one of
\* any number of tabs takes it away from none (api/client: the hooks).
THEOREM SessionSurvivesHolds == FrontSpec => SessionSurvives
<1>1. FrontInit => SessionInv
  BY NoCallIs DEF FrontInit, SessionInit, SessionInv, SessionType, NoToken
<1>2. SessionInv /\ [FrontNext]_allVars => SessionInv'
  BY SessionFrontStep
<1>3. SessionInv /\ [FrontNext]_allVars
          => [ianoie_token' = NoToken /\ ianoie_token \in valid
                  => \E t \in Tabs : pathname[t] = "/" /\ pathname'[t] = "/login"]_sessionVars
  BY SessionFrontStep
<1> QED BY <1>1, <1>2, <1>3, PTL DEF FrontSpec, SessionSurvives
=============================================================================
