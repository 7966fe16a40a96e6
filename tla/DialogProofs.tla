---------------------------- MODULE DialogProofs ----------------------------
(***************************************************************************)
(* Theorems about the dialogs: installing an app, the settings of an       *)
(* installation and the LLM providers, for any number of apps,             *)
(* installations, providers, jobs and requests.                            *)
(***************************************************************************)
EXTENDS PageProofs

-----------------------------------------------------------------------------
(* The install dialog.                                                     *)

LEMMA CatalogSteps ==
    ASSUME [FrontNext]_allVars
    PROVE  CatalogNext \/ UNCHANGED catalogVars
<1>1. CASE UNCHANGED allVars
  BY <1>1 DEF allVars, catalogVars
<1>2. CASE OnList
  BY <1>2 DEF OnList, catalogVars
<1>3. CASE OnDialog
  BY <1>3 DEF OnDialog
<1>4. CASE Elsewhere
  BY <1>4 DEF Elsewhere, catalogVars
<1> QED BY <1>1, <1>2, <1>3, <1>4 DEF FrontNext

Choice == [provider: Provs \cup {0}, model: Provs \cup {0},
           gpus: SUBSET [index: Nat, app: Insts \cup {0}]]
CatalogType ==
    /\ selectedApp \in Insts \cup {0}
    /\ template \in Insts \cup {0}
    /\ calls \subseteq [app: Insts, cancelled: BOOLEAN]
    /\ choice \in Choice

\* A choice that was made for app a, whose template is t.
MadeFor(c, t, a) ==
    /\ c.provider # 0 => t # 0 /\ c.provider \in Supports[t]
    /\ c.model \in {0, c.provider}
    /\ a # 0 => \A g \in c.gpus : g.app \in {0, a}

\* Only the call of the dialog that is open counts, what it loads is the template
\* of its app, and the choice was made for that app.
CatalogInv ==
    /\ CatalogType
    /\ \A c \in calls : c.cancelled \/ c.app = selectedApp
    /\ TemplateOfApp
    /\ MadeFor(choice, template, selectedApp)
    /\ InstallFits
    /\ install.app \in Insts \cup {0}

LEMMA NoChoiceFits ==
    /\ NoChoice \in Choice
    /\ \A t, a : MadeFor(NoChoice, t, a)
BY DEF NoChoice, FirstGpu, Choice, MadeFor

\* The effects choose a provider that the template supports, and a model of it.
LEMMA AutoSelectFits ==
    ASSUME NEW c \in Choice, NEW t \in Insts \cup {0}, NEW a, NEW list, MadeFor(c, t, a)
    PROVE  AutoSelect(c, t, list) \in Choice /\ MadeFor(AutoSelect(c, t, list), t, a)
<1>1. DefaultChoice(c, t, list) \in Choice /\ MadeFor(DefaultChoice(c, t, list), t, a)
  <2>1. DefaultProv \in Compatible(t, list) => t # 0 /\ DefaultProv \in Supports[t]
    BY DEF Compatible
  <2>2. DefaultProv \in Provs
    BY InstallDialogAssumption
  <2>3. CASE c.provider = 0 /\ list.loaded /\ DefaultProv \in Compatible(t, list)
    <3>1. DefaultChoice(c, t, list) = [c EXCEPT !.provider = DefaultProv]
      BY <2>3 DEF DefaultChoice
    <3>2. c.model = 0
      BY <2>3 DEF MadeFor
    <3> QED BY <2>1, <2>2, <2>3, <3>1, <3>2 DEF Choice, MadeFor
  <2>4. CASE ~(c.provider = 0 /\ list.loaded /\ DefaultProv \in Compatible(t, list))
    BY <2>4 DEF DefaultChoice
  <2> QED BY <2>3, <2>4
<1>2. ASSUME NEW d \in Choice, MadeFor(d, t, a)
      PROVE  FirstModel(d, list) \in Choice /\ MadeFor(FirstModel(d, list), t, a)
  BY <1>2 DEF FirstModel, Choice, MadeFor
<1> QED BY <1>1, <1>2 DEF AutoSelect

\* No step but these sends an install.
LEMMA InstallStep ==
    ASSUME CatalogInv, CatalogNext \/ UNCHANGED catalogVars
    PROVE  InstallFits' /\ install'.app \in Insts \cup {0}
<1> USE DEF CatalogInv, CatalogType
<1>1. CASE ClickInstall
  <2>1. selectedApp # 0 /\ install'.app = selectedApp /\ install'.choice = choice
    BY <1>1 DEF ClickInstall, OffersInstall
  <2>2. choice.provider # 0 => template = selectedApp
    BY <2>1 DEF MadeFor, TemplateOfApp
  <2> QED BY <2>1, <2>2 DEF InstallFits, MadeFor
<1>2. CASE InstallAccepted
  BY <1>2, NoChoiceFits DEF InstallAccepted, InstallFits, NoChoice, FirstGpu
<1>3. CASE InstallAnswered \/ InstallRefused
  BY <1>3 DEF InstallAnswered, InstallRefused, InstallFits, NoInstall
<1>4. CASE UNCHANGED install
  BY <1>4 DEF InstallFits
<1> QED BY <1>1, <1>2, <1>3, <1>4
    DEF CatalogNext, catalogVars, ChangeFilter, InstallationsArrive, ProvidersLoaded,
        OpenApp, ManageApp, CloseApp, TemplateLoaded, TemplateRefused, ProviderDisabled,
        PickProvider, toggleGpu

\* The part of the invariant that is about the dialog.
DialogFits ==
    /\ CatalogType
    /\ \A c \in calls : c.cancelled \/ c.app = selectedApp
    /\ TemplateOfApp
    /\ MadeFor(choice, template, selectedApp)

LEMMA CancelledCalls ==
    ASSUME CatalogType
    PROVE  /\ Cancelled \subseteq [app: Insts, cancelled: BOOLEAN]
           /\ \A c \in Cancelled : c.cancelled
BY DEF CatalogType, Cancelled

LEMMA ChosenAgain ==
    ASSUME DialogFits, NEW list, choice' = AutoSelect(choice, template, list),
           UNCHANGED <<selectedApp, calls, template>>
    PROVE  DialogFits'
<1>1. choice' \in Choice /\ MadeFor(choice', template, selectedApp)
  BY AutoSelectFits DEF DialogFits, CatalogType
<1> QED BY <1>1 DEF DialogFits, CatalogType, TemplateOfApp

LEMMA DialogStep ==
    ASSUME DialogFits, CatalogNext
    PROVE  DialogFits'
<1> USE DEF DialogFits, CatalogType
<1>1. ASSUME NEW a \in Insts, OpenApp(a)
      PROVE  DialogFits'
  <2>1. choice' \in Choice /\ MadeFor(choice', 0, a)
    BY <1>1, NoChoiceFits, AutoSelectFits DEF OpenApp, ResetChoice
  <2>2. /\ calls' \subseteq [app: Insts, cancelled: BOOLEAN]
        /\ \A c \in calls' : c.cancelled \/ c.app = a
    <3> DEFINE own == [app |-> a, cancelled |-> FALSE]
    <3>1. calls' = Cancelled \cup {own}
      BY <1>1 DEF OpenApp
    <3>2. own \in [app: Insts, cancelled: BOOLEAN] /\ own.app = a
      OBVIOUS
    <3>3. /\ Cancelled \subseteq [app: Insts, cancelled: BOOLEAN]
          /\ \A c \in Cancelled : c.cancelled
      BY CancelledCalls
    <3> HIDE DEF own
    <3> QED BY <3>1, <3>2, <3>3
  <2>3. selectedApp' = a /\ template' = 0
    BY <1>1 DEF OpenApp
  <2>4. MadeFor(choice, template, selectedApp)'
    BY <2>1, <2>3 DEF MadeFor
  <2> QED BY <2>1, <2>2, <2>3, <2>4 DEF TemplateOfApp
<1>2. CASE CloseApp
  <2>1. MadeFor(choice, template, 0)
    BY DEF MadeFor
  <2> QED BY <1>2, <2>1, CancelledCalls DEF CloseApp, TemplateOfApp
<1>3. ASSUME NEW c \in calls, TemplateLoaded(c)
      PROVE  DialogFits'
  <2>1. CASE c.cancelled
    BY <1>3, <2>1 DEF TemplateLoaded, TemplateOfApp
  <2>2. CASE ~c.cancelled
    <3>1. c.app = selectedApp /\ selectedApp # 0 /\ selectedApp \in Insts
      BY <2>2, InstallDialogAssumption
    <3>2. MadeFor(choice, selectedApp, selectedApp)
      BY <3>1 DEF MadeFor, TemplateOfApp
    <3>3. template' = selectedApp /\ choice' = AutoSelect(choice, selectedApp, llmProviders)
      BY <1>3, <2>2, <3>1 DEF TemplateLoaded
    <3>4. choice' \in Choice /\ MadeFor(choice', selectedApp, selectedApp)
      BY <3>1, <3>2, <3>3, AutoSelectFits
    <3> QED BY <1>3, <3>1, <3>3, <3>4 DEF TemplateLoaded, TemplateOfApp
  <2> QED BY <2>1, <2>2
<1>4. ASSUME NEW c \in calls, TemplateRefused(c)
      PROVE  DialogFits'
  BY <1>4 DEF TemplateRefused, TemplateOfApp
<1>5. CASE ProvidersLoaded
  BY <1>5, ChosenAgain DEF ProvidersLoaded
<1>6. ASSUME NEW p \in Provs \cup {0}, PickProvider(p)
      PROVE  DialogFits'
  <2>1. [choice EXCEPT !.provider = p, !.model = 0] \in Choice
    BY DEF Choice
  <2>2. MadeFor([choice EXCEPT !.provider = p, !.model = 0], template, selectedApp)
    BY <1>6 DEF PickProvider, Compatible, MadeFor, Choice
  <2>3. choice' \in Choice /\ MadeFor(choice', template, selectedApp)
    BY <1>6, <2>1, <2>2, AutoSelectFits DEF PickProvider
  <2> QED BY <1>6, <2>3 DEF PickProvider, TemplateOfApp
<1>7. ASSUME NEW g \in Gpus, toggleGpu(g)
      PROVE  DialogFits'
  <2>1. PICK gpus : /\ choice' = [choice EXCEPT !.gpus = gpus]
                    /\ gpus \subseteq choice.gpus \cup {[index |-> g, app |-> selectedApp]}
    BY <1>7 DEF toggleGpu
  <2>2. [index |-> g, app |-> selectedApp] \in [index: Nat, app: Insts \cup {0}]
    BY InstallDialogAssumption
  <2>3. choice' \in Choice
    BY <2>1, <2>2 DEF Choice
  <2>4. MadeFor(choice', template, selectedApp)
    BY <2>1 DEF MadeFor, Choice
  <2> QED BY <1>7, <2>3, <2>4 DEF toggleGpu, TemplateOfApp
<1>8. CASE LeavePage
  BY <1>8, NoChoiceFits DEF LeavePage, TemplateOfApp
<1>9. CASE UNCHANGED <<selectedApp, calls, template, choice>>
  BY <1>9 DEF TemplateOfApp
<1> QED BY <1>1, <1>2, <1>3, <1>4, <1>5, <1>6, <1>7, <1>8, <1>9
    DEF CatalogNext, dialogFrame, ChangeFilter, InstallationsArrive, ProviderDisabled,
        ManageApp, ClickInstall, InstallAccepted, InstallAnswered, InstallRefused

LEMMA CatalogKept == FrontSpec => []CatalogInv
<1>1. FrontInit => CatalogInv
  BY NoChoiceFits
     DEF FrontInit, CatalogAtRest, CatalogInit, CatalogInv, CatalogType, TemplateOfApp,
         InstallFits, NoInstall
<1>2. CatalogInv /\ [FrontNext]_allVars => CatalogInv'
  <2> SUFFICES ASSUME CatalogInv, CatalogNext \/ UNCHANGED catalogVars
               PROVE  CatalogInv'
    BY CatalogSteps
  <2>1. InstallFits' /\ install'.app \in Insts \cup {0}
    BY InstallStep
  <2>2. DialogFits /\ (DialogFits' /\ InstallFits' /\ install'.app \in Insts \cup {0} => CatalogInv')
    BY DEF CatalogInv, DialogFits
  <2>3. CASE UNCHANGED catalogVars
    BY <2>3 DEF catalogVars, CatalogInv, CatalogType, TemplateOfApp, InstallFits
  <2> QED BY <2>1, <2>2, <2>3, DialogStep
<1> QED BY <1>1, <1>2, PTL DEF FrontSpec

\* The template in the state is that of the app the dialog shows, however late
\* the answers for dialogs closed before arrive (AppDetailDialog: cancelled).
THEOREM TemplateOfAppHolds == FrontSpec => []TemplateOfApp
<1>1. CatalogInv => TemplateOfApp
  BY DEF CatalogInv
<1> QED BY <1>1, CatalogKept, PTL

\* What an install asks for fits its app: provider, model and GPUs, whatever
\* dialogs, answers and effects came before (AppDetailDialog: handleInstall).
THEOREM InstallFitsHolds == FrontSpec => []InstallFits
<1>1. CatalogInv => InstallFits
  BY DEF CatalogInv
<1> QED BY <1>1, CatalogKept, PTL

-----------------------------------------------------------------------------
(* The settings dialog.                                                    *)

Save == [pc: {"idle", "sent", "accepted"}, inst: Insts \cup {0}, job: JobIds \cup {0}]

SettingsType ==
    /\ work \in [JobIds -> Work]
    /\ settingsInst \in Insts \cup {0}
    /\ save \in Save
    /\ configJobId \in JobIds \cup {0}
    /\ jobData \in [JobIds -> {"none", "free", "pending", "running", "completed", "failed"}]
    /\ completed \in BOOLEAN
    /\ timer \in {"none"} \cup Over

\* What is known of a job was so, but for a job that is executed again.
KnownIsReal ==
    \A j \in JobIds :
        /\ work[j].status \in {"running", "completed", "failed"} => work[j].runs >= 1
        /\ jobData[j] # "none" => work[j].status # "free"
        /\ jobData[j] \in Over => work[j].status = jobData[j] \/ work[j].runs > 1

\* The job of a save that was accepted is one that nobody has asked about.
SaveIsNew ==
    /\ isSaving => configJobId \in JobIds /\ work[configJobId].status # "free"
    /\ save.pc = "accepted" =>
          /\ save.job \in JobIds /\ work[save.job].status # "free"
          /\ jobData[save.job] = "none"
          /\ isSaving => configJobId # save.job

SettingsInv == SettingsType /\ KnownIsReal /\ SaveIsNew /\ SaveFollowed

\* The jobs move by requests and by the first and the last step of a run.
WorkMoves ==
    \/ UNCHANGED work
    \/ \E j \in JobIds : Begin(j) \/ Ends(j)
    \/ \E j \in JobIds, t \in DOMAIN Writes \cup {"none"}, i \in Insts \cup {0} : Request(j, t, i)

LEMMA WorkSteps ==
    ASSUME MarkInv, CatalogInv, [FrontNext]_allVars
    PROVE  DialogNext \/ (UNCHANGED dialogVars /\ WorkMoves)
<1>r. ASSUME NEW j \in JobIds, NEW t \in DOMAIN Writes \cup {"none"}, NEW i \in Insts \cup {0},
             Request(j, t, i)
      PROVE  WorkMoves
  BY <1>r DEF WorkMoves
<1>t. ASSUME NEW j \in JobIds, TaskStepOf(j)
      PROVE  WorkMoves
  <2>1. CASE Begin(j) \/ Ends(j)
    BY <2>1 DEF WorkMoves
  <2>2. CASE UNCHANGED work
    BY <2>2 DEF WorkMoves
  <2> QED BY <1>t, <2>1, <2>2 DEF TaskStepOf, DeleteRow, WriteStatus
<1>u. UNCHANGED work => WorkMoves
  BY DEF WorkMoves
<1>1. \A j \in JobIds : TaskStepOf(j) => WorkMoves
  BY <1>t
<1>2. ASSUME ServerStep PROVE WorkMoves
  <2>1. ASSUME NEW j \in PageJobs, NEW t \in DOMAIN Writes, NEW i \in Insts, Request(j, t, i)
        PROVE  WorkMoves
    BY <2>1, <1>r, InstallationListAssumption
  <2> QED BY <1>1, <1>2, <2>1 DEF ServerStep, RequestElsewhere
<1>3. ASSUME NEW n \in Posts, PostStep(n)
      PROVE  WorkMoves
  <2>1. post[n].op \in DOMAIN Writes \cup {"none"} /\ post[n].inst \in Insts \cup {0}
    BY DEF MarkInv, RowsType, Post
  <2>2. CASE PostAccepted(n)
    BY <1>r, <2>1, <2>2, InstallationListAssumption DEF PostAccepted
  <2>3. CASE PostRepeated(n) \/ PostAnswered(n) \/ PostFails(n)
    BY <1>u, <2>3 DEF PostRepeated, PostAnswered, PostFails, serverVars
  <2> QED BY <1>3, <2>2, <2>3 DEF PostStep
<1>4. ASSUME RowsNext PROVE WorkMoves
  BY <1>1, <1>3, <1>4, <1>u DEF RowsNext, ClickAction, ClickUninstall, serverVars
<1>5. ASSUME AppPageNext PROVE WorkMoves
  BY <1>1, <1>3, <1>5, <1>u DEF AppPageNext, ClickOnPage, PagePost, PageList, serverVars
<1>6. ASSUME PanelsNext PROVE WorkMoves
  BY <1>2, <1>6, <1>u DEF PanelsNext, PanelsList, toggleLogs, serverVars
<1>7. ASSUME EventsNext PROVE WorkMoves
  BY <1>2, <1>7, <1>u DEF EventsNext, EventWritten, PollEvents, serverVars
<1>8. ASSUME CatalogNext PROVE WorkMoves
  <2>1. CASE InstallAccepted
    <3>1. install.app \in Insts \cup {0}
      BY DEF CatalogInv
    <3>2. "install" \in DOMAIN Writes \cup {"none"}
      BY DEF Writes
    <3> QED BY <1>r, <2>1, <3>1, <3>2, InstallDialogAssumption DEF InstallAccepted
  <2>2. CASE UNCHANGED serverVars
    BY <1>u, <2>2 DEF serverVars
  <2> QED BY <1>8, <2>1, <2>2
      DEF CatalogNext, ChangeFilter, InstallationsArrive, ProvidersLoaded, OpenApp,
          ManageApp, CloseApp, TemplateLoaded, TemplateRefused, ProviderDisabled,
          PickProvider, toggleGpu, ClickInstall, InstallAnswered, InstallRefused
<1>9. ASSUME OnList PROVE WorkMoves
  BY <1>4, <1>5, <1>6, <1>7, <1>9 DEF OnList
<1>10. ASSUME Elsewhere \/ UNCHANGED allVars PROVE WorkMoves
  BY <1>u, <1>10 DEF Elsewhere, allVars, serverVars
<1>11. DialogNext \/ UNCHANGED dialogVars
  BY DEF FrontNext, OnList, OnDialog, Elsewhere, allVars
<1>12. DialogNext \/ WorkMoves
  BY <1>8, <1>9, <1>10 DEF FrontNext, OnDialog
<1> QED BY <1>11, <1>12

LEMMA WritesTypes == "reconfigure" \in DOMAIN Writes \cup {"none"}
BY DEF Writes

\* What the jobs do to them.
LEMMA WorkIs ==
    ASSUME SettingsInv, WorkMoves
    PROVE  /\ work' \in [JobIds -> Work]
           /\ \A j \in JobIds :
                 \/ work'[j] = work[j]
                 \/ /\ work[j].status = "free"
                    /\ work'[j].status = "pending" /\ work'[j].runs = 0
                 \/ /\ work[j].status \in {"pending", "failed"}
                    /\ work'[j].status = "running" /\ work'[j].runs = work[j].runs + 1
                 \/ /\ work[j].status = "running"
                    /\ work'[j].status \in Over /\ work'[j].runs = work[j].runs
<1> USE DEF SettingsInv, SettingsType
<1>1. CASE UNCHANGED work
  BY <1>1
<1>2. \A j \in JobIds : work[j] \in Work
  OBVIOUS
<1>5. ASSUME NEW j \in JobIds, Begin(j)
      PROVE  /\ work'[j] \in Work /\ work[j].status \in {"pending", "failed"}
             /\ work'[j].status = "running" /\ work'[j].runs = work[j].runs + 1
             /\ work' = [work EXCEPT ![j] = work'[j]]
  <2>1. work' = [work EXCEPT ![j] = [work[j] EXCEPT !.status = "running", !.runs = work[j].runs + 1]]
    BY <1>5 DEF Begin
  <2>2. work[j].runs + 1 \in Nat
    BY <1>2 DEF Work
  <2>3. work'[j] = [work[j] EXCEPT !.status = "running", !.runs = work[j].runs + 1]
    BY <2>1
  <2> QED BY <1>2, <1>5, <2>1, <2>2, <2>3 DEF Begin, Work
<1>6. ASSUME NEW j \in JobIds, Ends(j)
      PROVE  /\ work'[j] \in Work /\ work[j].status = "running"
             /\ work'[j].status \in Over /\ work'[j].runs = work[j].runs
             /\ work' = [work EXCEPT ![j] = work'[j]]
  <2>1. PICK s \in Over : EndWork(j, s)
    BY <1>6 DEF Ends, Over
  <2>2. work'[j] = [work[j] EXCEPT !.status = s]
    BY <2>1 DEF EndWork
  <2> QED BY <1>2, <2>1, <2>2 DEF EndWork, Work, Over
<1>7. ASSUME NEW j \in JobIds, NEW t \in DOMAIN Writes \cup {"none"}, NEW i \in Insts \cup {0},
             Request(j, t, i)
      PROVE  /\ work'[j] \in Work /\ work[j].status = "free"
             /\ work'[j].status = "pending" /\ work'[j].runs = 0
             /\ work' = [work EXCEPT ![j] = work'[j]]
  <2> DEFINE w == [type |-> t, inst |-> i, status |-> "pending", runs |-> 0]
  <2>1. w \in Work /\ w.status = "pending" /\ w.runs = 0
    BY DEF Work
  <2>2. work' = [work EXCEPT ![j] = w] /\ work[j].status = "free"
    BY <1>7 DEF Request, NoWork
  <2> HIDE DEF w
  <2> QED BY <2>1, <2>2
<1>8. ASSUME NEW j \in JobIds, NEW w \in Work, work' = [work EXCEPT ![j] = w]
      PROVE  work' \in [JobIds -> Work] /\ \A k \in JobIds : k # j => work'[k] = work[k]
  BY <1>8
<1> QED BY <1>1, <1>5, <1>6, <1>7, <1>8 DEF WorkMoves

\* Jobs that go on leave what the dialog knows true.
LEMMA WorkStep ==
    ASSUME SettingsInv, WorkMoves,
           UNCHANGED <<settingsInst, configJobId, jobData, completed, timer>>,
           save' \in Save, save'.pc = "accepted" => save' = save
    PROVE  SettingsInv'
<1>1. SettingsType'
  BY WorkIs DEF SettingsInv, SettingsType
<1>2. \A j \in JobIds : work[j].runs \in Nat /\ (work'[j].status = "free" => work[j].status = "free")
  BY WorkIs DEF SettingsInv, SettingsType, Work, Over
<1>3. KnownIsReal'
  BY <1>2, WorkIs DEF SettingsInv, KnownIsReal, Over
<1>4. SaveIsNew'
  BY <1>2 DEF SettingsInv, SaveIsNew, isSaving
<1>5. SaveFollowed'
  BY DEF SettingsInv, SaveFollowed, isSaving, Polls, Data
<1> QED BY <1>1, <1>3, <1>4, <1>5 DEF SettingsInv

LEMMA DialogNextStep ==
    ASSUME SettingsInv, CatalogInv, DialogNext
    PROVE  SettingsInv'
<1> USE DEF SettingsInv, SettingsType
<1>0. UNCHANGED serverVars => WorkMoves /\ UNCHANGED work
  BY DEF serverVars, WorkMoves
<1>1. ASSUME NEW i \in Insts, OpenSettings(i) \/ TemplateArrives(i) \/ TemplateFails(i)
      PROVE  SettingsInv'
  <2>1. CASE OpenSettings(i)
    BY <1>0, <2>1 DEF OpenSettings, KnownIsReal, SaveIsNew, SaveFollowed, isSaving
  <2>2. CASE TemplateArrives(i) \/ TemplateFails(i)
    BY <1>0, <2>2, WorkStep DEF TemplateArrives, TemplateFails
  <2> QED BY <1>1, <2>1, <2>2
<1>2. CASE CloseSettings
  BY <1>0, <1>2 DEF CloseSettings, KnownIsReal, SaveIsNew, SaveFollowed, isSaving
<1>3. CASE ApplyChanges
  <2>1. save' \in Save /\ save'.pc = "sent"
    BY <1>3 DEF ApplyChanges, Save
  <2> QED BY <1>0, <1>3, <2>1, WorkStep DEF ApplyChanges
<1>4. CASE SaveAccepted
  <2>1. PICK j \in JobIds : /\ Request(j, "reconfigure", save.inst)
                            /\ save' = [save EXCEPT !.pc = "accepted", !.job = j]
    BY <1>4 DEF SaveAccepted
  <2>2. WorkMoves
    BY <2>1, WritesTypes DEF WorkMoves, Save
  <2>3. work[j].status = "free" /\ work'[j].status = "pending" /\ work'[j].runs = 0
    BY <2>1 DEF Request, NoWork
  <2>4. save' \in Save /\ save'.pc = "accepted" /\ save'.job = j
    BY <2>1 DEF Save
  <2>5. jobData[j] = "none" /\ (isSaving => configJobId # j)
    BY <2>3 DEF KnownIsReal, SaveIsNew
  <2>6. SettingsType' /\ KnownIsReal'
    BY <1>4, <2>2, <2>4, WorkIs DEF SaveAccepted, KnownIsReal, Over, Work
  <2>7. UNCHANGED <<settingsInst, configJobId, jobData, completed, timer>>
    BY <1>4 DEF SaveAccepted
  <2>8. \A k \in JobIds : work'[k].status = "free" => work[k].status = "free"
    BY <2>2, WorkIs DEF Over
  <2>9. SaveIsNew'
    BY <2>3, <2>4, <2>5, <2>7, <2>8 DEF SaveIsNew, isSaving
  <2>10. SaveFollowed'
    BY <2>7 DEF SaveFollowed, isSaving, Polls, Data
  <2> QED BY <2>6, <2>9, <2>10
<1>5. CASE SaveAnswered
  <2>1. /\ save.job \in JobIds /\ work[save.job].status # "free" /\ jobData[save.job] = "none"
        /\ configJobId' = save.job /\ save' = NoSave
        /\ UNCHANGED <<work, settingsInst, jobData, completed, timer>>
    BY <1>0, <1>5 DEF SaveAnswered, SaveIsNew
  <2>2. NoSave \in Save /\ NoSave.pc # "accepted"
    BY DEF NoSave, Save
  <2> QED BY <2>1, <2>2 DEF KnownIsReal, SaveIsNew, SaveFollowed, isSaving, Polls, Data, Over
<1>6. CASE SaveFails
  <2>1. NoSave \in Save /\ NoSave.pc # "accepted"
    BY DEF NoSave, Save
  <2> QED BY <1>0, <1>6, <2>1, WorkStep DEF SaveFails
<1>7. CASE PollJob
  <2> DEFINE s == work[configJobId].status
  <2>1. /\ isSaving /\ configJobId \in JobIds /\ s # "free" /\ ~completed
        /\ jobData' = [jobData EXCEPT ![configJobId] = s]
        /\ completed' = (completed \/ s \in Over)
        /\ timer' = IF s \in Over THEN s ELSE timer
        /\ UNCHANGED <<work, settingsInst, save, configJobId>>
    BY <1>0, <1>7 DEF PollJob, WhenOver, Polls, SaveIsNew
  <2>2. s \in {"pending", "running", "completed", "failed"}
    BY <2>1 DEF Work
  <2>3. SettingsType'
    BY <2>1, <2>2
  <2>4. KnownIsReal'
    BY <2>1, <2>2 DEF KnownIsReal
  <2>5. SaveIsNew'
    BY <2>1 DEF SaveIsNew, isSaving
  <2>6. SaveFollowed'
    BY <2>1, <2>2 DEF SaveFollowed, isSaving, Polls, Data, Over
  <2> QED BY <2>3, <2>4, <2>5, <2>6
<1>8. CASE TimerFires
  BY <1>0, <1>8 DEF TimerFires, KnownIsReal, SaveIsNew, SaveFollowed, isSaving
<1>9. ASSUME NEW j \in JobIds, Begin(j) \/ Ends(j), UNCHANGED dialogVars
      PROVE  SettingsInv'
  <2>1. WorkMoves
    BY <1>9 DEF WorkMoves
  <2> QED BY <1>9, <2>1, WorkStep DEF dialogVars
<1> QED BY <1>1, <1>2, <1>3, <1>4, <1>5, <1>6, <1>7, <1>8, <1>9 DEF DialogNext

LEMMA SettingsKept == FrontSpec => []SettingsInv
<1>1. FrontInit => SettingsInv
  <2> SUFFICES ASSUME FrontInit PROVE SettingsInv
    OBVIOUS
  <2>1. /\ DialogInit
        /\ work = [j \in JobIds |-> NoWork]
    BY DEF FrontInit, ServerStarts
  <2>2. NoWork \in Work /\ NoSave \in Save /\ NoSave.pc = "idle" /\ NoWork.status = "free"
    BY DEF NoWork, Work, NoSave, Save
  <2> QED BY <2>1, <2>2
      DEF DialogInit, SettingsInv, SettingsType, KnownIsReal, SaveIsNew, SaveFollowed, isSaving, Over
<1>2. SettingsInv /\ MarkInv /\ CatalogInv /\ [FrontNext]_allVars => SettingsInv'
  <2> SUFFICES ASSUME SettingsInv, MarkInv, CatalogInv, [FrontNext]_allVars
               PROVE  SettingsInv'
    OBVIOUS
  <2>1. CASE DialogNext
    BY <2>1, DialogNextStep
  <2>2. CASE UNCHANGED dialogVars /\ WorkMoves
    BY <2>2, WorkStep DEF dialogVars, SettingsInv, SettingsType
  <2> QED BY <2>1, <2>2, WorkSteps
<1> QED BY <1>1, <1>2, MarkKept, CatalogKept, PTL DEF FrontSpec

\* "Configuration updated" and "Update failed" are said of jobs that ended that
\* way, but for those that are executed again (MyAppsPage: the settings dialog).
THEOREM OutcomeIsRealHolds == FrontSpec => []OutcomeIsReal
<1>1. SettingsInv => OutcomeIsReal
  BY DEF SettingsInv, SettingsType, KnownIsReal, SaveIsNew, OutcomeIsReal, DialogShows, Data, Over,
         isSaving
<1> QED BY <1>1, SettingsKept, PTL

\* The job of a save is asked about until it is over and then a timer takes it
\* back, unless the flag of an earlier job is in the way (useJobPolling).
THEOREM SaveFollowedHolds == FrontSpec => []SaveFollowed
<1>1. SettingsInv => SaveFollowed
  BY DEF SettingsInv
<1> QED BY <1>1, SettingsKept, PTL

-----------------------------------------------------------------------------
(* The page of the LLM providers.                                          *)

LEMMA ProviderSteps ==
    ASSUME [FrontNext]_allVars
    PROVE  ProvNext \/ UNCHANGED provVars
BY DEF FrontNext, allVars

-----------------------------------------------------------------------------
(* Types.                                                                  *)

Key == [prov: Providers \cup {0}, type: Types \cup {"none"}]
ProvRow == [type: Types \cup {"free", "deleted"}, key: Key, url: Types \cup {"none"},
            enabled: BOOLEAN]
Form == [type: Types, key: Key, url: Types \cup {"none"}]
Ask == [pc: {"unused", "sent", "stored", "over"},
        op: {"none", "save", "delete", "test", "toggle"},
        prov: Providers \cup {0}, form: Form, shown: BOOLEAN]

ProvType ==
    /\ stored \in [Providers -> ProvRow]
    /\ cards = NoCards \/ cards \in [Providers -> ProvRow]
    /\ editing \in Providers \cup {0}
    /\ form \in Form
    /\ asks \in [Asks -> Ask]
    /\ \A n \in Asks : asks[n].op = "delete" => asks[n].prov \in Providers
    /\ testingId \in Providers \cup {0}

\* What is typed belongs to the provider that is edited, what is sent to the one
\* it is sent for.
KeysRight ==
    /\ form.key # NoKey => form.key.prov = editing
    /\ \A n \in Asks : asks[n].form.key # NoKey => asks[n].form.key.prov = asks[n].prov
    /\ KeyOfProvider

\* Providers keep their type until they are deleted.
OfType(p, t) == stored[p].type \in {t, "deleted"}

UrlsRight ==
    /\ \A p \in Providers : HasCard(p) =>
          OfType(p, cards[p].type) /\ cards[p].url \in {"none", cards[p].type}
    /\ form.type \in NeedsBaseUrl => form.url = form.type
    /\ editing # 0 => OfType(editing, form.type)
    /\ \A n \in Asks : Sent(n, "save") =>
          /\ asks[n].form.url \in {"none", asks[n].form.type}
          /\ asks[n].prov # 0 => OfType(asks[n].prov, asks[n].form.type)
    /\ UrlFitsType

ProvInv == ProvType /\ KeysRight /\ UrlsRight /\ TestingClears

LEMMA FormTypes ==
    /\ NoKey \in Key /\ NoRow \in ProvRow /\ Gone \in ProvRow
    /\ emptyForm \in Form /\ emptyForm.key = NoKey
    /\ NoAsk \in Ask
    /\ Types = {"openai", "gemini", "anthropic", "openrouter", "ollama"}
    /\ "free" \notin Types /\ "deleted" \notin Types /\ "none" \notin Types
    /\ 0 \notin Providers
<1>1. Types = {"openai", "gemini", "anthropic", "openrouter", "ollama"}
  BY DEF Types, NeedsApiKey, NeedsBaseUrl
<1>2. NoKey \in Key
  BY DEF NoKey, Key
<1>3. NoRow \in ProvRow
  BY <1>2 DEF NoRow, ProvRow
<1>4. Gone \in ProvRow
  BY <1>3 DEF Gone, ProvRow
<1>5. emptyForm \in Form /\ emptyForm.key = NoKey
  BY <1>1, <1>2 DEF emptyForm, Form
<1>6. NoAsk \in Ask
  BY <1>5 DEF NoAsk, Ask
<1>7. 0 \notin Providers
  BY ProvidersPageAssumption
<1> QED BY <1>1, <1>2, <1>3, <1>4, <1>5, <1>6, <1>7

LEMMA CardIs ==
    ASSUME ProvType, NEW p \in Providers, HasCard(p)
    PROVE  cards[p] \in ProvRow /\ cards[p].type \in Types
<1>1. cards # NoCards
  BY DEF HasCard, NoCards
<1> QED BY <1>1 DEF ProvType, HasCard

-----------------------------------------------------------------------------
(* Requests.                                                               *)

LEMMA PayloadIs ==
    ASSUME ProvInv
    PROVE  /\ Payload \in Form
           /\ Payload.key = form.key /\ Payload.type = form.type
           /\ Payload.url \in {"none", Payload.type}
BY DEF ProvInv, ProvType, UrlsRight, Payload, Form

\* A mutation adds one request, and a save is about what is edited.
LEMMA SendIs ==
    ASSUME ProvInv, NEW n \in Asks, NEW op \in {"save", "delete", "test", "toggle"},
           NEW p \in Providers \cup {0}, op = "save" => p = editing,
           op # "save" => p \in Providers, op = "toggle" => HasCard(p), Send(n, op, p)
    PROVE  /\ asks' \in [Asks -> Ask]
           /\ asks[n].pc = "unused"
           /\ asks'[n].pc = "sent" /\ asks'[n].op = op /\ asks'[n].prov = p
           /\ asks'[n].form = IF op = "save" THEN Payload ELSE emptyForm
           /\ \A m \in Asks : m # n => asks'[m] = asks[m]
<1> DEFINE ask == [pc |-> "sent", op |-> op, prov |-> p,
                   form |-> IF op = "save" THEN Payload ELSE emptyForm,
                   shown |-> op = "toggle" /\ cards[p].enabled]
<1>1. asks' = [asks EXCEPT ![n] = ask]
  BY DEF Send
<1>2. (op = "toggle" /\ cards[p].enabled) \in BOOLEAN
  BY CardIs DEF ProvInv, ProvRow
<1>3. ask \in Ask
  BY <1>2, PayloadIs, FormTypes DEF Ask
<1>4. asks[n] = NoAsk /\ NoAsk.pc = "unused"
  BY DEF Send, NoAsk
<1> QED BY <1>1, <1>3, <1>4 DEF ProvInv, ProvType

LEMMA PastIs ==
    ASSUME ProvType, NEW n \in Asks, NEW pc \in {"stored", "over"}, Past(n, pc)
    PROVE  /\ asks' \in [Asks -> Ask]
           /\ asks'[n].pc = pc /\ asks'[n].form = emptyForm
           /\ asks'[n].op = asks[n].op /\ asks'[n].prov = asks[n].prov
           /\ \A m \in Asks : m # n => asks'[m] = asks[m]
<1>1. asks' = [asks EXCEPT ![n] = [asks[n] EXCEPT !.pc = pc, !.form = emptyForm]]
  BY DEF Past
<1>2. asks[n] \in Ask
  BY DEF ProvType
<1>3. [asks[n] EXCEPT !.pc = pc, !.form = emptyForm] \in Ask
  BY <1>2, FormTypes DEF Ask
<1> QED BY <1>1, <1>2, <1>3 DEF ProvType, Ask

-----------------------------------------------------------------------------
(* The steps.                                                              *)

\* A test that marks a provider goes on until it ends.
LEMMA TestKept ==
    ASSUME TestingClears, testingId' = testingId, NEW n \in Asks,
           asks[n].pc # "sent" \/ asks[n].op # "test",
           \A m \in Asks : m # n => asks'[m] = asks[m]
    PROVE  TestingClears'
<1> SUFFICES ASSUME testingId # 0
             PROVE  \E m \in Asks : Sent(m, "test")' /\ asks'[m].prov = testingId
  BY DEF TestingClears
<1>1. PICK m \in Asks : Sent(m, "test") /\ asks[m].prov = testingId
  BY DEF TestingClears
<1> QED BY <1>1 DEF Sent

LEMMA CardsStep ==
    ASSUME ProvInv, CardsArrive
    PROVE  ProvInv'
<1>1. cards' = stored /\ UNCHANGED <<stored, showDialog, editing, form, asks, testingId>>
  BY DEF CardsArrive, dialogState, testState
<1>2. ProvType' /\ KeysRight'
  BY <1>1 DEF ProvInv, ProvType, KeysRight, KeyOfProvider, Present
<1>3. UrlsRight'
  BY <1>1 DEF ProvInv, UrlsRight, UrlFitsType, HasCard, OfType, Present, Sent, ProvType
<1>4. TestingClears'
  BY <1>1 DEF ProvInv, TestingClears, Sent
<1> QED BY <1>2, <1>3, <1>4 DEF ProvInv

LEMMA DialogStateStep ==
    ASSUME ProvInv, UNCHANGED <<stored, cards, asks, testingId>>,
           editing' \in Providers \cup {0}, form' \in Form,
           form'.key # NoKey => form'.key.prov = editing',
           form'.type \in NeedsBaseUrl => form'.url = form'.type,
           editing' # 0 => OfType(editing', form'.type)
    PROVE  ProvInv'
<1>1. ProvType' /\ KeysRight'
  BY DEF ProvInv, ProvType, KeysRight, KeyOfProvider, Present
<1>2. UrlsRight'
  BY DEF ProvInv, UrlsRight, UrlFitsType, HasCard, OfType, Present, Sent
<1>3. TestingClears'
  BY DEF ProvInv, TestingClears, Sent
<1> QED BY <1>1, <1>2, <1>3 DEF ProvInv

LEMMA EditFormIs ==
    ASSUME ProvInv, NEW p \in Providers, HasCard(p)
    PROVE  /\ EditForm(p) \in Form
           /\ EditForm(p).key = NoKey
           /\ EditForm(p).url = EditForm(p).type
           /\ OfType(p, EditForm(p).type)
<1>1. cards[p] \in ProvRow /\ cards[p].type \in Types
  BY CardIs DEF ProvInv
<1>2. cards[p].url \in {"none", cards[p].type} /\ OfType(p, cards[p].type)
  BY DEF ProvInv, UrlsRight
<1> QED BY <1>1, <1>2, FormTypes DEF EditForm, Form

LEMMA DialogSteps ==
    ASSUME ProvInv,
           \/ handleOpenCreate \/ TypeKey \/ CloseDialog
           \/ \E t \in PickedTypes : PickType(t)
           \/ \E p \in Providers : handleOpenEdit(p)
    PROVE  ProvInv'
<1> USE FormTypes DEF dialogState, testState, cardsFrame
<1>1. CASE handleOpenCreate
  BY <1>1, DialogStateStep DEF handleOpenCreate, emptyForm, NeedsBaseUrl
<1>2. CASE TypeKey
  <2>1. form.type \in Types
    BY DEF ProvInv, ProvType, Form
  <2>2. [prov |-> editing, type |-> form.type] \in Key
    BY <2>1 DEF ProvInv, ProvType, Key
  <2>3. form' = [form EXCEPT !.key = [prov |-> editing, type |-> form.type]]
    BY <1>2 DEF TypeKey
  <2>4. /\ form' \in Form /\ form'.key.prov = editing
        /\ form'.type = form.type /\ form'.url = form.url
    BY <2>2, <2>3 DEF ProvInv, ProvType, Form
  <2> QED BY <1>2, <2>4, DialogStateStep DEF TypeKey, ProvInv, ProvType, UrlsRight
<1>3. CASE CloseDialog
  BY <1>3, DialogStateStep DEF CloseDialog, ProvInv, ProvType, KeysRight, UrlsRight
<1>4. ASSUME NEW t \in PickedTypes, PickType(t)
      PROVE  ProvInv'
  <2>1. t \in Types /\ form' = [form EXCEPT !.type = t, !.url = t]
    BY <1>4, ProvidersPageAssumption DEF PickType, Picked
  <2>2. /\ form' \in Form /\ form'.key = form.key
        /\ form'.type = t /\ form'.url = t
    BY <2>1 DEF ProvInv, ProvType, Form
  <2> QED BY <1>4, <2>2, DialogStateStep DEF PickType, ProvInv, ProvType, KeysRight
<1>5. ASSUME NEW p \in Providers, handleOpenEdit(p)
      PROVE  ProvInv'
  BY <1>5, EditFormIs, DialogStateStep DEF handleOpenEdit
<1> QED BY <1>1, <1>2, <1>3, <1>4, <1>5

\* A request is made.
LEMMA SendStep ==
    ASSUME ProvInv, NEW n \in Asks, NEW op \in {"save", "delete", "test", "toggle"},
           NEW p \in Providers \cup {0}, op = "save" => p = editing,
           op # "save" => p \in Providers, op = "toggle" => HasCard(p), Send(n, op, p),
           UNCHANGED <<stored, cards, editing, form>>,
           IF op = "test" THEN testingId' = p ELSE testingId' = testingId
    PROVE  ProvInv'
<1>1. /\ asks' \in [Asks -> Ask]
      /\ asks[n].pc = "unused"
      /\ asks'[n].pc = "sent" /\ asks'[n].op = op /\ asks'[n].prov = p
      /\ asks'[n].form = IF op = "save" THEN Payload ELSE emptyForm
      /\ \A m \in Asks : m # n => asks'[m] = asks[m]
  BY SendIs
<1>2. ProvType'
  BY <1>1 DEF ProvInv, ProvType
<1>3. KeysRight'
  BY <1>1, PayloadIs, FormTypes DEF ProvInv, KeysRight, KeyOfProvider, Present
<1>4. UrlsRight'
  BY <1>1, PayloadIs DEF ProvInv, UrlsRight, UrlFitsType, HasCard, OfType, Present, Sent
<1>5. TestingClears'
  <2>1. CASE op = "test"
    BY <1>1, <2>1 DEF TestingClears, Sent
  <2>2. CASE op # "test"
    BY <1>1, <2>2, TestKept DEF ProvInv
  <2> QED BY <2>1, <2>2
<1> QED BY <1>2, <1>3, <1>4, <1>5 DEF ProvInv

\* A request changes one row, whose type stays but for the first and the last,
\* and is over.
LEMMA StoreStep ==
    ASSUME ProvInv, NEW n \in Asks, NEW pc \in {"stored", "over"}, Past(n, pc),
           asks[n].op # "test", NEW p \in Providers, NEW row \in ProvRow,
           stored' = [stored EXCEPT ![p] = row],
           \/ row.type = stored[p].type
           \/ row.type = "deleted"
           \/ stored[p].type = "free",
           row.type \in Types => /\ row.key # NoKey => row.key.prov = p
                                 /\ row.url \in {"none", row.type},
           UNCHANGED <<cards, editing, form, testingId>>
    PROVE  ProvInv'
<1>1. /\ asks' \in [Asks -> Ask]
      /\ asks'[n].pc = pc /\ asks'[n].form = emptyForm
      /\ asks'[n].op = asks[n].op /\ asks'[n].prov = asks[n].prov
      /\ \A m \in Asks : m # n => asks'[m] = asks[m]
  BY PastIs DEF ProvInv
<1>2. /\ stored' \in [Providers -> ProvRow]
      /\ \A q \in Providers : stored'[q] = IF q = p THEN row ELSE stored[q]
  BY DEF ProvInv, ProvType
<1>3. ProvType'
  BY <1>1, <1>2 DEF ProvInv, ProvType
<1>4. KeysRight'
  <2>1. KeyOfProvider'
    BY <1>2 DEF ProvInv, KeysRight, KeyOfProvider, Present
  <2> QED BY <1>1, <2>1, FormTypes DEF ProvInv, KeysRight
<1>5. UrlsRight'
  <2>1. \A q \in Providers, t \in Types :
            OfType(q, t) => stored'[q].type \in {t, "deleted"}
    BY <1>2, FormTypes DEF OfType
  <2>2. UrlFitsType'
    BY <1>2 DEF ProvInv, UrlsRight, UrlFitsType, Present
  <2>3. \A q \in Providers : HasCard(q) =>
            /\ stored'[q].type \in {cards[q].type, "deleted"}
            /\ cards[q].url \in {"none", cards[q].type}
    BY <2>1 DEF HasCard, ProvInv, UrlsRight
  <2>4. editing # 0 => stored'[editing].type \in {form.type, "deleted"}
    BY <2>1 DEF ProvInv, ProvType, Form, UrlsRight
  <2>5. \A m \in Asks : Sent(m, "save")' =>
            /\ m # n /\ Sent(m, "save") /\ asks'[m] = asks[m]
            /\ asks[m].form.type \in Types /\ asks[m].prov \in Providers \cup {0}
    BY <1>1 DEF Sent, ProvInv, ProvType, Ask, Form
  <2>6. \A m \in Asks : Sent(m, "save")' =>
            /\ asks'[m].form.url \in {"none", asks'[m].form.type}
            /\ asks'[m].prov # 0 => stored'[asks'[m].prov].type \in {asks'[m].form.type, "deleted"}
    BY <2>1, <2>5 DEF ProvInv, UrlsRight
  <2>7. \A q \in Providers : HasCard(q)' => HasCard(q)
    BY DEF HasCard
  <2> QED BY <2>2, <2>3, <2>4, <2>6, <2>7 DEF ProvInv, UrlsRight, OfType
<1>6. TestingClears'
  BY <1>1, TestKept DEF ProvInv
<1> QED BY <1>3, <1>4, <1>5, <1>6 DEF ProvInv

LEMMA StoreSteps ==
    ASSUME ProvInv, NEW n \in Asks,
           CreateStored(n) \/ UpdateStored(n) \/ Deleted(n) \/ Toggled(n)
    PROVE  ProvInv'
<1> USE FormTypes DEF dialogState, testState, cardsFrame
<1>1. asks[n] \in Ask /\ asks[n].form \in Form /\ asks[n].form.key \in Key
  BY DEF ProvInv, ProvType, Ask, Form
<1>2. asks[n].form.key # NoKey => asks[n].form.key.prov = asks[n].prov
  BY DEF ProvInv, KeysRight
<1>3. Sent(n, "save") => /\ asks[n].form.url \in {"none", asks[n].form.type}
                         /\ asks[n].prov # 0 => OfType(asks[n].prov, asks[n].form.type)
  BY DEF ProvInv, UrlsRight
<1>4. CASE CreateStored(n)
  <2> DEFINE row(p) == [type |-> asks[n].form.type, url |-> asks[n].form.url,
                        key |-> KeyOfNew(asks[n].form.key, p), enabled |-> TRUE]
  <2>1. PICK p \in Providers : stored[p] = NoRow /\ stored' = [stored EXCEPT ![p] = row(p)]
    BY <1>4 DEF CreateStored
  <2>2. /\ KeyOfNew(asks[n].form.key, p) \in Key
        /\ KeyOfNew(asks[n].form.key, p) # NoKey => KeyOfNew(asks[n].form.key, p).prov = p
    BY <1>1, <1>2, <1>4 DEF KeyOfNew, Key, CreateStored
  <2>3. /\ row(p) \in ProvRow /\ row(p).type = asks[n].form.type
        /\ row(p).url = asks[n].form.url /\ row(p).key = KeyOfNew(asks[n].form.key, p)
    BY <1>1, <2>2 DEF ProvRow, Form
  <2>4. stored[p].type = "free"
    BY <2>1 DEF NoRow
  <2> HIDE DEF row
  <2> QED BY <1>3, <1>4, <2>1, <2>2, <2>3, <2>4, StoreStep DEF CreateStored, Sent
<1>5. CASE UpdateStored(n)
  <2> DEFINE p == asks[n].prov
             given == asks[n].form
             key == IF given.key = NoKey THEN stored[p].key ELSE given.key
             url == IF given.url = "none" THEN stored[p].url ELSE given.url
             row == [stored[p] EXCEPT !.key = key, !.url = url]
  <2>1. p \in Providers /\ stored[p].type \in Types
    BY <1>5 DEF UpdateStored, Present
  <2>2. stored[p] \in ProvRow
    BY <2>1 DEF ProvInv, ProvType
  <2>3. stored' = [stored EXCEPT ![p] = row]
    BY <1>5, <2>1, <2>2 DEF UpdateStored, ProvInv, ProvType, ProvRow
  <2>4. key \in Key /\ url \in Types \cup {"none"}
    BY <1>1, <2>2 DEF ProvRow, Form
  <2>5. row \in ProvRow /\ row.type = stored[p].type /\ row.key = key /\ row.url = url
    BY <2>2, <2>4 DEF ProvRow
  <2>6. stored[p].type = given.type
    BY <1>3, <1>5, <2>1 DEF UpdateStored, OfType
  <2>7. key # NoKey => key.prov = p
    BY <1>2, <2>1 DEF ProvInv, KeysRight, KeyOfProvider, Present
  <2>8. url \in {"none", stored[p].type}
    BY <1>3, <1>5, <2>1, <2>6 DEF UpdateStored, ProvInv, UrlsRight, UrlFitsType, Present
  <2>9. /\ Past(n, "stored") /\ asks[n].op # "test"
        /\ UNCHANGED <<cards, editing, form, testingId>>
    BY <1>5 DEF UpdateStored, Sent
  <2> HIDE DEF row, key, url, p
  <2> QED BY <2>1, <2>3, <2>5, <2>7, <2>8, <2>9, StoreStep
<1>6. CASE Deleted(n)
  <2>1. asks[n].op = "delete" /\ asks[n].prov \in Providers
    BY <1>6 DEF Deleted, Sent, ProvInv, ProvType
  <2>2. Gone.type = "deleted"
    BY DEF Gone, NoRow
  <2> QED BY <1>6, <2>1, <2>2, StoreStep DEF Deleted, Sent
<1>7. CASE Toggled(n)
  <2> DEFINE p == asks[n].prov
             row == [stored[p] EXCEPT !.enabled = ~@]
  <2>1. p \in Providers /\ stored[p].type \in Types
    BY <1>7 DEF Toggled, Present
  <2>2. stored[p] \in ProvRow
    BY <2>1 DEF ProvInv, ProvType
  <2>3. stored' = [stored EXCEPT ![p] = row]
    BY <1>7 DEF Toggled
  <2>4. /\ row \in ProvRow /\ row.type = stored[p].type
        /\ row.key = stored[p].key /\ row.url = stored[p].url
    BY <2>2 DEF ProvRow
  <2>5. /\ stored[p].key # NoKey => stored[p].key.prov = p
        /\ stored[p].url \in {"none", stored[p].type}
    BY <2>1 DEF ProvInv, KeysRight, KeyOfProvider, UrlsRight, UrlFitsType, Present
  <2>6. /\ Past(n, "over") /\ asks[n].op # "test"
        /\ UNCHANGED <<cards, editing, form, testingId>>
    BY <1>7 DEF Toggled, Sent
  <2> HIDE DEF row, p
  <2> QED BY <2>1, <2>3, <2>4, <2>5, <2>6, StoreStep
<1> QED BY <1>4, <1>5, <1>6, <1>7

\* A request ends and changes no row.
LEMMA OverStep ==
    ASSUME ProvInv, NEW n \in Asks, Past(n, "over"),
           UNCHANGED <<stored, cards, editing, form>>,
           testingId' = 0 \/ (testingId' = testingId
                               /\ (asks[n].pc # "sent" \/ asks[n].op # "test"))
    PROVE  ProvInv'
<1>1. /\ asks' \in [Asks -> Ask]
      /\ asks'[n].pc = "over" /\ asks'[n].form = emptyForm
      /\ asks'[n].op = asks[n].op /\ asks'[n].prov = asks[n].prov
      /\ \A m \in Asks : m # n => asks'[m] = asks[m]
  BY PastIs DEF ProvInv
<1>2. ProvType'
  BY <1>1 DEF ProvInv, ProvType
<1>3. KeysRight'
  BY <1>1, FormTypes DEF ProvInv, KeysRight, KeyOfProvider, Present
<1>4. UrlsRight'
  BY <1>1 DEF ProvInv, UrlsRight, UrlFitsType, HasCard, OfType, Present, Sent
<1>5. TestingClears'
  BY <1>1, TestKept DEF ProvInv, TestingClears
<1> QED BY <1>2, <1>3, <1>4, <1>5 DEF ProvInv

LEMMA ProvStep ==
    ASSUME ProvInv, ProvNext
    PROVE  ProvInv'
<1> USE DEF dialogState, testState, cardsFrame
<1>1. CASE CardsFail
  BY <1>1 DEF CardsFail, ProvInv, ProvType, KeysRight, KeyOfProvider, UrlsRight, UrlFitsType,
              TestingClears, HasCard, OfType, Present, Sent
<1>2. ASSUME NEW n \in Asks, handleSubmit(n)
      PROVE  ProvInv'
  BY <1>2, SendStep DEF handleSubmit, ProvInv, ProvType
<1>3. ASSUME NEW n \in Asks, NEW p \in Providers, handleDelete(n, p)
      PROVE  ProvInv'
  BY <1>3, SendStep DEF handleDelete
<1>4. ASSUME NEW n \in Asks, NEW p \in Providers, handleTest(n, p)
      PROVE  ProvInv'
  BY <1>4, SendStep DEF handleTest, CanTest
<1>5. ASSUME NEW n \in Asks, NEW p \in Providers, ClickSwitch(n, p)
      PROVE  ProvInv'
  BY <1>5, SendStep DEF ClickSwitch
<1>6. ASSUME NEW n \in Asks, SaveDone(n) \/ SaveRefused(n)
      PROVE  ProvInv'
  BY <1>6, OverStep DEF SaveDone, SaveRefused
<1>7. ASSUME NEW n \in Asks, NEW r \in {"ok", "failed"}, TestOver(n, r)
      PROVE  ProvInv'
  BY <1>7, OverStep DEF TestOver, MarkOver
<1> QED BY <1>1, <1>2, <1>3, <1>4, <1>5, <1>6, <1>7, CardsStep, DialogSteps, StoreSteps
    DEF ProvNext

-----------------------------------------------------------------------------
LEMMA ProvKept == FrontSpec => []ProvInv
<1>1. FrontInit => ProvInv
  <2> SUFFICES ASSUME ProvInit PROVE ProvInv
    BY DEF FrontInit
  <2>1. ProvType
    <3>1. \A p \in Providers : Row(FirstType[p]) \in ProvRow
      BY FormTypes, ProvidersPageAssumption DEF Row, ProvRow
    <3>2. asks \in [Asks -> Ask] /\ \A n \in Asks : asks[n].op = "none"
      BY FormTypes DEF ProvInit, NoAsk
    <3> QED BY <3>1, <3>2, FormTypes DEF ProvInit, ProvType
  <2>2. \A p \in Providers : stored[p].key = NoKey /\ stored[p].url = "none"
    BY DEF ProvInit, Row, NoRow
  <2>3. KeysRight
    BY <2>2, FormTypes DEF ProvInit, KeysRight, KeyOfProvider, Present, NoAsk
  <2>4. UrlsRight
    BY <2>2, FormTypes
       DEF ProvInit, UrlsRight, UrlFitsType, Present, HasCard, NoCards, Sent, NoAsk, emptyForm,
           NeedsBaseUrl
  <2> QED BY <2>1, <2>3, <2>4 DEF ProvInit, ProvInv, TestingClears
<1>2. ProvInv /\ [FrontNext]_allVars => ProvInv'
  <2>1. ProvInv /\ UNCHANGED provVars => ProvInv'
    BY DEF provVars, ProvInv, ProvType, KeysRight, KeyOfProvider, UrlsRight, UrlFitsType,
           TestingClears, HasCard, OfType, Present, Sent
  <2> QED BY <2>1, ProviderSteps, ProvStep
<1> QED BY <1>1, <1>2, PTL DEF FrontSpec

\* A key is stored for the provider it was typed for, whatever dialogs were opened
\* and left before (LLMProvidersPage: formData, handleOpenEdit).
THEOREM KeyOfProviderHolds == FrontSpec => []KeyOfProvider
<1>1. ProvInv => KeyOfProvider
  BY DEF ProvInv, KeysRight
<1> QED BY <1>1, ProvKept, PTL

\* A base URL is stored for a provider of the type it was shown for
\* (LLMProvidersPage: handleSubmit sends it for some types only).
THEOREM UrlFitsTypeHolds == FrontSpec => []UrlFitsType
<1>1. ProvInv => UrlFitsType
  BY DEF ProvInv, UrlsRight
<1> QED BY <1>1, ProvKept, PTL

\* A provider that is marked has a test under way (LLMProvidersPage: testingId).
THEOREM TestingClearsHolds == FrontSpec => []TestingClears
<1>1. ProvInv => TestingClears
  BY DEF ProvInv
<1> QED BY <1>1, ProvKept, PTL
=============================================================================
