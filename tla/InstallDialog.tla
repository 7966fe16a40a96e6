--------------------------- MODULE InstallDialog ----------------------------
(***************************************************************************)
(* CatalogPage and its AppDetailDialog: which apps are shown, the template *)
(* a dialog loads when it opens, the choice of an LLM provider and model   *)
(* that two effects make for the user, and the install.  App and           *)
(* installation have the same id here.                                     *)
(***************************************************************************)
EXTENDS ServerView

CONSTANTS
    Filters,      \* app -> the combinations of category and search that show it
    Provs,        \* provider ids
    DefaultProv,  \* the default one
    WithModels,   \* those that have models
    Supports,     \* app -> the providers its template supports
    Gpus,         \* indices of the GPUs of the host
    InstallJobs   \* bound: the jobs of the installs

ASSUME InstallDialogAssumption ==
    /\ 0 \notin Insts
    /\ Filters \in [Insts -> SUBSET UNION {Filters[a] : a \in Insts}]
    /\ DefaultProv \in Provs /\ WithModels \subseteq Provs
    /\ Supports \in [Insts -> SUBSET Provs]
    /\ InstallJobs \subseteq JobIds /\ Gpus \subseteq Nat

VARIABLES
    filter,             \* category and search
    installedAppIds,    \* from the cached list of installations
    selectedApp,        \* the app of the dialog, 0 for null
    calls,              \* getTemplateConfig calls under way: [app, cancelled]
    template,           \* the app whose template is in the state, 0 for none
    enabledProvs,       \* the providers the server has enabled
    llmProviders,       \* the cached ones, [loaded, enabled]
    choice,             \* selectedProviderId and selectedModel, 0 for none, gpuIndices
    install,            \* the POST of installApp
    left                \* the user was taken to /my-apps

catalogVars == <<filter, installedAppIds, selectedApp, calls, template,
                 enabledProvs, llmProviders, choice, install, left>>
dialogFrame == <<selectedApp, calls, template, choice>>

AllFilters == UNION {Filters[a] : a \in Insts}

\* A GPU is known by the app it was ticked for; the first one is ticked at once.
FirstGpu == [index |-> 0, app |-> 0]
NoChoice == [provider |-> 0, model |-> 0, gpus |-> {FirstGpu}]
NoInstall == [pc |-> "idle", app |-> 0, choice |-> NoChoice, job |-> 0]

CatalogInit ==
    /\ filter \in AllFilters
    /\ installedAppIds = {}
    /\ selectedApp = 0 /\ calls = {} /\ template = 0
    /\ enabledProvs = Provs
    /\ llmProviders = [loaded |-> FALSE, enabled |-> {}]
    /\ choice = NoChoice
    /\ install = NoInstall
    /\ left = FALSE

\* The sections of the page hold what the query of the current filter returned.
ShowsCard(a) == ~left /\ filter \in Filters[a]
IsInstalled(a) == a \in installedAppIds

\* The footer and the body of the dialog: an app that is installed has "Manage"
\* in the place of the form and of its button.
OffersInstall == selectedApp # 0 /\ ~IsInstalled(selectedApp)
OffersManage(a) == IsInstalled(a) /\ (selectedApp = a \/ (selectedApp = 0 /\ ShowsCard(a)))

-----------------------------------------------------------------------------
(* The effects of the dialog.  They run before the next event is handled,  *)
(* and whether or not the dialog is open.                                  *)

Compatible(t, list) == IF t = 0 THEN {} ELSE Supports[t] \cap list.enabled

\* A model is named after its provider.  The provider is looked for in the
\* whole list, disabled ones included.
FirstModel(c, list) ==
    IF c.model = 0 /\ list.loaded /\ c.provider \in WithModels
    THEN [c EXCEPT !.model = c.provider] ELSE c

DefaultChoice(c, t, list) ==
    IF c.provider = 0 /\ list.loaded /\ DefaultProv \in Compatible(t, list)
    THEN [c EXCEPT !.provider = DefaultProv] ELSE c

AutoSelect(c, t, list) == FirstModel(DefaultChoice(c, t, list), list)

\* Faulty variant: the choice made for another app stays.
KeepChoice(c) == c

\* setSelectedProviderId(null), setSelectedModel(""), setGpuIndices([0]).
ResetChoice(c) == NoChoice

\* Faulty variant: nobody sets the flag.
NeverCancelled == calls

\* The cleanup of the effect on app.id: its call no longer counts.
Cancelled == {[c EXCEPT !.cancelled = TRUE] : c \in calls}

-----------------------------------------------------------------------------
(* The page.                                                               *)

\* /my-apps: the components go with their state.
LeavePage ==
    /\ left' = TRUE
    /\ selectedApp' = 0 /\ template' = 0 /\ choice' = NoChoice
    /\ calls' = {}
    /\ installedAppIds' = {}

ChangeFilter(f) ==
    /\ ~left /\ selectedApp = 0
    /\ filter' = f
    /\ UNCHANGED <<serverVars, installedAppIds, dialogFrame, enabledProvs,
                   llmProviders, install, left>>

\* useInstallations: only what was answered last is known to be installed.
InstallationsArrive ==
    /\ ~left
    /\ installedAppIds' = {i \in Insts : Listed(i)}
    /\ UNCHANGED <<serverVars, filter, dialogFrame, enabledProvs,
                   llmProviders, install, left>>

\* AppCard calls onOpen; the effect on app.id resets the state and loads the
\* template.
OpenApp(a) ==
    /\ selectedApp = 0
    /\ ShowsCard(a)
    /\ selectedApp' = a
    /\ template' = 0
    /\ choice' = AutoSelect(ResetChoice(choice), 0, llmProviders)
    /\ calls' = Cancelled \cup {[app |-> a, cancelled |-> FALSE]}
    /\ UNCHANGED <<serverVars, filter, installedAppIds, enabledProvs,
                   llmProviders, install, left>>

CloseApp ==
    /\ selectedApp # 0
    /\ selectedApp' = 0
    /\ calls' = Cancelled
    /\ UNCHANGED <<serverVars, filter, installedAppIds, template, enabledProvs,
                   llmProviders, choice, install, left>>

\* An answer; a call that was cancelled changes nothing.
TemplateLoaded(c) ==
    /\ ~left /\ c \in calls
    /\ calls' = calls \ {c}
    /\ IF c.cancelled
       THEN UNCHANGED <<template, choice>>
       ELSE /\ template' = c.app
            /\ choice' = AutoSelect(choice, c.app, llmProviders)
    /\ UNCHANGED <<serverVars, filter, installedAppIds, selectedApp,
                   enabledProvs, llmProviders, install, left>>

TemplateRefused(c) ==
    /\ ~left /\ c \in calls
    /\ calls' = calls \ {c}
    /\ UNCHANGED <<serverVars, filter, installedAppIds, selectedApp, template,
                   enabledProvs, llmProviders, choice, install, left>>

\* A provider is disabled from somewhere else.
ProviderDisabled(p) ==
    /\ ~left
    /\ enabledProvs' = enabledProvs \ {p}
    /\ UNCHANGED <<serverVars, filter, installedAppIds, dialogFrame,
                   llmProviders, install, left>>

\* useLLMProviders is answered, for the first time or again.
ProvidersLoaded ==
    /\ ~left
    /\ llmProviders' = [loaded |-> TRUE, enabled |-> enabledProvs]
    /\ choice' = AutoSelect(choice, template, llmProviders')
    /\ UNCHANGED <<serverVars, filter, installedAppIds, selectedApp, calls,
                   template, enabledProvs, install, left>>

\* The select, 0 standing for "No LLM provider".
PickProvider(p) ==
    /\ OffersInstall
    /\ Compatible(template, llmProviders) # {}
    /\ p \in Compatible(template, llmProviders) \cup {0}
    /\ choice' = AutoSelect([choice EXCEPT !.provider = p, !.model = 0], template, llmProviders)
    /\ UNCHANGED <<serverVars, filter, installedAppIds, selectedApp, calls,
                   template, enabledProvs, llmProviders, install, left>>

toggleGpu(g) ==
    /\ OffersInstall
    /\ LET ticked == {x \in choice.gpus : x.index = g} IN
       choice' = [choice EXCEPT !.gpus = IF ticked # {} THEN @ \ ticked
                                         ELSE @ \cup {[index |-> g, app |-> selectedApp]}]
    /\ UNCHANGED <<serverVars, filter, installedAppIds, selectedApp, calls,
                   template, enabledProvs, llmProviders, install, left>>

\* The link of a card or of the dialog: the page is left.
ManageApp(a) ==
    /\ ~left /\ OffersManage(a)
    /\ LeavePage
    /\ UNCHANGED <<serverVars, filter, enabledProvs, llmProviders, install>>

-----------------------------------------------------------------------------
(* handleInstall.                                                          *)

ClickInstall ==
    /\ OffersInstall
    /\ install = NoInstall
    /\ install' = [pc |-> "sent", app |-> selectedApp, choice |-> choice, job |-> 0]
    /\ UNCHANGED <<serverVars, filter, installedAppIds, dialogFrame,
                   enabledProvs, llmProviders, left>>

InstallAccepted ==
    /\ install.pc = "sent"
    /\ \E j \in InstallJobs :
           /\ Request(j, "install", install.app)
           /\ install' = [install EXCEPT !.pc = "accepted", !.job = j, !.choice = NoChoice]
    /\ UNCHANGED <<filter, installedAppIds, dialogFrame, enabledProvs,
                   llmProviders, left>>

\* onSuccess: the dialog closes, whatever it shows by now, and the page is left.
InstallAnswered ==
    /\ install.pc = "accepted"
    /\ install' = NoInstall
    /\ LeavePage
    /\ UNCHANGED <<serverVars, filter, enabledProvs, llmProviders>>

\* Refused ("already installed"), or no answer in time.
InstallRefused ==
    /\ install # NoInstall
    /\ install' = NoInstall
    /\ UNCHANGED <<serverVars, filter, installedAppIds, dialogFrame,
                   enabledProvs, llmProviders, left>>

CatalogNext ==
    \/ \E f \in AllFilters : ChangeFilter(f)
    \/ InstallationsArrive \/ ProvidersLoaded
    \/ \E a \in Insts : OpenApp(a) \/ ManageApp(a)
    \/ CloseApp
    \/ \E c \in calls : TemplateLoaded(c) \/ TemplateRefused(c)
    \/ \E p \in Provs : ProviderDisabled(p)
    \/ \E p \in Provs \cup {0} : PickProvider(p)
    \/ \E g \in Gpus : toggleGpu(g)
    \/ ClickInstall \/ InstallAccepted \/ InstallAnswered \/ InstallRefused

-----------------------------------------------------------------------------
\* The template in the state is the one of the app the dialog shows, however
\* late the answers for dialogs closed before arrive.
TemplateOfApp == selectedApp # 0 => template \in {0, selectedApp}

\* What an install asks for fits its app: a provider its template supports, a
\* model of that provider, and no GPU that was ticked for another app, whatever
\* dialogs, answers and effects came before.
InstallFits ==
    install # NoInstall =>
        /\ install.choice.provider \in Supports[install.app] \cup {0}
        /\ install.choice.model \in {0, install.choice.provider}
        /\ \A g \in install.choice.gpus : g.app \in {0, install.app}

-----------------------------------------------------------------------------
(* What one would expect as well, and the code does not keep.              *)

\* "No LLM provider" can be chosen.  (The first effect chooses the default
\* again, at once.)
NoneStays == [][PickProvider(0) => choice'.provider = 0]_catalogVars

\* What is sent was on offer when it was sent.  (A list that is refetched takes
\* a provider from the offer and leaves it in the state.)
InstallsOffered ==
    [][install = NoInstall /\ install'.pc = "sent"
           => install'.choice.provider \in Compatible(template, llmProviders) \cup {0}]_catalogVars

\* An install closes its own dialog only.
InstallClosesOwn ==
    [][install.pc = "accepted" /\ install' = NoInstall /\ left'
           => selectedApp \in {0, install.app}]_catalogVars
=============================================================================
