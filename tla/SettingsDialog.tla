--------------------------- MODULE SettingsDialog ---------------------------
(***************************************************************************)
(* The settings dialog of MyAppsPage: the template's fields it asks for    *)
(* when it opens, the form, the save, and the job it then follows with     *)
(* useJobPolling.  Rows are offered while the dialog is closed only.       *)
(***************************************************************************)
EXTENDS ServerView

VARIABLES
    settingsInst,  \* the installation the dialog shows, 0 for null
    templates,     \* getTemplateConfig calls under way
    configFields,  \* the installation whose fields are in the form, 0 for []
    save,          \* the PATCH of updateConfig
    configJobId,   \* the job the dialog follows, 0 for null
    jobData,       \* cached answers of the job query
    completed,     \* the flag of useJobPolling
    timer          \* the status a pending setTimeout was started for, or "none"

dialogVars == <<settingsInst, templates, configFields, save,
                configJobId, jobData, completed, timer>>

NoSave == [pc |-> "idle", inst |-> 0, job |-> 0]

DialogInit ==
    /\ settingsInst = 0 /\ templates = {}
    /\ configFields = 0
    /\ save = NoSave
    /\ configJobId = 0
    /\ jobData = [j \in JobIds |-> "none"]
    /\ completed = FALSE
    /\ timer = "none"

isSaving == configJobId # 0
Over == {"completed", "failed"}

\* Faulty variant: a query key without the id, so that all jobs share the data.
DataOfAnyJob(j) ==
    IF \E k \in JobIds : jobData[k] \in Over
    THEN jobData[CHOOSE k \in JobIds : jobData[k] \in Over] ELSE jobData[j]

\* query.data for the key ["job", j].
Data(j) == jobData[j]

DialogShows ==
    IF settingsInst = 0 THEN "closed"
    ELSE IF ~isSaving THEN IF configFields = 0 THEN "no options" ELSE "form"
    ELSE IF Data(configJobId) \in Over THEN Data(configJobId)
    ELSE "applying"

-----------------------------------------------------------------------------
(* Opening, editing and closing.                                           *)

\* handleOpenSettings up to its await.
OpenSettings(i) ==
    /\ DialogShows = "closed"
    /\ Listed(i)
    /\ settingsInst' = i
    /\ configJobId' = 0
    /\ configFields' = 0
    /\ templates' = templates \cup {i}
    /\ UNCHANGED <<serverVars, save, jobData, completed, timer>>

\* The rest of it, whichever installation the dialog shows by now.
TemplateArrives(i) ==
    /\ i \in templates
    /\ templates' = templates \ {i}
    /\ configFields' = i
    /\ UNCHANGED <<serverVars, settingsInst, save, configJobId,
                   jobData, completed, timer>>

TemplateFails(i) ==
    /\ i \in templates
    /\ templates' = templates \ {i}
    /\ UNCHANGED <<serverVars, settingsInst, configFields, save,
                   configJobId, jobData, completed, timer>>

\* Cancel, the cross and the backdrop while nothing is being applied; Hide or
\* Close while a job is followed.
CloseSettings ==
    /\ DialogShows # "closed"
    /\ settingsInst' = 0
    /\ configJobId' = 0
    /\ UNCHANGED <<serverVars, templates, configFields, save,
                   jobData, completed, timer>>

-----------------------------------------------------------------------------
(* Saving.                                                                 *)

\* handleSaveConfig; the button is disabled while the mutation is pending.
ApplyChanges ==
    /\ DialogShows = "form"
    /\ save = NoSave
    /\ save' = [pc |-> "sent", inst |-> settingsInst, job |-> 0]
    /\ UNCHANGED <<serverVars, settingsInst, templates, configFields,
                   configJobId, jobData, completed, timer>>

SaveAccepted ==
    /\ save.pc = "sent"
    /\ \E j \in JobIds :
           /\ Request(j, "reconfigure", save.inst)
           /\ save' = [save EXCEPT !.pc = "accepted", !.job = j]
    /\ UNCHANGED <<settingsInst, templates, configFields, configJobId,
                   jobData, completed, timer>>

\* onSuccess: setConfigJobId, whichever installation the dialog shows by now.
SaveAnswered ==
    /\ save.pc = "accepted"
    /\ save' = NoSave
    /\ configJobId' = save.job
    /\ UNCHANGED <<serverVars, settingsInst, templates, configFields,
                   jobData, completed, timer>>

\* Refused, or no answer in time: the dialog says nothing.
SaveFails ==
    /\ save # NoSave
    /\ save' = NoSave
    /\ UNCHANGED <<serverVars, settingsInst, templates, configFields,
                   configJobId, jobData, completed, timer>>

-----------------------------------------------------------------------------
(* useJobPolling and its callback.                                         *)

\* The query is enabled, and its interval goes on.
Polls == isSaving /\ ~completed /\ Data(configJobId) \notin Over

\* Faulty variant: the callback looks at completed jobs only.
WhenCompleted(s) ==
    /\ completed' = (completed \/ s \in Over)
    /\ timer' = IF s = "completed" THEN s ELSE timer

\* The effect on query.data: the flag, and the callback's timer.
WhenOver(s) ==
    /\ completed' = (completed \/ s \in Over)
    /\ timer' = IF s \in Over THEN s ELSE timer

\* An answer of getJob.
PollJob ==
    /\ Polls
    /\ jobData' = [jobData EXCEPT ![configJobId] = work[configJobId].status]
    /\ WhenOver(work[configJobId].status)
    /\ UNCHANGED <<serverVars, settingsInst, templates, configFields,
                   save, configJobId>>

\* Two seconds later: the dialog closes after a success.
TimerFires ==
    /\ timer # "none"
    /\ configJobId' = 0
    /\ settingsInst' = IF timer = "completed" THEN 0 ELSE settingsInst
    /\ timer' = "none"
    /\ UNCHANGED <<serverVars, templates, configFields, save, jobData,
                   completed>>

\* The statuses that the tasks write are not read here.
DialogNext ==
    \/ \E i \in Insts : OpenSettings(i) \/ TemplateArrives(i) \/ TemplateFails(i)
    \/ CloseSettings
    \/ ApplyChanges \/ SaveAccepted \/ SaveAnswered \/ SaveFails
    \/ PollJob \/ TimerFires
    \/ \E j \in JobIds : (Begin(j) \/ Ends(j)) /\ UNCHANGED dialogVars

-----------------------------------------------------------------------------
\* What the dialog says of a job is so: "Configuration updated" and "Update
\* failed" appear for a job that did end that way.  (A failed job that is
\* retried may have gone on since.)
OutcomeIsReal ==
    DialogShows \in Over =>
        work[configJobId].status = DialogShows \/ work[configJobId].runs > 1

\* A save is followed to its end: the dialog asks about its job until it is seen
\* to be over, and then a timer takes it back.  Not so, and not ever, when the end
\* of an earlier job has left the flag before the first answer.
SaveFollowed ==
    isSaving => Polls \/ timer # "none" \/ (completed /\ jobData[configJobId] = "none")

-----------------------------------------------------------------------------
(* What one would expect as well, and the code does not keep.              *)

\* "Applying new configuration..." ends for every save.  (The flag of
\* useJobPolling is never reset, so a second job is not polled.)
EverySaveFollowed == isSaving => Polls \/ timer # "none"

\* The form shows the fields of the app whose settings it saves.  (An answer for
\* a dialog that was closed fills the one that is open.)
ShowsOwnFields == DialogShows = "form" => configFields = settingsInst

\* The job that is followed belongs to the installation that is shown.  (The
\* save may be answered after its dialog was closed and another opened.)
FollowsOwnJob == isSaving /\ settingsInst # 0 => work[configJobId].inst = settingsInst

\* The timer closes the dialog it was started for.  (It is not cancelled.)
TimerClosesOwn ==
    [][timer # "none" /\ timer' = "none" /\ settingsInst # settingsInst'
           => configJobId # 0 /\ Data(configJobId) = timer]_dialogVars
=============================================================================
