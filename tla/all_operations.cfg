SPECIFICATION Spec
CONSTANTS
    Apps = {app}
    MaxInstallations = 1
    MaxJobs = 3
    NumServices = 1
    Workers = {w1, w2}
    Requests = {r1}
    UserOps = {"install", "uninstall", "start", "stop", "restart", "update", "reconfigure"}
    InstallRetries = 0
    OpRetries = 1
    Beat = FALSE
    DockerErrors = FALSE
    MaxFaults = 0
SYMMETRY Symmetry
INVARIANTS TypeOK OneExecution NoStuckJob RetriesBounded FailedRunsLeaveNothingUp
PROPERTIES RecordedSurvive ImplementsJobLife ImplementsServerView
CHECK_DEADLOCK FALSE
