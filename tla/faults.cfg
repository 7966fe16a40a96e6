SPECIFICATION Spec
CONSTANTS
    Apps = {app}
    MaxInstallations = 1
    MaxJobs = 2
    NumServices = 2
    Workers = {w1, w2}
    Requests = {r1}
    UserOps = {"install", "uninstall", "reconfigure"}
    InstallRetries = 1
    OpRetries = 0
    Beat = FALSE
    DockerErrors = TRUE
    MaxFaults = 1
SYMMETRY Symmetry
INVARIANTS StoredFromOneRun
PROPERTIES DeletedIsFinal
CHECK_DEADLOCK FALSE
