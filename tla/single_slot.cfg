SPECIFICATION Spec
CONSTANTS
    Apps = {app}
    MaxInstallations = 1
    MaxJobs = 3
    NumServices = 2
    Workers = {w1}
    Requests = {r1}
    UserOps = {"install", "uninstall", "start", "stop", "restart", "update", "reconfigure"}
    InstallRetries = 3
    OpRetries = 2
    Beat = FALSE
    DockerErrors = FALSE
    MaxFaults = 0
SYMMETRY Symmetry
INVARIANTS DeletedMeansGone
CHECK_DEADLOCK FALSE
