SPECIFICATION Spec
CONSTANTS
    Apps = {app}
    MaxInstallations = 1
    MaxJobs = 1
    NumServices = 1
    Workers = {w1}
    Requests = {r1}
    UserOps = {"install"}
    InstallRetries = 1
    OpRetries = 1
    Beat = FALSE
    DockerErrors = FALSE
    MaxFaults = 0
SYMMETRY Symmetry
INVARIANTS RetriesHitNoConflict
CHECK_DEADLOCK FALSE
