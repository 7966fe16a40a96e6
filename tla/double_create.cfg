SPECIFICATION Spec
CONSTANTS
    Apps = {app}
    MaxInstallations = 2
    MaxJobs = 2
    NumServices = 1
    Workers = {w1}
    Requests = {r1, r2}
    UserOps = {"install"}
    InstallRetries = 1
    OpRetries = 1
    Beat = FALSE
    DockerErrors = FALSE
    MaxFaults = 0
SYMMETRY Symmetry
INVARIANTS OneInstallationPerApp
CHECK_DEADLOCK FALSE
