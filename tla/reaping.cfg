SPECIFICATION FairSpec
CONSTANTS
    Apps = {app}
    MaxInstallations = 1
    MaxJobs = 3
    NumServices = 1
    Workers = {w1, w2}
    Requests = {r1}
    UserOps = {"install", "uninstall"}
    InstallRetries = 0
    OpRetries = 1
    Beat = TRUE
    DockerErrors = TRUE
    MaxFaults = 0
PROPERTIES OrphansReaped UninstallSettles
CHECK_DEADLOCK FALSE
