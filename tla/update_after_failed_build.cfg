SPECIFICATION Spec
CONSTANTS
    MaxCommits = 1
    MaxFaults = 1
    Modes = {"update"}
INVARIANT UpToDateMeansCurrent
