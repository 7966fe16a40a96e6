SPECIFICATION Spec
CONSTANTS
    MaxCommits = 3
    MaxFaults = 1
    Modes = {"update", "rebuild-all", "rollback"}
INVARIANTS SourcesCurrent NothingForgotten
