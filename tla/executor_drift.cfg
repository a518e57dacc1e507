SPECIFICATION FairSpec
CONSTANTS
    Plan <- Contended
    Kind <- KindByName
    Deps <- PlannedDeps
    ReadOnly = {"update"}
    TrashOnUpdate = TRUE
    Hardlinks = FALSE
    MaxRetries = 1
    StopOnFailure = FALSE
    Flaky = {"copy", "prepare", "publish", "publish_late", "backup", "backup_late", "backup_stat", "replace", "replace_late", "metadata", "rename", "rename_late"}
    Persistent = {"replace"}
    MaxFaults = 1
    MaxPauses = 1
    Cancelable = TRUE
    MaxDrifts = 2
INVARIANTS PublishedWhole TempsReclaimed
PROPERTIES ForeignKept Terminates LateChangeKept
CHECK_DEADLOCK FALSE
