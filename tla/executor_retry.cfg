SPECIFICATION Spec
CONSTANTS
    Plan <- Reworked
    Kind <- KindByName
    Deps <- PlannedDeps
    ReadOnly = {"update", "delete"}
    TrashOnUpdate = TRUE
    Hardlinks = TRUE
    MaxRetries = 3
    StopOnFailure = TRUE
    Flaky = {"copy", "prepare", "backup", "backup_late", "replace", "replace_late", "rename", "rename_late", "stat", "record", "flush"}
    Persistent = {}
    MaxFaults = 4
    MaxPauses = 0
    Cancelable = FALSE
    MaxDrifts = 0
INVARIANTS TypeOK NoSelfCollision
CHECK_DEADLOCK FALSE
