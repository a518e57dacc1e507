SPECIFICATION Spec
CONSTANTS
    Plan <- Everything
    Kind <- KindByName
    Deps <- PlannedDeps
    ReadOnly = {"update", "delete"}
    TrashOnUpdate = TRUE
    Hardlinks = FALSE
    MaxRetries = 1
    StopOnFailure = FALSE
    Flaky = {"open", "mkdir", "copy", "prepare", "publish", "publish_late", "backup", "backup_late", "backup_stat", "replace", "replace_late", "metadata", "rename", "rename_late", "remove", "remove_late", "stat", "record", "flush", "cleanup"}
    Persistent = {}
    MaxFaults = 2
    MaxPauses = 1
    Cancelable = TRUE
    MaxDrifts = 0
INVARIANTS VersionsKept SuccessIsReal ResultIsExact RecordingTruthful
CHECK_DEADLOCK FALSE
