SPECIFICATION Spec
CONSTANTS
    None = None
    Names <- MCNames
    NameKey <- MCNameKey
    NameForm <- MCNameForm
    Paths <- MCPaths
    Ignored <- MCIgnored
    Worlds <- MCWorlds
    Options <- MCOptions
    Hardlinks = FALSE
INVARIANTS ScanHonest RemovalJustified GreatestSafe PlanRuns ResumeAccepted Mirrored Kept
CHECK_DEADLOCK FALSE
