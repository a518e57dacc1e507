SPECIFICATION Spec
CONSTANTS
    v1 = v1
    v2 = v2
    ntfs = ntfs
    exfat = exfat
    None = None
    Keys = {"a", "b"}
    First = "a"
    FsTypes = {ntfs, exfat}
    Identified = TRUE
    Sessions = {v1, v2}
    Modes = {"verify", "baseline", "rebaseline"}
    MaxClock = 2
    MaxEvents = 4
SYMMETRY Symmetry
INVARIANTS EvidenceReal PairsOneToOne SettledOnce MismatchIsDecay
PROPERTIES NoSilentRebase RepeatsAreNoops
CHECK_DEADLOCK FALSE
