SPECIFICATION FairSpec
CONSTANTS
    s1 = s1
    s2 = s2
    r1 = r1
    Sessions = {s1}
    Resources = {r1}
    Res <- Solo
    Pausable = {s1}
    Controlled = {s1}
    Faulty = {s1}
    Slots = {1, 2}
    Returns = {"completed", "failed"}
    MayShutdown = TRUE
    PromptResume = FALSE
INVARIANT ShutdownSettles
PROPERTY CancelSettles
CHECK_DEADLOCK FALSE
