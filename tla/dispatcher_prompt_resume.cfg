SPECIFICATION Spec
CONSTANTS
    s1 = s1
    s2 = s2
    r1 = r1
    Sessions = {s1, s2}
    Resources = {r1}
    Res <- OneResource
    Pausable = {s1}
    Controlled = {s1}
    Faulty = {}
    Slots = {1, 2}
    Returns = {"completed"}
    MayShutdown = FALSE
    PromptResume = TRUE
INVARIANT Exclusive
CHECK_DEADLOCK FALSE
