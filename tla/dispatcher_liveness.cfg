SPECIFICATION FairSpec
CONSTANTS
    s1 = s1
    s2 = s2
    r1 = r1
    Sessions = {s1, s2}
    Resources = {r1}
    Res <- OneResource
    Pausable = {s1}
    Controlled = {s1}
    Faulty = {s1, s2}
    Slots = {1}
    Returns = {"completed"}
    MayShutdown = FALSE
    PromptResume = FALSE
PROPERTY CommittedSettles
CHECK_DEADLOCK FALSE
