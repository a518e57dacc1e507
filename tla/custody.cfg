SPECIFICATION FairSpec
CONSTANTS
    t1 = t1
    t2 = t2
    t3 = t3
    p1 = p1
    p2 = p2
    NoOne = NoOne
    Processes = {p1, p2}
    Threads = {t1, t2, t3}
    Resources = {1, 2, 3}
    Home <- TwoHomes
    Want <- Ring
INVARIANTS NoStrayMutex
PROPERTIES KeepsPromise WaitersProgress
