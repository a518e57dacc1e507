SPECIFICATION FairSpec
CONSTANTS
    x1 = x1
    c1 = c1
    Subscribers = {}
    Callers = {c1}
    Outcomes = {"completed"}
    ReplayCapacity = 2
    SubscriberCapacity = 1
    AuditCapacity = 1
    MaxItems = 1
    MaxControls = 1
INVARIANTS TypeOK AuditTruthful
PROPERTY ResultPublished
CHECK_DEADLOCK FALSE
