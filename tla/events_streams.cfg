SPECIFICATION Spec
CONSTANTS
    x1 = x1
    c1 = c1
    Subscribers = {x1}
    Callers = {c1}
    Outcomes = {"completed"}
    ReplayCapacity = 2
    SubscriberCapacity = 2
    AuditCapacity = 1
    MaxItems = 2
    MaxControls = 0
INVARIANT NoSilentLoss
CHECK_DEADLOCK FALSE
