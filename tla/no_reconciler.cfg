\* With nobody consuming the maintenance queue, one crash leaves a notification
\* in PROCESSING for good.
CONSTANTS
    n1 = n1
    w1 = w1
    p1 = p1
    s1 = s1
    None = None
    Notifications = {n1}
    Scheduled = {}
    MaxAttempts = 2
    MaxCrashes = 1
    MaxOverruns = 0
    MaxLostAnswers = 0
    MaxOperations = 0
    Workers = {w1}
    Publishers = {p1}
    ReconcilerRuns = FALSE
    Sessions = {s1}
    CallbackEvents = {}
SPECIFICATION LiveSpec
PROPERTIES
    ProcessingEnds
CHECK_DEADLOCK FALSE
