\* A cancellation is committed over a notification that a worker has claimed
\* since the handler read it.
CONSTANTS
    n1 = n1
    w1 = w1
    p1 = p1
    s1 = s1
    None = None
    Notifications = {n1}
    Scheduled = {}
    MaxAttempts = 2
    MaxCrashes = 0
    MaxOverruns = 0
    MaxLostAnswers = 0
    MaxOperations = 1
    Workers = {w1}
    Publishers = {p1}
    ReconcilerRuns = TRUE
    Sessions = {s1}
    CallbackEvents = {}
SPECIFICATION Spec
PROPERTIES
    CancelOnlyBeforeProcessing
CHECK_DEADLOCK FALSE
