\* One crash: the redelivered message is refused and acknowledged while the
\* lease runs, and the publisher writes QUEUED over PROCESSING, so the
\* reconciler does not find the notification.
CONSTANTS
    n1 = n1
    w1 = w1
    p1 = p1
    s1 = s1
    None = None
    Notifications = {n1}
    Scheduled = {}
    MaxAttempts = 2
    MaxCrashes = 1
    MaxOverruns = 0
    MaxLostAnswers = 0
    MaxOperations = 0
    Workers = {w1}
    Publishers = {p1}
    ReconcilerRuns = TRUE
    Sessions = {s1}
    CallbackEvents = {}
SPECIFICATION Spec
INVARIANTS
    UnsettledHasDriver
CHECK_DEADLOCK FALSE
