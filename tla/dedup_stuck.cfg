\* A second in-app notification with the deduplication key of the first one
\* stays in PROCESSING without a lease, where the reconciler does not look.
CONSTANTS
    u1 = u1
    u2 = u2
    w1 = w1
    w2 = w2
    s1 = s1
    s2 = s2
    Everyone = Everyone
    None = None
    Notifications = {1, 2}
    Users <- MCUsers
    Scenarios <- MCScenarios
    QueueSize = 1
    ReplayLimit = 1
    Workers = {w1, w2}
    HubWorkers = {w1}
    Sessions = {s1, s2}
SPECIFICATION Spec
INVARIANTS
    StuckIsRecoverable
CHECK_DEADLOCK FALSE
