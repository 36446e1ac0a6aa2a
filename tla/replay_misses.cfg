\* After a reconnect the stream leaves out an unread notification whose id
\* compares less than the last one it has sent.
CONSTANTS
    u1 = u1
    u2 = u2
    w1 = w1
    w2 = w2
    s1 = s1
    s2 = s2
    Everyone = Everyone
    None = None
    Notifications = {1, 2}
    Users <- MCUsers
    Scenarios <- MCScenarios
    QueueSize = 1
    ReplayLimit = 25
    Workers = {w1, w2}
    HubWorkers = {w1}
    Sessions = {s1, s2}
SPECIFICATION Spec
PROPERTIES
    MissedIsReplayed
CHECK_DEADLOCK FALSE
