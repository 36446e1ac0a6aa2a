\* Two workers, two stream consumers of one user and two acknowledgements on
\* two in-app notifications, under fairness, each behaviour in one scenario:
\* single rows, outcomes of attempts, what streams show and miss, and that
\* every notification ends.
CONSTANTS
    u1 = u1
    u2 = u2
    w1 = w1
    w2 = w2
    s1 = s1
    s2 = s2
    Everyone = Everyone
    None = None
    Notifications = {1, 2}
    Users <- MCUsers
    Scenarios <- MCScenarios
    QueueSize = 1
    ReplayLimit = 1
    Workers = {w1, w2}
    HubWorkers = {w1}
    Sessions = {s1, s2}
SPECIFICATION LiveSpec
INVARIANTS
    InAppTypeOK
    OneInAppRow
    AttemptTellsOutcome
    UnleasedProcessingIsDuplicate
    AckNumbersGapless
    ShownBelongsToUser
    NothingMissedWhileLive

    
CHECK_DEADLOCK FALSE
