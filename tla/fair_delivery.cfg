\* Two workers, one crash and one answer that times out after the provider
\* accepted, under fairness: every notification leaves PROCESSING, an accepted
\* notification is settled unless a process crashes, and duplicates stay within
\* their bound.
CONSTANTS
    n1 = n1
    w1 = w1
    w2 = w2
    p1 = p1
    s1 = s1
    None = None
    Notifications = {n1}
    Scheduled = {}
    MaxAttempts = 2
    MaxCrashes = 1
    MaxOverruns = 0
    MaxLostAnswers = 1
    MaxOperations = 0
    Workers = {w1, w2}
    Publishers = {p1}
    ReconcilerRuns = TRUE
    Sessions = {s1}
    CallbackEvents = {}
SPECIFICATION LiveSpec
INVARIANTS
    DuplicatesBoundedByFaults
PROPERTIES
    ProcessingEnds
    AcceptedIsSettled
CHECK_DEADLOCK FALSE
