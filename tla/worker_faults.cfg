\* Two workers, a publisher and the reconciler on one notification, with one
\* crash of any process and one lease that expires under its holder: numbering
\* of attempts, leases, and what the faults can cost.
CONSTANTS
    n1 = n1
    w1 = w1
    w2 = w2
    p1 = p1
    s1 = s1
    None = None
    Notifications = {n1}
    Scheduled = {}
    MaxAttempts = 2
    MaxCrashes = 1
    MaxOverruns = 1
    MaxLostAnswers = 0
    MaxOperations = 0
    Workers = {w1, w2}
    Publishers = {p1}
    ReconcilerRuns = TRUE
    Sessions = {s1}
    CallbackEvents = {}
SPECIFICATION Spec
INVARIANTS
    TypeOK
    AttemptsNumberedContiguously
    ProcessingHasLease
    DuplicatesBoundedByFaults
    AttemptBudgetKept
PROPERTIES
    ImplementsAttemptLog
SYMMETRY ActorSymmetry
CHECK_DEADLOCK FALSE
