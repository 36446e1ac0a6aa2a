\* Cancel, retry and replay requests and provider callbacks in two concurrent
\* sessions against a worker that retries, and two publishers that select the
\* same rows of two notifications, one of them scheduled: who may overwrite a
\* cancelled notification, dead letters after a replay, that a reported SENT
\* or DELIVERED rests on an accepted attempt, and that early messages and
\* refused leases acknowledge no message that is still needed.
CONSTANTS
    n1 = n1
    n2 = n2
    w1 = w1
    p1 = p1
    p2 = p2
    s1 = s1
    s2 = s2
    None = None
    Notifications = {n1, n2}
    Scheduled = {n2}
    MaxAttempts = 2
    MaxCrashes = 0
    MaxOverruns = 0
    MaxLostAnswers = 0
    MaxOperations = 2
    Workers = {w1}
    Publishers = {p1, p2}
    ReconcilerRuns = TRUE
    Sessions = {s1, s2}
    CallbackEvents = {"delivered", "deferred"}
SPECIFICATION Spec
CONSTRAINT OneQuestion
INVARIANTS
    SentHasAcceptedAttempt
    DeadLetteredMeansExhausted
    NoNotificationForgotten
PROPERTIES
    CancelUndoneOnlyByStaleActor
SYMMETRY ActorSymmetry
CHECK_DEADLOCK FALSE
