\* An editor that loaded a version before it was published changes its content
\* afterwards.
CONSTANTS
    e1 = e1
    e2 = e2
    s1 = s1
    s2 = s2
    k1 = k1
    k2 = k2
    k3 = k3
    k4 = k4
    None = None
    Editors = {e1, e2}
    Sessions = {s1, s2}
    Keys = {k1, k2, k3, k4}
    Names = {"a", "b"}
    Candidates <- MCCandidates
    Contents <- MCContents
    Bodies <- MCBodies
    Scenarios <- MCScenarios
    Limit = 2
    DayLimit = 3
SPECIFICATION Spec
SYMMETRY Symmetry
PROPERTIES
    PublishedIsImmutable
CHECK_DEADLOCK FALSE
