SPECIFICATION Spec
CONSTANTS
    a1 = a1
    a2 = a2
    w1 = w1
    w2 = w2
    Commits = {1, 2, 3}
    History <- McLinear
    Rewrites = {}
    Apps = {a1}
    Touching <- McTouching
    Deliveries = {1, 2, 3}
    Workers = {w1, w2}
    MaxLookupRounds = 1
    MaxAttempts = 1
    MaxLinkChanges = 2
    First = 1
    None = None
SYMMETRY McWorkers
INVARIANT NeverBackwards
PROPERTY NoChangePassedOver
CHECK_DEADLOCK FALSE
PROPERTY StopsAtDisconnect
