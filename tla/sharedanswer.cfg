SPECIFICATION Spec
CONSTANTS
    a1 = a1
    a2 = a2
    w1 = w1
    w2 = w2
    Commits = {1, 2, 3}
    History <- McLinear
    Rewrites = {}
    Apps = {a1, a2}
    Touching <- McMonorepo
    Deliveries = {1, 2, 3}
    Workers = {w1}
    MaxLookupRounds = 1
    MaxAttempts = 2
    MaxLinkChanges = 0
    First = 1
    None = None
PROPERTY NoChangePassedOver
CHECK_DEADLOCK FALSE
