SPECIFICATION FairSpec
CONSTANTS
    a1 = a1
    a2 = a2
    w1 = w1
    w2 = w2
    Commits = {1, 2, 3, 4}
    History <- McForked
    Rewrites <- McFork
    Apps = {a1, a2}
    Touching <- McTouching
    Deliveries = {1, 2}
    Workers = {w1}
    MaxLookupRounds = 1
    MaxAttempts = 1
    MaxLinkChanges = 0
    First = 1
    None = None
PROPERTY Converges
CHECK_DEADLOCK FALSE
