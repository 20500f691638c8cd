SPECIFICATION FairSpec
CONSTANTS
    r1 = r1
    r2 = r2
    u1 = u1
    u2 = u2
    Ids = {1, 2}
    Pairs = {1, 2, 3, 4}
    Users = {u1, u2}
    Owner = u1
    Requests = {r1, r2}
    Serves <- McAnything
    Rotates = TRUE
    MaxPolls = 1
    MaxSwaps = 2
    MaxTroubles = 1
    MaxAging = 2
    Nothing = Nothing
INVARIANT SingleFlight
INVARIANT ParallelLoadsSignNobodyOut
INVARIANT OneSessionLeft
PROPERTY LifeSpec
PROPERTY EveryRequestIsAnswered
CHECK_DEADLOCK FALSE
