SPECIFICATION FairSpec
CONSTANTS
    a1 = a1
    Orgs = {1}
    Apps = {a1}
    AppOrg <- McAppOrg
    Branches = {main, dev}
    Pushes <- McWebhooks
    Builds = {1, 2}
    Instances = {i1}
    Dispatching = {i1}
    Sweeping = {i1}
    Pausable = {i1}
    Announced = {a1}
    Deletable = {1}
    MaxConcurrent <- McOnePerOrg
    MaxQueued <- McOnePerOrg
    GlobalConcurrency = 1
    BatchSize = 1
    MaxAttempts = 1
    SweepBatch = 1
    StartTimeout = 1
    RunLease = 1
    Grace = 1
    MaxAge <- Never
    NoPush = NoPush
PROPERTIES
    RankNeverFalls
    SlotsComeBack
    EveryWaiterIsServed
CHECK_DEADLOCK FALSE
