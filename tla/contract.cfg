SPECIFICATION ContractSpec
CONSTANTS
    a1 = a1
    Orgs = {1}
    Apps = {a1}
    AppOrg <- McAppOrg
    Branches = {main}
    Pushes <- McWebhooks
    Builds = {1, 2}
    Instances = {i1}
    Dispatching = {i1}
    Sweeping = {i1}
    Pausable = {}
    Announced = {}
    Deletable = {}
    MaxConcurrent <- McTwoPerOrg
    MaxQueued <- McOnePerOrg
    GlobalConcurrency = 2
    BatchSize = 2
    MaxAttempts = 2
    SweepBatch = 1
    StartTimeout = 1
    RunLease = 6
    Grace = 5
    MaxAge = 2
    NoPush = NoPush
    MaxDuration = 1
    TransitTime = 1
    MaxOutages = 1
INVARIANTS
    LeaseMeansSilence
    OutboxTellsTheRow
    OverlapNeedsStartTimeout
    NothingImpossible
CHECK_DEADLOCK FALSE
