SPECIFICATION FairShareSpec
CONSTANTS
    a1 = a1
    a2 = a2
    c1 = c1
    d1 = d1
    Orgs = {1, 2}
    Apps = {a1, a2, c1, d1}
    AppOrg <- McAppOrg
    Branches = {main}
    Pushes <- McMixed
    Builds = {1, 2, 3}
    Instances = {i1, i2}
    Dispatching = {i1, i2}
    Sweeping = {}
    Pausable = {}
    Announced = {}
    Deletable = {a1}
    MaxConcurrent <- McByOrg
    MaxQueued <- McTwoPerOrg
    GlobalConcurrency = 2
    BatchSize = 2
    MaxAttempts = 1
    SweepBatch = 1
    StartTimeout <- Never
    RunLease <- Never
    Grace = 1
    MaxAge <- Never
    NoPush = NoPush
INVARIANTS
    TypeOK
    AppExclusive
    OrgWithinLimit
    FleetWithinCapacity
    OneTurnEach
    OneWaiting
    ReplacedByAdmitted
    NoWorkForTheDeleted
PROPERTIES
    SlotPoolSpec
    NeverBuildsOlder
SYMMETRY McInstances
CHECK_DEADLOCK FALSE
