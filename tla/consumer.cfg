SPECIFICATION FairSpec
CONSTANTS
    t1 = t1
    t2 = t2
    t3 = t3
    i1 = i1
    i2 = i2
    Orgs = {1, 2}
    Txs = {t1, t2, t3}
    TxOrg <- McTwoOrgs
    Unlocked = {t3}
    MaxRows = 1
    Relays = {i1}
    Consumed = {1}
    BatchSize = 1
    MaxAttempts = 1
    Faulty = {t3}
    MaxTries = 2
    MaxFaults = 1
    Nobody = Nobody
PROPERTY SoundOrgsAreServed
CHECK_DEADLOCK FALSE
INVARIANT AppliedOnceInOrder
