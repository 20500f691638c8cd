SPECIFICATION Spec
CONSTANTS
    t1 = t1
    t2 = t2
    t3 = t3
    i1 = i1
    i2 = i2
    Orgs = {1}
    Txs = {t1, t2, t3}
    TxOrg <- McOneOrg
    Unlocked = {t1, t3}
    MaxRows = 1
    Relays = {i1, i2}
    Consumed = {}
    BatchSize = 2
    MaxAttempts = 2
    Faulty = {t2}
    MaxTries = 1
    MaxFaults = 1
    Nobody = Nobody
SYMMETRY McReplicas
PROPERTY FeedSpec
CHECK_DEADLOCK FALSE
