SPECIFICATION Spec
CONSTANTS
    Members = {1, 2}
    Founder = 1
    Legacy = {1, 2}
    BatchSize = 1
    MaxTx = 4
    MaxVersion = 1
    Absent = Absent
    Tombstone = Tombstone
    Completed = Completed
INVARIANTS OneOwner ReadModelRight
CHECK_DEADLOCK FALSE
