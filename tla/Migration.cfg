SPECIFICATION Spec
CONSTANTS
    N = 16
    Idempotent = {1, 6, 7, 9}
    Instances = {i1, i2}
    MaxFaults = 2
INVARIANTS
    TypeOK
    AppliedInOrder
    ServingIsMigrated
PROPERTIES
    RecoversUnlessStranded
    StrandedIsForever
CHECK_DEADLOCK FALSE
