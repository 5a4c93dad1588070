SPECIFICATION Spec
CONSTANTS
    N = 16
    Idempotent = {1, 6, 7, 9}
    Instances = {i1, i2}
    MaxFaults = 1
PROPERTY RestartRecovers
CHECK_DEADLOCK FALSE
