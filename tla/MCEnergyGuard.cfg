SPECIFICATION Spec
CONSTANTS
    Nil = Nil
    LoadLimits <- MCLoadLimits
    DeviceLimits <- MCDeviceLimits
    Powers = {1}
    Durations = {1, 3}
    MaxWrites = 2
    MaxChanges = 1
INVARIANT
    TypeOK
PROPERTIES
    ActsAsRemoteRegisters
    EventuallyAnswered
CHECK_DEADLOCK FALSE
