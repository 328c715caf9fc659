SPECIFICATION Spec
CONSTANTS
    Nil = Nil
    Limits <- MCLimits
    LimitItems <- MCLimitItems
    KeyWrites <- MCKeyWrites
    Powers = {1}
    Durations = {1, 2}
    IsEMS = TRUE
    MaxCalls = 3
INVARIANTS
    TypeOK
    ApplicationInformed
PROPERTY
    ActsAsRegisters
CHECK_DEADLOCK FALSE
