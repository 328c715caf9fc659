SPECIFICATION Spec
CONSTANTS
    m1 = m1
    m2 = m2
    c1 = c1
    c2 = c2
    NoMonitor = NoMonitor
    Monitors <- MCMonitors
    Countdowns <- MCCountdowns
    HbTimeout = 3
    NominalMax = 3
    LimitValues <- MCLimitValues
    LimitDurations <- MCLimitDurations
    FailsafeLimits <- MCFailsafeLimits
    FailsafeDurations <- MCFailsafeDurations
INVARIANTS
    TypeOK
    SingleMonitor
    LossPublished
    LimitFollowed
    HeartbeatEndsFailsafe
PROPERTY CountdownsSequential
SYMMETRY Symmetry
