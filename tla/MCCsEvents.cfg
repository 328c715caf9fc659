SPECIFICATION Spec
CONSTANTS
    lpc = lpc
    lpp = lpp
    e1 = e1
    e2 = e2
    other = other
    none = none
    NoEntity <- MCNoEntity
    UseCases <- MCUseCases
    Entities <- MCEntities
    Compatible <- MCCompatible
    DiagnosisSets <- MCDiagnosisSets
    MaxConnections = 2
    MaxEvents = 4
    Slots <- MCSlots
    s1 = s1
    s2 = s2
SYMMETRY MCSymmetry
CHECK_DEADLOCK FALSE
INVARIANTS
    TypeOK
    SubscribedWhenSingle
    BoundLateSubscribed
    SubscribedOncePerHandler
    DiagnosisCurrent
