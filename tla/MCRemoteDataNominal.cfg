SPECIFICATION Spec
CONSTANTS
    Nil = Nil
    Entities <- MCEntities
    MaxVersion = 2
INVARIANT NominalMaxRead
CHECK_DEADLOCK FALSE
