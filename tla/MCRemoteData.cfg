SPECIFICATION FairSpec
CONSTANTS
    Nil = Nil
    Entities <- MCEntities
    MaxVersion = 2
INVARIANTS
    TypeOK
    Informed
    ReadsPublished
PROPERTY
    EventuallyInformed
CHECK_DEADLOCK FALSE
