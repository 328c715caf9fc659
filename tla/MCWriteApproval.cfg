SPECIFICATION Spec
CONSTANTS
    MaxWrites = 2
    MaxCounter = 2
    Payloads <- MCPayloads
INVARIANTS
    TypeOK
    AppliedOnlyAccepted
    NoProductionWritePending
    PromptAnswer
    RefusedOnlyWithReason
