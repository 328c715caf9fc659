SPECIFICATION Spec
CONSTANTS
    MaxWrites = 2
    MaxCounter = 2
    Payloads <- MCFewPayloads
INVARIANT ApprovesOthersOnly
