SPECIFICATION Spec
CONSTANTS
    h1 = h1
    h2 = h2
    Handlers <- MCHandlers
    Limits <- MCLimits
    Durations <- MCDurations
    Passwords <- MCPasswords
    LongPasswords <- MCLongPasswords
    MaxSN = 3
INVARIANTS
    TypeOK
    FailsafeStored
    PasswordUsable
SYMMETRY Symmetry
