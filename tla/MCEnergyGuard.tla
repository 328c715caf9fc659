---------------------------- MODULE MCEnergyGuard ----------------------------
EXTENDS EnergyGuard

Load(value, active, duration, delete) ==
    [value |-> value, isActive |-> active, duration |-> duration, deleteDuration |-> delete]

MCLoadLimits == [lpc |-> {Load(1, TRUE, 1, FALSE)},
                 lpp |-> {Load(2, TRUE, 0, FALSE), Load(0, FALSE, 0, TRUE)}]

MCDeviceLimits ==
    {[value |-> 3, isLimitActive |-> FALSE, isLimitChangeable |-> FALSE, timePeriod |-> 2]}

=============================================================================
