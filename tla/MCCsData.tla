------------------------------- MODULE MCCsData -------------------------------
EXTENDS CsData

Load(value, changeable, active, duration) ==
    [value |-> value, isChangeable |-> changeable, isActive |-> active, duration |-> duration]

MCLimits == {Load(1, TRUE, TRUE, 2), Load(0, FALSE, FALSE, 0)}

Item(uc, value, active, period) ==
    [uc |-> uc, value |-> value, isLimitActive |-> active, timePeriod |-> period]

MCKeyWrites == {[failsafeConsumption |-> 2, failsafeDurationMinimum |-> 4],
                [failsafeProduction |-> 1]}

MCLimitItems == {Item("lpc", 2, TRUE, 1), Item("lpp", 2, TRUE, Nil)}

=============================================================================
