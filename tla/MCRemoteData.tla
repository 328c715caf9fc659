----------------------------- MODULE MCRemoteData -----------------------------
EXTENDS RemoteData

\* The measurements 1, 2, ... of the given scopes.  Frequency and voltage are
\* measured later, and the last value of the feed in is faulty.
Desc(i, scope) == [measurementId |-> i, scopeType |-> scope]
Measured(i, scope, v) ==
    [measurementId |-> i,
     value |-> IF scope \in {"acFrequency", "acVoltage"} /\ v = 1 THEN Nil ELSE 10 * i + v,
     valueState |-> IF scope = "gridFeedIn" /\ v = 2 THEN "error" ELSE Nil]
Param(i, phase) == [electricalConnectionId |-> 0, parameterId |-> i, measurementId |-> i, phases |-> phase]

Key(i, name) ==
    [keyId |-> i, keyName |-> name,
     valueType |-> IF name = "failsafeDurationMinimum" THEN "duration" ELSE "scaledNumber"]

Limit(i, direction) == [limitId |-> i, limitDirection |-> direction, scopeType |-> "activePowerLimit"]
LimitData(i, v) == [limitId |-> i, value |-> 10 * i + v, isLimitChangeable |-> TRUE,
                    isLimitActive |-> v = 2, timePeriod |-> Nil]

Char(i, type) == [electricalConnectionId |-> 0, parameterId |-> 0, characteristicId |-> i,
                  characteristicType |-> type, value |-> i + 50]

\* What an entity publishes, before and after its changes: measurements of
\* these scopes, on these phases, and keys of these names.
Data2(scopes, phases, keys) ==
    LET ids == DOMAIN scopes
        same(items) == <<items, items>>
    IN [keyDescs |-> same({Key(k, keys[k]) : k \in DOMAIN keys}),
        keyValues |-> [v \in 1..2 |-> {[keyId |-> k, value |-> 10 * k + v] : k \in DOMAIN keys}],
        ecDescs |-> same({[electricalConnectionId |-> 0, positiveEnergyDirection |-> "consume"]}),
        ecParams |-> same({Param(i, phases[i]) : i \in ids}),
        ecChars |-> same({Char(0, "contractualConsumption"), Char(1, "contractualProduction")}),
        mDescs |-> same({Desc(i, scopes[i]) : i \in ids}),
        mConstraints |-> same({}),
        mData |-> [v \in 1..2 |-> {Measured(i, scopes[i], v) : i \in ids}],
        heartbeat |-> same({}),
        consumeDesc |-> same({Limit(0, "consume")}), produceDesc |-> same({Limit(1, "produce")}),
        consumeLimit |-> <<{LimitData(0, 1)}, {LimitData(0, 2)}>>,
        produceLimit |-> <<{LimitData(1, 1)}, {LimitData(1, 2)}>>]

GridData == Data2(<<"acPowerTotal", "gridFeedIn", "gridConsumption", "acCurrent", "acCurrent", "acVoltage",
                    "acFrequency">>, <<"abc", Nil, Nil, "a", "b", "a", Nil>>, <<"pvCurtailmentLimitFactor">>)
BatteryData == Data2(<<"acPowerTotal", "charge", "discharge", "stateOfCharge">>, <<"abc", Nil, Nil, Nil>>, <<>>)
PvData == Data2(<<"acPowerTotal", "acYieldTotal">>, <<"abc", "abc">>, <<"peakPowerOfPvSystem">>)
GuardedData == Data2(<<>>, <<>>, <<"failsafeConsumption", "failsafeProduction", "failsafeDurationMinimum">>)

Entity(useCases, features, data, readable, partial, changing) ==
    [useCases |-> useCases, features |-> features, data |-> data, readable |-> readable,
     partial |-> partial, changing |-> changing]

Meter == {"DeviceConfiguration", "ElectricalConnection", "Measurement"}
Guarded == {"LoadControl", "DeviceConfiguration", "DeviceDiagnosis", "ElectricalConnection"}

MCEntities ==
    {Entity({"mgcp"}, Meter, GridData, Parts \ {"mConstraints"}, FALSE, {"mData", "keyValues"}),
     Entity({"mgcp"}, {"Measurement"}, GridData, Parts, TRUE, {"mData"}),
     Entity({"vabd"}, Meter, BatteryData, Parts, TRUE, {"mData"}),
     Entity({"vapd"}, Meter, PvData, Parts, TRUE, {"mData", "keyValues"}),
     Entity({"egLpc", "egLpp"}, {"LoadControl"}, GuardedData, Parts, TRUE, {}),
     Entity({"egLpc", "egLpp"}, {"LoadControl"}, GuardedData, Parts, FALSE, {}),
     Entity({"egLpc", "egLpp"}, {"DeviceConfiguration"}, GuardedData, Parts, TRUE, {}),
     Entity({"egLpc"}, Guarded, GuardedData, Parts, TRUE, {"keyValues", "heartbeat"}),
     Entity({"egLpp"}, Guarded, GuardedData, Parts, FALSE, {"produceLimit"})}

=============================================================================
