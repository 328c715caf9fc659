------------------------------- MODULE Readings -------------------------------
(***************************************************************************)
(* What the client use cases read from the data they hold of a remote      *)
(* entity: grid connection point (ma/mgcp), battery and PV system          *)
(* (cem/vabd, cem/vapd) and energy guard (eg/lpc, eg/lpp).  e holds the    *)
(* lists received so far: e.dc, e.ec, e.m and e.lc for DeviceConfiguration,*)
(* ElectricalConnection, Measurement and LoadControl; e.ec is Nil when the *)
(* entity has no such feature.  The scope of a measurement stands for its  *)
(* type and commodity as well.                                             *)
(***************************************************************************)
EXTENDS FeatureData

Ok(value) == [error |-> Nil, value |-> value]
Err(error) == [error |-> error, value |-> Nil]
NotAvailable == Err("DataNotAvailable")

StateNormal(item) == item.valueState \in {Nil, "normal"}

\* The items in the order of their numbers.
ByMeasurementId(list) ==
    [k \in 1..Cardinality(list) |->
        CHOOSE i \in list : Cardinality({j \in list : j.measurementId < i.measurementId}) = k - 1]

\* The values of all measurements that match, in the order of their numbers;
\* phases and direction are Nil when they do not matter.  Items without a value
\* or a valid phase are left out.  The first item that flows in another
\* direction ends the search with no value and no error.
MeasurementPhaseSpecificDataForFilter(e, filter, direction, phases) ==
    LET found == GetDataForFilter(e.m, filter)
        Params(i) == GetParameterDescriptionsForFilter(e.ec, [measurementId |-> i.measurementId])
        Connection(i) == GetDescriptionForParameterDescriptionFilter(e.ec, [measurementId |-> i.measurementId])
        Wrong(i) == direction # Nil /\ \A d \in Connection(i) : d.positiveEnergyDirection # direction
        items == ByMeasurementId({i \in found :
                    /\ i.value # Nil
                    /\ phases = Nil \/ (Params(i) # {} /\ FirstParameter(Params(i)).phases \in phases)
                    /\ direction = Nil \/ Connection(i) # {}})
        ends == {k \in DOMAIN items : Wrong(items[k]) \/ ~StateNormal(items[k])}
        end == CHOOSE k \in ends : \A l \in ends : k <= l
    IN CASE e.ec = Nil -> Err("MetadataNotAvailable")
         [] e.ec # Nil /\ found = {} -> NotAvailable
         [] e.ec # Nil /\ found # {} /\ ends = {} -> Ok([k \in DOMAIN items |-> items[k].value])
         [] OTHER -> IF Wrong(items[end]) THEN Ok(<<>>) ELSE Err("DataInvalid")

-----------------------------------------------------------------------------
(* ma/mgcp *)

Phases == {"a", "b", "c"}

\* What EnergyFeedIn, EnergyConsumed and Frequency do alike.
MgcpValue(e, scope) ==
    LET found == GetDataForFilter(e.m, [scopeType |-> scope])
        item == First(found, "measurementId")
    IN CASE found = {} -> NotAvailable
         [] found # {} /\ item.value = Nil -> NotAvailable
         [] found # {} /\ item.value # Nil /\ ~StateNormal(item) -> Err("DataInvalid")
         [] OTHER -> Ok(item.value)

ScaledKey(e, key) ==
    LET found == GetKeyValueDataForFilter(e.dc, [keyName |-> key, valueType |-> "scaledNumber"])
    IN IF \A i \in found : i.value = Nil THEN NotAvailable ELSE Ok(First(found, "keyId").value)

MgcpPowerLimitationFactor(e) == ScaledKey(e, "pvCurtailmentLimitFactor")

MgcpPower(e) ==
    LET data == MeasurementPhaseSpecificDataForFilter(e, [scopeType |-> "acPowerTotal"], "consume", Nil)
    IN CASE data.error # Nil -> data
         [] data.error = Nil /\ Len(data.value) # 1 -> NotAvailable
         [] OTHER -> Ok(data.value[1])

MgcpEnergyFeedIn(e) == MgcpValue(e, "gridFeedIn")

MgcpEnergyConsumed(e) == MgcpValue(e, "gridConsumption")

MgcpCurrentPerPhase(e) ==
    MeasurementPhaseSpecificDataForFilter(e, [scopeType |-> "acCurrent"], "consume", Phases)

MgcpVoltagePerPhase(e) ==
    MeasurementPhaseSpecificDataForFilter(e, [scopeType |-> "acVoltage"], Nil, Phases)

MgcpFrequency(e) == MgcpValue(e, "acFrequency")

-----------------------------------------------------------------------------
(* cem/vabd and cem/vapd: the state of the value does not matter.          *)

VabdGetValuesFoFilter(e, filter) ==
    LET found == GetDataForFilter(e.m, filter)
    IN IF found = {} \/ First(found, "measurementId").value = Nil THEN NotAvailable
       ELSE Ok(First(found, "measurementId").value)

VabdPower(e) == VabdGetValuesFoFilter(e, [scopeType |-> "acPowerTotal"])

VabdEnergyCharged(e) == VabdGetValuesFoFilter(e, [scopeType |-> "charge"])

VabdEnergyDischarged(e) == VabdGetValuesFoFilter(e, [scopeType |-> "discharge"])

VabdStateOfCharge(e) == VabdGetValuesFoFilter(e, [scopeType |-> "stateOfCharge"])

VapdGetValuesFoFilter(e, filter) ==
    LET found == GetDataForFilter(e.m, filter)
    IN IF found = {} \/ First(found, "measurementId").value = Nil THEN NotAvailable
       ELSE Ok(First(found, "measurementId").value)

VapdPower(e) == VapdGetValuesFoFilter(e, [scopeType |-> "acPowerTotal"])

VapdPowerNominalPeak(e) == ScaledKey(e, "peakPowerOfPvSystem")

VapdPVYieldTotal(e) == VapdGetValuesFoFilter(e, [scopeType |-> "acYieldTotal"])

-----------------------------------------------------------------------------
(* eg/lpc and eg/lpp.  Both guards read the same lists, each its own       *)
(* direction and keys.                                                     *)

LimitRead(e, direction) ==
    LET descs == GetLimitDescriptionsForFilter(e.lc,
                     [limitDirection |-> direction, scopeType |-> "activePowerLimit"])
        found == GetLimitDataForId(e.lc, First(descs, "limitId").limitId)
        item == First(found, "limitId")
    IN CASE Cardinality(descs) # 1 -> NotAvailable
         [] Cardinality(descs) = 1 /\ (found = {} \/ item.value = Nil) -> NotAvailable
         [] OTHER -> Ok([value |-> item.value,
                         isChangeable |-> item.isLimitChangeable = TRUE,
                         isActive |-> item.isLimitActive = TRUE,
                         duration |-> IF item.timePeriod = Nil THEN 0 ELSE item.timePeriod])

EgLpcConsumptionLimit(e) == LimitRead(e, "consume")

EgLppProductionLimit(e) == LimitRead(e, "produce")

EgLpcFailsafeLimit(e) == ScaledKey(e, "failsafeConsumption")

EgLppFailsafeLimit(e) == ScaledKey(e, "failsafeProduction")

DurationKeyRead(e) ==
    LET found == GetKeyValueDataForFilter(e.dc, [keyName |-> "failsafeDurationMinimum", valueType |-> "duration"])
    IN IF \A i \in found : i.value = Nil THEN NotAvailable ELSE Ok(First(found, "keyId").value)

EgLpcFailsafeDurationMinimum(e) == DurationKeyRead(e)

EgLppFailsafeDurationMinimum(e) == DurationKeyRead(e)

CharacteristicRead(e, type) ==
    LET found == GetCharacteristicsForFilter(e.ec, [characteristicType |-> type])
    IN IF found = {} \/ First(found, "characteristicId").value = Nil THEN NotAvailable
       ELSE Ok(First(found, "characteristicId").value)

EgLpcConsumptionNominalMax(e, isEMS) ==
    CharacteristicRead(e, IF isEMS THEN "contractualConsumption" ELSE "powerConsumption")

EgLppProductionNominalMax(e, isEMS) ==
    CharacteristicRead(e, IF isEMS THEN "contractualProduction" ELSE "powerProduction")

=============================================================================
