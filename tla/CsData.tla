-------------------------------- MODULE CsData --------------------------------
(***************************************************************************)
(* The values of the controllable system: limits, failsafe values and      *)
(* nominal maxima of LPC and LPP (usecases/cs/lpc, usecases/cs/lpp).  Both *)
(* use cases keep them in the same three server features of one entity, as *)
(* items that are only found by a description with the right direction or  *)
(* key name.  The application sets and reads them, the remote device       *)
(* writes limits and failsafe values, and every write raises an event that *)
(* each use case handles in a goroutine of its own.                        *)
(***************************************************************************)
EXTENDS ServerFeatures

CONSTANTS
    Limits,      \* limits the application sets
    Powers,      \* failsafe limits and nominal maxima the application sets
    Durations,   \* failsafe durations in hours that are asked for
    LimitItems,  \* limits the remote device writes
    KeyWrites,   \* sets of failsafe values the remote device writes together
    IsEMS,       \* the device is an energy management system
    MaxCalls     \* bound: values set and writes after the use cases were added

UseCases == {"lpc", "lpp"}
LoadLimit == [value : Nat, isChangeable : BOOLEAN, isActive : BOOLEAN, duration : Nat]
Setting == [value : Nat, isChangeable : BOOLEAN]
LimitItem == [limitId : Nat, value : Nat \union {Nil},
              isLimitActive : BOOLEAN \union {Nil}, isLimitChangeable : BOOLEAN \union {Nil},
              timePeriod : Nat \union {Nil}]

FailsafeKeys == {"failsafeConsumption", "failsafeProduction", "failsafeDurationMinimum"}

ASSUME CsDataAssumption ==
    /\ Limits \subseteq LoadLimit
    /\ Powers \subseteq Nat /\ Durations \subseteq Nat /\ MaxCalls \in Nat
    /\ \A w \in KeyWrites : DOMAIN w \subseteq FailsafeKeys /\ \A k \in DOMAIN w : w[k] \in Nat
    /\ IsEMS \in BOOLEAN
    /\ Nil \notin Nat \union BOOLEAN \union LoadLimit \union Setting \union [limitId : Nat]
    /\ \A i \in LimitItems : i \in [uc : UseCases, value : Nat, isLimitActive : BOOLEAN \union {Nil},
                                    timePeriod : Nat \union {Nil}]

VARIABLES
    loadControl, deviceConfiguration, electricalConnection,  \* server features
    added,      \* use cases that were added to the service
    running,    \* the service was started
    handlers,   \* event goroutines that did not get to their callback yet
    view,       \* what the application last set or was told to read again
    request,    \* history: the last call that changed a value
    calls       \* calls so far, up to MaxCalls

features == <<loadControl, deviceConfiguration, electricalConnection>>
vars == <<features, added, running, handlers, view, request, calls>>

-----------------------------------------------------------------------------
(* Names the use cases give to their data *)

LimitDirection(uc) == IF uc = "lpc" THEN "consume" ELSE "produce"
FailsafeKey(uc) == IF uc = "lpc" THEN "failsafeConsumption" ELSE "failsafeProduction"
DurationKey == "failsafeDurationMinimum"

CharacteristicType(uc) ==
    IF uc = "lpc" THEN IF IsEMS THEN "contractualConsumption" ELSE "powerConsumption"
    ELSE IF IsEMS THEN "contractualProduction" ELSE "powerProduction"

LimitFilter(uc) == [limitDirection |-> LimitDirection(uc), scopeType |-> "activePowerLimit"]

\* 0, and no error, when there are descriptions but not exactly one matches.
LoadControlServerAndLimitId(uc) ==
    LET found == GetLimitDescriptionsForFilter(loadControl, LimitFilter(uc))
    IN IF Cardinality(found) # 1 THEN 0 ELSE First(found, "limitId").limitId

CharacteristicFilter(uc) ==
    [electricalConnectionId |-> 0, parameterId |-> 0, characteristicType |-> CharacteristicType(uc)]

-----------------------------------------------------------------------------
(* What the application reads.  Nil stands for an error. *)

LimitOf(uc) ==
    LET found == {i \in GetLimitDataForId(loadControl, LoadControlServerAndLimitId(uc)) : i.value # Nil}
        item == First(found, "limitId")
    IN IF found = {} THEN Nil
       ELSE [value |-> item.value, isChangeable |-> item.isLimitChangeable = TRUE,
             isActive |-> item.isLimitActive = TRUE,
             duration |-> IF item.timePeriod = Nil THEN 0 ELSE item.timePeriod]

ConsumptionLimit == LimitOf("lpc")
ProductionLimit == LimitOf("lpp")

KeyValue(key) ==
    LET found == {i \in GetKeyValueDataForFilter(deviceConfiguration, [keyName |-> key]) : i.value # Nil}
        item == First(found, "keyId")
    IN IF found = {} THEN Nil
       ELSE [value |-> item.value, isChangeable |-> item.isValueChangeable = TRUE]

FailsafeConsumptionActivePowerLimit == KeyValue(FailsafeKey("lpc"))
FailsafeProductionActivePowerLimit == KeyValue(FailsafeKey("lpp"))

FailsafeDurationMinimum == KeyValue(DurationKey)

NominalMaxOf(uc) ==
    LET found == GetCharacteristicsForFilter(electricalConnection, CharacteristicFilter(uc))
    IN IF found = {} THEN Nil ELSE First(found, "characteristicId").value

Everything ==
    [limit |-> [lpc |-> ConsumptionLimit, lpp |-> ProductionLimit],
     failsafe |-> [lpc |-> FailsafeConsumptionActivePowerLimit,
                   lpp |-> FailsafeProductionActivePowerLimit],
     duration |-> FailsafeDurationMinimum]

-----------------------------------------------------------------------------

Init ==
    /\ loadControl = [descs |-> {}, data |-> {}]
    /\ deviceConfiguration = [descs |-> {}, data |-> {}]
    /\ electricalConnection = [chars |-> {}]
    /\ added = {} /\ running = FALSE
    /\ handlers = {}
    /\ view = Everything
    /\ request = <<"none">> /\ calls = 0

LimitData(value, changeable, active, period) ==
    [limitId |-> Nil, value |-> value, isLimitActive |-> active,
     isLimitChangeable |-> changeable, timePeriod |-> period]

KeyData(value, changeable) == [keyId |-> Nil, value |-> value, isValueChangeable |-> changeable]

WithLimit(lc, uc) ==
    LET id == NextId(lc.descs, "limitId")
    IN UpdateLimitDataForIds(
           AddLimitDescription(lc, [limitId |-> Nil, limitDirection |-> LimitDirection(uc),
                                    scopeType |-> "activePowerLimit"]),
           {[id |-> id, data |-> LimitData(0, TRUE, FALSE, Nil)]})

WithKey(dc, key) == AddKeyValueDescription(dc, [keyId |-> Nil, keyName |-> key])

WithDuration(dc) ==
    IF dc.descs # {} /\ GetKeyValueDescriptionsForFilter(dc, [keyName |-> DurationKey]) = {}
    THEN WithKey(dc, DurationKey) ELSE dc

WithFailsafe(dc, uc) ==
    LET keys == WithDuration(WithKey(dc, FailsafeKey(uc)))
        first == UpdateKeyValueDataForFilter(keys, KeyData(0, TRUE), [keyName |-> FailsafeKey(uc)])
    IN UpdateKeyValueDataForFilter(first, KeyData(0, TRUE), [keyName |-> DurationKey])

\* Service.AddUseCase, with AddFeatures of the use case.  Nothing in it looks at
\* running: the guard is the order of devices/hems/main.go (352-397), which adds
\* its use cases before Start.
AddUseCase(uc) ==
    /\ ~running /\ uc \notin added
    /\ added' = added \union {uc}
    /\ loadControl' = WithLimit(loadControl, uc)
    /\ deviceConfiguration' = WithFailsafe(deviceConfiguration, uc)
    /\ electricalConnection' = AddCharacteristic(electricalConnection,
          [electricalConnectionId |-> 0, parameterId |-> 0, characteristicId |-> Nil,
           characteristicType |-> CharacteristicType(uc), value |-> Nil])
    /\ view' = Everything'
    /\ request' = <<"announce", uc>>
    /\ UNCHANGED <<running, handlers, calls>>

Start == /\ ~running /\ added # {}
         /\ running' = TRUE
         /\ UNCHANGED <<features, added, handlers, view, request, calls>>

-----------------------------------------------------------------------------
(* The application sets values *)

Call(name) == calls < MaxCalls /\ calls' = calls + 1 /\ request' = name

\* Mutant: the time of an earlier limit is not removed.
LimitDeletionNone(id) == NoDeletion

LimitDeletion(id) == [selector |-> [limitId |-> id], elements |-> {"timePeriod"}]

SetLimit(uc, limit) ==
    LET id == LoadControlServerAndLimitId(uc)
        data == LimitData(limit.value, limit.isChangeable, limit.isActive,
                          IF limit.duration > 0 THEN limit.duration ELSE Nil)
    IN /\ uc \in added
       /\ loadControl' = UpdateLimitDataForFilters(loadControl,
             {[data |-> data, filter |-> [limitId |-> id]]}, LimitDeletion(id))
       /\ view' = [view EXCEPT !.limit[uc] = limit]
       /\ Call(<<"limit", uc, limit>>)
       /\ UNCHANGED <<deviceConfiguration, electricalConnection, added, running, handlers>>

SetConsumptionLimit(limit) == SetLimit("lpc", limit)
SetProductionLimit(limit) == SetLimit("lpp", limit)

SetFailsafeActivePowerLimit(uc, value, changeable) ==
    /\ uc \in added
    /\ deviceConfiguration' = UpdateKeyValueDataForFilter(deviceConfiguration,
          KeyData(value, changeable), [keyName |-> FailsafeKey(uc)])
    /\ view' = [view EXCEPT !.failsafe[uc] = [value |-> value, isChangeable |-> changeable]]
    /\ Call(<<"failsafe", uc, value, changeable>>)
    /\ UNCHANGED <<loadControl, electricalConnection, added, running, handlers>>

SetFailsafeConsumptionActivePowerLimit(value, changeable) ==
    SetFailsafeActivePowerLimit("lpc", value, changeable)
SetFailsafeProductionActivePowerLimit(value, changeable) ==
    SetFailsafeActivePowerLimit("lpp", value, changeable)

PermittedDurations == 2..24

\* A duration outside of the range is refused and changes nothing.
SetFailsafeDurationMinimum(hours, changeable) ==
    /\ added # {}
    /\ hours \in PermittedDurations
    /\ deviceConfiguration' = UpdateKeyValueDataForFilter(deviceConfiguration,
          KeyData(hours, changeable), [keyName |-> DurationKey])
    /\ view' = [view EXCEPT !.duration = [value |-> hours, isChangeable |-> changeable]]
    /\ Call(<<"duration", hours, changeable>>)
    /\ UNCHANGED <<loadControl, electricalConnection, added, running, handlers>>

SetNominalMax(uc, value) ==
    LET found == GetCharacteristicsForFilter(electricalConnection, CharacteristicFilter(uc))
    IN /\ uc \in added /\ found # {}
       /\ electricalConnection' = UpdateCharacteristic(electricalConnection,
             [electricalConnectionId |-> 0, parameterId |-> 0,
              characteristicId |-> First(found, "characteristicId").characteristicId,
              characteristicType |-> Nil, value |-> value])
       /\ Call(<<"nominal", uc, value>>)
       /\ UNCHANGED <<loadControl, deviceConfiguration, added, running, handlers, view>>

SetConsumptionNominalMax(value) == SetNominalMax("lpc", value)
SetProductionNominalMax(value) == SetNominalMax("lpp", value)

-----------------------------------------------------------------------------
(* The remote device writes.  SPINE takes a write over as a whole, once it *)
(* is approved and if every item of it may be changed (external).          *)

Raise(kind, payload) ==
    handlers' = handlers \union [uc : UseCases, kind : {kind}, payload : {payload}]

Own(uc) == LoadControlServerAndLimitId(uc)

WriteLimits(items) ==
    LET payload == {[limitId |-> Own(i.uc), value |-> i.value, isLimitActive |-> i.isLimitActive,
                     isLimitChangeable |-> Nil, timePeriod |-> i.timePeriod] : i \in items}
    IN /\ running
       /\ \A i \in items : i.uc \in added /\ LimitOf(i.uc).isChangeable
       /\ loadControl' = [loadControl EXCEPT !.data = UpdateData(@, payload, {"limitId"})]
       /\ Raise("limits", payload)
       /\ Call(<<"write limits", {i.uc : i \in items}>>)
       /\ UNCHANGED <<deviceConfiguration, electricalConnection, added, running, view>>

KeyIdOf(key) ==
    First(GetKeyValueDescriptionsForFilter(deviceConfiguration, [keyName |-> key]), "keyId").keyId

\* written gives values to some of the failsafe keys.
WriteFailsafe(written) ==
    LET payload == {[keyId |-> KeyIdOf(k), value |-> written[k], isValueChangeable |-> Nil] :
                       k \in DOMAIN written}
    IN /\ running
       /\ \A k \in DOMAIN written : KeyValue(k) # Nil /\ KeyValue(k).isChangeable
       /\ deviceConfiguration' = [deviceConfiguration EXCEPT !.data = UpdateData(@, payload, {"keyId"})]
       /\ Raise("failsafe", payload)
       /\ Call(<<"write failsafe", {uc \in UseCases : FailsafeKey(uc) \in DOMAIN written},
                       DurationKey \in DOMAIN written>>)
       /\ UNCHANGED <<loadControl, electricalConnection, added, running, view>>

-----------------------------------------------------------------------------
(* Event handlers; the callback reads the value it is told about.          *)

LoadControlLimitDataUpdate(h) ==
    IF LimitPayloadMatches(loadControl, h.payload, LimitFilter(h.uc))
    THEN [view EXCEPT !.limit[h.uc] = LimitOf(h.uc)] ELSE view

ConfigurationDataUpdate(h) ==
    LET matches(key) == KeyPayloadMatches(deviceConfiguration, h.payload, [keyName |-> key])
    IN [view EXCEPT
          !.failsafe[h.uc] = IF matches(FailsafeKey(h.uc)) THEN KeyValue(FailsafeKey(h.uc)) ELSE @,
          !.duration = IF matches(DurationKey) THEN FailsafeDurationMinimum ELSE @]

HandleEvent(h) ==
    /\ h \in handlers
    /\ handlers' = handlers \ {h}
    /\ view' = IF h.uc \notin added THEN view
               ELSE IF h.kind = "limits" THEN LoadControlLimitDataUpdate(h)
               ELSE ConfigurationDataUpdate(h)
    /\ UNCHANGED <<features, added, running, request, calls>>

-----------------------------------------------------------------------------

Next ==
    \/ \E uc \in UseCases : AddUseCase(uc)
    \/ \E l \in Limits : SetConsumptionLimit(l) \/ SetProductionLimit(l)
    \/ \E v \in Powers, c \in BOOLEAN : \/ SetFailsafeConsumptionActivePowerLimit(v, c)
                                       \/ SetFailsafeProductionActivePowerLimit(v, c)
    \/ \E v \in Powers : SetConsumptionNominalMax(v) \/ SetProductionNominalMax(v)
    \/ \E d \in Durations, c \in BOOLEAN : SetFailsafeDurationMinimum(d, c)
    \/ Start
    \/ \E items \in (SUBSET LimitItems) \ {{}} :
          (\A i, j \in items : i.uc = j.uc => i = j) /\ WriteLimits(items)
    \/ \E written \in KeyWrites : WriteFailsafe(written)
    \/ \E h \in handlers : HandleEvent(h)

Spec == Init /\ [][Next]_vars

-----------------------------------------------------------------------------
(* Properties *)

UniqueIn(list, key) == \A a, b \in list : a[key] = b[key] => a = b

\* Types, and one item per identifier in every list (features/server).
TypeOK ==
    /\ added \subseteq UseCases /\ running \in BOOLEAN
    /\ UniqueIn(loadControl.descs, "limitId") /\ UniqueIn(loadControl.data, "limitId")
    /\ UniqueIn(deviceConfiguration.descs, "keyId") /\ UniqueIn(deviceConfiguration.data, "keyId")
    /\ UniqueIn(electricalConnection.chars, "characteristicId")
    /\ loadControl.data \subseteq LimitItem
    /\ {i.keyId : i \in deviceConfiguration.data} \subseteq Nat
    /\ \A uc \in UseCases : /\ view.limit[uc] \in LoadLimit \union {Nil}
                            /\ view.failsafe[uc] \in Setting \union {Nil}
    /\ view.duration \in Setting \union {Nil}

Registers == INSTANCE NamedValues WITH
    limit <- [uc \in UseCases |-> IF uc \in added THEN LimitOf(uc) ELSE Nil],
    failsafe <- [uc \in UseCases |-> KeyValue(FailsafeKey(uc))],
    duration <- FailsafeDurationMinimum,
    nominal <- [uc \in UseCases |-> NominalMaxOf(uc)],
    Undefined <- Nil,
    InitialLimit <- [value |-> 0, isChangeable |-> TRUE, isActive |-> FALSE, duration |-> 0],
    Permitted <- PermittedDurations

\* The shared features act as independent named registers: a call changes the
\* value it names, to what was asked for, and no value of the other use case,
\* whichever use case was added first (features/server, AddFeatures, setters
\* and getters of cs/lpc and cs/lpp).
ActsAsRegisters == Registers!Spec

\* Once all events are handled the application has been told of the last
\* change of each limit and each failsafe value (HandleEvent of cs/lpc and
\* cs/lpp, CheckEventPayloadDataForFilter).
ApplicationInformed ==
    handlers = {} =>
        /\ \A uc \in added : /\ view.limit[uc] = LimitOf(uc)
                             /\ view.failsafe[uc] = KeyValue(FailsafeKey(uc))
        /\ view.duration = FailsafeDurationMinimum

=============================================================================
