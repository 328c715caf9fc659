----------------------------- MODULE EnergyGuard -----------------------------
(***************************************************************************)
(* The energy guard's writes (usecases/eg/lpc, usecases/eg/lpp,            *)
(* usecases/internal/loadcontrol.go, features/client): limits and failsafe *)
(* values of one remote device.  Both use cases share the client features  *)
(* and the copy of the device's lists that these keep.  A write goes to    *)
(* the device as a message; the device decides, answers and tells of the   *)
(* new list; the callback for the answer is registered after the message   *)
(* was sent.                                                               *)
(***************************************************************************)
EXTENDS ServerFeatures

CONSTANTS
    LoadLimits,    \* for each use case the limits the application asks for
    Powers,        \* failsafe limits it asks for
    Durations,     \* failsafe durations in hours it asks for
    DeviceLimits,  \* limits the device sets by itself
    MaxWrites,     \* bound: writes of the application
    MaxChanges     \* bound: changes the device makes by itself

UseCases == {"lpc", "lpp"}
Limit == [value : Nat, isActive : BOOLEAN, duration : Nat, deleteDuration : BOOLEAN]

\* A time that has ended is not kept: a period is positive or not set.
LimitItem == [limitId : Nat, value : Nat, isLimitActive : BOOLEAN,
              isLimitChangeable : BOOLEAN \union {Nil}, timePeriod : (Nat \ {0}) \union {Nil}]

ASSUME EnergyGuardAssumption ==
    /\ LoadLimits \in [UseCases -> SUBSET Limit] /\ Powers \subseteq Nat /\ Durations \subseteq Nat
    /\ DeviceLimits \subseteq [value : Nat, isLimitActive : BOOLEAN,
                               isLimitChangeable : BOOLEAN, timePeriod : (Nat \ {0}) \union {Nil}]
    /\ MaxWrites \in Nat /\ MaxChanges \in Nat
    /\ Nil \notin Nat \union BOOLEAN \union [limitId : Nat]

VARIABLES
    partial,      \* the device supports writing parts of its lists
    device,       \* the lists of the device: limits and keys
    cache,        \* the copy of its lists that the client features read
    toDevice, toGuard,  \* messages under way
    registering,  \* writes that were sent and whose callback is not registered yet
    callbacks,    \* writes with a registered callback
    writes,       \* history of the writes: what was asked for, decided and told
    held,         \* history: values each register had, and Nil for keys:
                  \* the guard may not have read them
    changes       \* changes of the device so far, up to MaxChanges

vars == <<partial, device, cache, toDevice, toGuard, registering, callbacks, writes, held, changes>>

-----------------------------------------------------------------------------
(* Descriptions the guard has read *)

LimitDirection(uc) == IF uc = "lpc" THEN "consume" ELSE "produce"
LimitId(uc) == IF uc = "lpc" THEN 0 ELSE 1
FailsafeKey(uc) == IF uc = "lpc" THEN "failsafeConsumption" ELSE "failsafeProduction"
DurationKey == "failsafeDurationMinimum"
KeyId(key) == CASE key = DurationKey -> 0 [] key = FailsafeKey("lpc") -> 1
                [] key = FailsafeKey("lpp") -> 2
Keys == {DurationKey} \union {FailsafeKey(uc) : uc \in UseCases}

Descriptions ==
    [limits |-> {[limitId |-> LimitId(uc), limitType |-> "signDependentAbsValueLimit",
                  limitDirection |-> LimitDirection(uc), scopeType |-> "activePowerLimit"] :
                    uc \in UseCases},
     keys |-> {[keyId |-> KeyId(k), keyName |-> k] : k \in Keys}]

Cached(list) == [descs |-> Descriptions[list], data |-> cache[list]]
IdOf == [limits |-> "limitId", keys |-> "keyId"]

LimitFilter(uc) == [limitType |-> "signDependentAbsValueLimit",
                    limitDirection |-> LimitDirection(uc), scopeType |-> "activePowerLimit"]

-----------------------------------------------------------------------------
(* Registers of the device, for the properties and the history *)

ListOf == [r \in UseCases \union Keys |-> IF r \in UseCases THEN "limits" ELSE "keys"]

ValueIn(lists, r) ==
    IF r \in UseCases THEN CHOOSE item \in lists.limits : item.limitId = LimitId(r)
    ELSE LET found == SearchFilterInList(lists.keys, [keyId |-> KeyId(r)])
         IN IF found = {} THEN Nil ELSE First(found, "keyId").value

Held(lists) == [r \in DOMAIN held |-> held[r] \union {ValueIn(lists, r)}]

-----------------------------------------------------------------------------

Init ==
    /\ partial \in BOOLEAN
    /\ device = [limits |-> {[limitId |-> LimitId(uc), value |-> 0, isLimitActive |-> TRUE,
                              isLimitChangeable |-> TRUE, timePeriod |-> 3] : uc \in UseCases},
                 keys |-> {[keyId |-> KeyId(k), value |-> 2] : k \in Keys}]
    /\ cache = [limits |-> {}, keys |-> {}]
    /\ toDevice = <<>>
    /\ toGuard = <<[list |-> "limits", data |-> device.limits], [list |-> "keys", data |-> device.keys]>>
    /\ registering = {} /\ callbacks = {}
    /\ writes = <<>>
    /\ held = [r \in DOMAIN ListOf |-> {ValueIn(device, r)} \union IF r \in Keys THEN {Nil} ELSE {}]
    /\ changes = 0

-----------------------------------------------------------------------------
(* Writes.  A call that returns an error changes nothing. *)

\* Mutant: the partial filter is forgotten.
MessageWhole(list, item, deletion) ==
    [list |-> list, whole |-> TRUE, data |-> {item}, deletion |-> deletion]

\* Without partial writes the cached list goes with it.
Message(list, item, deletion) ==
    IF partial
    THEN [list |-> list, whole |-> FALSE, data |-> {item}, deletion |-> deletion]
    ELSE [list |-> list, whole |-> TRUE, deletion |-> NoDeletion,
          data |-> UpdateData(Deleted(cache[list], deletion), {item}, {IdOf[list]})]

Send(register, request, message) ==
    /\ Len(writes) < MaxWrites
    /\ toDevice' = Append(toDevice, message)
    /\ writes' = Append(writes, [register |-> register, request |-> request,
                                 decision |-> "open", told |-> "none"])
    /\ UNCHANGED <<partial, device, cache, toGuard, callbacks, held, changes>>

\* Mutant: a duration of 0 becomes a period that has ended.
PeriodAlways(duration) == duration

Period(duration) == IF duration > 0 THEN duration ELSE Nil

LimitDeletion(id, limit) ==
    IF limit.deleteDuration THEN [selector |-> [limitId |-> id], elements |-> {"timePeriod"}]
    ELSE NoDeletion

WriteLoadControlLimit(uc, limit) ==
    LET current == GetLimitDataForFilter(Cached("limits"), LimitFilter(uc))
        item == First(current, "limitId")
        new == [limitId |-> item.limitId, value |-> limit.value, isLimitActive |-> limit.isActive,
                isLimitChangeable |-> Nil, timePeriod |-> Period(limit.duration)]
    IN /\ Cardinality(current) = 1 /\ item.isLimitChangeable # FALSE
       /\ Send(uc, limit, Message("limits", new, LimitDeletion(item.limitId, limit)))
       /\ registering' = registering \union {Len(writes) + 1}

WriteConsumptionLimit(limit) == WriteLoadControlLimit("lpc", limit)
WriteProductionLimit(limit) == WriteLoadControlLimit("lpp", limit)

\* No callback: the application only gets the number of the message.
WriteKeyValue(key, keyId, value) ==
    /\ Send(key, value, Message("keys", [keyId |-> keyId, value |-> value], NoDeletion))
    /\ UNCHANGED registering

\* The key has to be described, its value need not be known.
WriteFailsafeActivePowerLimit(uc, value) ==
    LET found == GetKeyValueDescriptionsForFilter(Cached("keys"), [keyName |-> FailsafeKey(uc)])
    IN /\ Cardinality(found) = 1
       /\ WriteKeyValue(FailsafeKey(uc), First(found, "keyId").keyId, value)

WriteFailsafeConsumptionActivePowerLimit(value) == WriteFailsafeActivePowerLimit("lpc", value)
WriteFailsafeProductionActivePowerLimit(value) == WriteFailsafeActivePowerLimit("lpp", value)

PermittedDurations == 2..24

WriteFailsafeDurationMinimum(hours) ==
    LET found == GetKeyValueDataForFilter(Cached("keys"), [keyName |-> DurationKey])
    IN /\ hours \in PermittedDurations
       /\ found # {}
       /\ WriteKeyValue(DurationKey, First(found, "keyId").keyId, hours)

\* Mutant: one callback for the feature, the latest.
RegisteredLatest(n) == {n}

Registered(n) == callbacks \union {n}

AddResponseCallback(n) ==
    /\ n \in registering
    /\ registering' = registering \ {n}
    /\ callbacks' = Registered(n)
    /\ UNCHANGED <<partial, device, cache, toDevice, toGuard, writes, held, changes>>

-----------------------------------------------------------------------------
(* The device (external).  It decides about the writes in their order; the *)
(* answer and the news of the changed list may come in either order.       *)

NextWrite == CHOOSE n \in DOMAIN writes : /\ writes[n].decision = "open"
                                          /\ \A m \in 1..(n - 1) : writes[m].decision # "open"

DeviceAccepts ==
    LET m == Head(toDevice)
        lists == [device EXCEPT ![m.list] =
                     IF m.whole THEN m.data
                     ELSE UpdateData(Deleted(@, m.deletion), m.data, {IdOf[m.list]})]
        notify == [list |-> m.list, data |-> lists[m.list]]
        result == [answers |-> NextWrite, result |-> "accepted"]
    IN /\ toDevice # <<>>
       /\ toDevice' = Tail(toDevice)
       /\ device' = lists /\ held' = Held(lists)
       /\ writes' = [writes EXCEPT ![NextWrite].decision = "accepted"]
       /\ \E order \in {<<result, notify>>, <<notify, result>>} : toGuard' = toGuard \o order
       /\ UNCHANGED <<partial, cache, registering, callbacks, changes>>

DeviceDenies ==
    /\ toDevice # <<>>
    /\ toDevice' = Tail(toDevice)
    /\ writes' = [writes EXCEPT ![NextWrite].decision = "denied"]
    /\ toGuard' = Append(toGuard, [answers |-> NextWrite, result |-> "denied"])
    /\ UNCHANGED <<partial, device, cache, registering, callbacks, held, changes>>

DeviceChanges(uc, limit) ==
    LET item == [limitId |-> LimitId(uc), value |-> limit.value, isLimitActive |-> limit.isLimitActive,
                 isLimitChangeable |-> limit.isLimitChangeable, timePeriod |-> limit.timePeriod]
        lists == [device EXCEPT !.limits =
                     {IF i.limitId = item.limitId THEN item ELSE i : i \in @}]
    IN /\ changes < MaxChanges /\ changes' = changes + 1
       /\ lists # device
       /\ device' = lists /\ held' = Held(lists)
       /\ toGuard' = Append(toGuard, [list |-> "limits", data |-> lists.limits])
       /\ UNCHANGED <<partial, cache, toDevice, registering, callbacks, writes>>

-----------------------------------------------------------------------------
(* Messages of the device *)

ReceiveList ==
    LET m == Head(toGuard)
    IN /\ toGuard # <<>> /\ "list" \in DOMAIN m
       /\ toGuard' = Tail(toGuard)
       /\ cache' = [cache EXCEPT ![m.list] = m.data]
       /\ UNCHANGED <<partial, device, toDevice, registering, callbacks, writes, held, changes>>

\* An answer nobody registered for is dropped.
ReceiveAnswer ==
    LET m == Head(toGuard)
    IN /\ toGuard # <<>> /\ "answers" \in DOMAIN m
       /\ toGuard' = Tail(toGuard)
       /\ callbacks' = callbacks \ {m.answers}
       /\ writes' = IF m.answers \in callbacks THEN [writes EXCEPT ![m.answers].told = m.result]
                    ELSE writes
       /\ UNCHANGED <<partial, device, cache, toDevice, registering, held, changes>>

-----------------------------------------------------------------------------

Next ==
    \/ \E l \in LoadLimits["lpc"] : WriteConsumptionLimit(l)
    \/ \E l \in LoadLimits["lpp"] : WriteProductionLimit(l)
    \/ \E v \in Powers : \/ WriteFailsafeConsumptionActivePowerLimit(v)
                        \/ WriteFailsafeProductionActivePowerLimit(v)
    \/ \E uc \in UseCases, l \in DeviceLimits : DeviceChanges(uc, l)
    \/ \E d \in Durations : WriteFailsafeDurationMinimum(d)
    \/ \E n \in registering : AddResponseCallback(n)
    \/ DeviceAccepts \/ DeviceDenies
    \/ ReceiveList \/ ReceiveAnswer

\* The device decides in the end and its messages arrive.
Spec == /\ Init /\ [][Next]_vars
        /\ WF_vars(DeviceAccepts \/ DeviceDenies)
        /\ WF_vars(ReceiveList) /\ WF_vars(ReceiveAnswer)

-----------------------------------------------------------------------------
(* Properties *)

UniqueIn(list, key) == \A a, b \in list : a[key] = b[key] => a = b

\* Types of the lists on both sides, one item per identifier: no write leaves
\* an item without an active flag or with a period that is over
\* (WriteLoadControlLimit, WriteLimitData, WriteKeyValues).
TypeOK ==
    /\ \A lists \in {device, cache} :
          /\ lists.limits \subseteq LimitItem /\ UniqueIn(lists.limits, "limitId")
          /\ lists.keys \subseteq [keyId : Nat, value : Nat] /\ UniqueIn(lists.keys, "keyId")
    /\ registering \union callbacks \subseteq DOMAIN writes
    /\ registering \intersect callbacks = {}

\* What a register holds after a write that the device takes.
Requested(r, old, request) ==
    IF r \in UseCases
    THEN [old EXCEPT !.value = request.value, !.isLimitActive = request.isActive,
                     !.timePeriod = IF request.duration > 0 THEN request.duration
                                    ELSE IF request.deleteDuration THEN Nil ELSE @]
    ELSE request

RemoteRegistersSpec == INSTANCE RemoteRegisters WITH
    value <- [r \in DOMAIN ListOf |-> ValueIn(device, r)],
    Requests <- [r \in DOMAIN ListOf |-> IF r \in UseCases THEN LoadLimits[r]
                                         ELSE IF r = DurationKey THEN PermittedDurations ELSE Powers]

\* The device's values act as registers towards the application: a write of
\* one use case changes, once and as asked for, its own value only, although
\* both share the features and the cached lists; a duration of 0 keeps the
\* period unless it is to be deleted; an answer told is the answer to that
\* write.  Only where the device takes whole lists may the copy that goes
\* along bring back earlier values (WriteLoadControlLimit, WriteLimitData,
\* WriteKeyValues).
ActsAsRemoteRegisters == RemoteRegistersSpec!Spec

AnswerUnderWay(n) ==
    \/ writes[n].decision = "open"
    \/ \E i \in DOMAIN toGuard : "answers" \in DOMAIN toGuard[i] /\ toGuard[i].answers = n

\* A callback that is registered when the answer comes is told, whatever other
\* writes are under way (WriteLoadControlLimit, AddResponseCallback).  That
\* the answer comes later than the registration is up to chance.
EventuallyAnswered ==
    \A n \in 1..MaxWrites :
        (n \in callbacks /\ AnswerUnderWay(n)) ~> (n \in DOMAIN writes /\ writes[n].told # "none")

=============================================================================
