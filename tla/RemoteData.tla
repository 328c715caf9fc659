------------------------------ MODULE RemoteData ------------------------------
(***************************************************************************)
(* How the client use cases (ma/mgcp, cem/vabd, cem/vapd, eg/lpc, eg/lpp)  *)
(* get the data of a remote entity and tell the application about it.      *)
(* When the entity is added each of them subscribes to features and asks   *)
(* for descriptions; when descriptions arrive it asks for the data; when   *)
(* data arrive it calls the application, which reads the value anew.       *)
(* Events are handled in goroutines of their own, subscriptions and the    *)
(* data received are shared by all use cases.  Messages stay in order in   *)
(* both directions, and the remote device answers in order (external).     *)
(***************************************************************************)
EXTENDS Readings, Bags, SequencesExt

CONSTANTS
    Entities,    \* remote entities, one of which is added; data[part][version] is what it publishes
    MaxVersion   \* bound: versions of each value, the first is 1

\* SPINE lists; a part is what can be asked for and changes on its own.
Lists == {{"keyDescs"}, {"keyValues"}, {"ecDescs"}, {"ecParams"}, {"ecChars"},
          {"mDescs"}, {"mConstraints"}, {"mData"}, {"heartbeat"},
          {"consumeDesc", "produceDesc"}, {"consumeLimit", "produceLimit"}}
Parts == UNION Lists
ValueParts == {"keyValues", "mData", "heartbeat", "consumeLimit", "produceLimit"}
ListOf(part) == CHOOSE list \in Lists : part \in list

FeatureOf(part) ==
    CASE part \in {"keyDescs", "keyValues"} -> "DeviceConfiguration"
      [] part \in {"ecDescs", "ecParams", "ecChars"} -> "ElectricalConnection"
      [] part \in {"mDescs", "mConstraints", "mData"} -> "Measurement"
      [] part = "heartbeat" -> "DeviceDiagnosis"
      [] OTHER -> "LoadControl"

UseCases == {"mgcp", "vabd", "vapd", "egLpc", "egLpp"}

\* A list is readable or not, whatever part of it is asked for.
ASSUME RemoteDataAssumption ==
    /\ MaxVersion \in Nat \ {0}
    /\ Nil \notin Nat \union {"DataNotAvailable", "MetadataNotAvailable", "DataInvalid"} \union Seq(Nat)
                   \union [value : Nat, isChangeable : BOOLEAN, isActive : BOOLEAN, duration : Nat]
    /\ \A e \in Entities :
          LET lists == {{}} \union {e.data[p][1] : p \in {"ecDescs", "ecParams", "ecChars"}}
          IN  Nil \notin [descs : lists, params : lists, chars : lists]
    /\ \A e \in Entities :
          /\ e.useCases \subseteq UseCases /\ e.partial \in BOOLEAN
          /\ e.features \subseteq {FeatureOf(p) : p \in Parts}
          /\ \A list \in Lists : list \subseteq e.readable \/ list \intersect e.readable = {}

-----------------------------------------------------------------------------
(* What an entity publishes                                                *)

\* The items of a part and the field that identifies them.
IdOf(part) ==
    CASE part \in {"keyDescs", "keyValues"} -> "keyId"
      [] part \in {"mDescs", "mData"} -> "measurementId"
      [] OTHER -> "limitId"

WellFormed(part, list) ==
    /\ IsFiniteSet(list)
    /\ \A i \in list : i[IdOf(part)] \in Nat
    /\ \A i, j \in list : i[IdOf(part)] = j[IdOf(part)] => i = j
    /\ part \in ValueParts => \A i \in list : i.value \in Nat \union {Nil}
    /\ part \in {"consumeLimit", "produceLimit"} => \A i \in list : i.timePeriod \in Nat \union {Nil}

\* An item that was published stays, and keeps having a value if it had one.
Kept(part, before, after) ==
    \A i \in before : \E j \in after :
        /\ j[IdOf(part)] = i[IdOf(part)]
        /\ i.value # Nil => j.value # Nil

\* The parts of the list of limits belong to one direction each.
Direction == [consumeDesc |-> "consume", produceDesc |-> "produce"]
LimitOf == [consumeDesc |-> "consumeLimit", produceDesc |-> "produceLimit"]

\* What a use case must be allowed to read to know the values of its scenarios.
Needs == [mgcp |-> {"keyDescs", "keyValues", "ecDescs", "ecParams", "mDescs", "mData"},
          vabd |-> {"mDescs", "mData"},
          vapd |-> {"keyDescs", "keyValues", "mDescs", "mData"},
          egLpc |-> {"keyDescs", "keyValues", "consumeDesc", "consumeLimit"},
          egLpp |-> {"keyDescs", "keyValues", "produceDesc", "produceLimit"}]

\* Descriptions do not change, values are not withdrawn, and what a use case needs
\* may be read.
ASSUME EntitiesAssumption ==
    \A e \in Entities :
        /\ e.changing \subseteq ValueParts
        /\ \A uc \in e.useCases : \A p \in Needs[uc] : FeatureOf(p) \in e.features => p \in e.readable
        /\ \A p \in {"keyDescs", "mDescs"} \union DOMAIN LimitOf \union (ValueParts \ {"heartbeat"}) :
              \A v \in 1..MaxVersion : WellFormed(p, e.data[p][v])
        /\ \A p \in ValueParts \ {"heartbeat"}, v, w \in 1..MaxVersion :
              v <= w => Kept(p, e.data[p][v], e.data[p][w])
        /\ \A desc, other \in DOMAIN LimitOf : \A d \in e.data[desc][1] :
              /\ d.limitDirection = Direction[desc]
              /\ \A v \in 1..MaxVersion : \A i \in e.data[LimitOf[other]][v] :
                    d.limitId = i.limitId => desc = other

VARIABLES
    entity,    \* the remote entity
    version,   \* the data of its parts; Nil where it has no such feature
    served,    \* features it sends notifications of
    cache,     \* the parts received, as far as they are
    links,     \* subscriptions and bindings of the local client features
    outbox,    \* messages to the remote device
    inbox,     \* messages from it
    handlers,  \* bag of events that are not handled yet
    view       \* what the application read when it was last told

vars == <<entity, version, served, cache, links, outbox, inbox, handlers, view>>

-----------------------------------------------------------------------------
(* What each use case asks for when its entity is added: per feature,      *)
(* whether it binds, and the parts it reads.                               *)

Ask(feature, binds, reads) == [feature |-> feature, binds |-> binds, reads |-> reads]

\* Mutant: the electrical connection is asked for last.
GridConnectedLate ==
    <<Ask("DeviceConfiguration", FALSE, <<"keyDescs">>),
      Ask("Measurement", FALSE, <<"mDescs", "mConstraints">>),
      Ask("ElectricalConnection", FALSE, <<"ecDescs", "ecParams">>)>>

GridConnected ==
    <<Ask("DeviceConfiguration", FALSE, <<"keyDescs">>),
      Ask("ElectricalConnection", FALSE, <<"ecDescs", "ecParams">>),
      Ask("Measurement", FALSE, <<"mDescs", "mConstraints">>)>>

VabdInverterConnected ==
    <<Ask("ElectricalConnection", FALSE, <<"ecDescs", "ecParams">>),
      Ask("Measurement", FALSE, <<"mDescs", "mConstraints">>)>>

VapdInverterConnected ==
    <<Ask("DeviceConfiguration", FALSE, <<"keyDescs">>),
      Ask("ElectricalConnection", FALSE, <<"ecDescs", "ecParams">>),
      Ask("Measurement", FALSE, <<"mDescs", "mConstraints">>)>>

EgLpcConnected ==
    <<Ask("LoadControl", TRUE, <<"consumeDesc">>),
      Ask("DeviceConfiguration", TRUE, <<"keyDescs">>),
      Ask("DeviceDiagnosis", FALSE, <<"heartbeat">>)>>

EgLppConnected ==
    <<Ask("LoadControl", TRUE, <<"produceDesc">>),
      Ask("DeviceConfiguration", TRUE, <<"keyDescs">>),
      Ask("DeviceDiagnosis", FALSE, <<"heartbeat">>)>>

Connected == [mgcp |-> GridConnected, vabd |-> VabdInverterConnected, vapd |-> VapdInverterConnected,
              egLpc |-> EgLpcConnected, egLpp |-> EgLppConnected]

-----------------------------------------------------------------------------
(* The data of an entity as the lookups see it *)

Items(versions, part) == IF versions[part] = Nil THEN {} ELSE entity.data[part][versions[part]]

EntityData(versions) ==
    LET I(part) == Items(versions, part)
    IN [dc |-> [descs |-> I("keyDescs"), data |-> I("keyValues")],
        ec |-> IF "ElectricalConnection" \notin entity.features THEN Nil
               ELSE [descs |-> I("ecDescs"), params |-> I("ecParams"), chars |-> I("ecChars")],
        m |-> [descs |-> I("mDescs"), data |-> I("mData")],
        dd |-> versions["heartbeat"],
        lc |-> [descs |-> I("consumeDesc") \union I("produceDesc"),
                data |-> I("consumeLimit") \union I("produceLimit")]]

-----------------------------------------------------------------------------
(* Which values the application is told of when data arrive: per use case, *)
(* from the payload and the descriptions held.                             *)

\* The values whose measurements, by their scope, are in the payload.
InMeasurements(m, payload, scopes) ==
    {q \in DOMAIN scopes : MeasurementPayloadMatches(m, payload, [scopeType |-> scopes[q]])}

MgcpMeasurementDataUpdate(e, payload) ==
    InMeasurements(e.m, payload,
        [mgcpPower |-> "acPowerTotal", mgcpFeedIn |-> "gridFeedIn", mgcpConsumed |-> "gridConsumption",
         mgcpCurrent |-> "acCurrent", mgcpVoltage |-> "acVoltage", mgcpFrequency |-> "acFrequency"])

VabdMeasurementDataUpdate(e, payload) ==
    InMeasurements(e.m, payload,
        [vabdPower |-> "acPowerTotal", vabdCharged |-> "charge", vabdDischarged |-> "discharge",
         vabdStateOfCharge |-> "stateOfCharge"])

VapdMeasurementDataUpdate(e, payload) ==
    InMeasurements(e.m, payload, [vapdPower |-> "acPowerTotal", vapdYield |-> "acYieldTotal"])

InKeys(dc, payload, keys) ==
    {q \in DOMAIN keys : KeyPayloadMatches(dc, payload, [keyName |-> keys[q]])}

MgcpConfigurationDataUpdate(e, payload) ==
    InKeys(e.dc, payload, [mgcpFactor |-> "pvCurtailmentLimitFactor"])

VapdConfigurationDataUpdate(e, payload) ==
    IF KeyPayloadMatches(e.dc, payload, [keyName |-> "peakPowerOfPvSystem", valueType |-> "scaledNumber"])
    THEN {"vapdPeak"} ELSE {}

EgLpcConfigurationDataUpdate(e, payload) ==
    InKeys(e.dc, payload, [egLpcFailsafe |-> "failsafeConsumption", egLpcDuration |-> "failsafeDurationMinimum"])

EgLppConfigurationDataUpdate(e, payload) ==
    InKeys(e.dc, payload, [egLppFailsafe |-> "failsafeProduction", egLppDuration |-> "failsafeDurationMinimum"])

EgLimitFilter(direction) == [limitDirection |-> direction, scopeType |-> "activePowerLimit"]

\* Mutant: the limit is looked up with the other direction.
EgLpcLimitDataUpdateOther(e, payload) ==
    IF LimitPayloadMatches(e.lc, payload, EgLimitFilter("produce")) THEN {"egLpcLimit"} ELSE {}

EgLpcLimitDataUpdate(e, payload) ==
    IF LimitPayloadMatches(e.lc, payload, EgLimitFilter("consume")) THEN {"egLpcLimit"} ELSE {}

EgLppLimitDataUpdate(e, payload) ==
    IF LimitPayloadMatches(e.lc, payload, EgLimitFilter("produce")) THEN {"egLppLimit"} ELSE {}

Values ==
    [mgcp |-> {"mgcpFactor", "mgcpPower", "mgcpFeedIn", "mgcpConsumed", "mgcpCurrent", "mgcpVoltage",
               "mgcpFrequency"},
     vabd |-> {"vabdPower", "vabdCharged", "vabdDischarged", "vabdStateOfCharge"},
     vapd |-> {"vapdPeak", "vapdPower", "vapdYield"},
     egLpc |-> {"egLpcLimit", "egLpcFailsafe", "egLpcDuration", "egLpcHeartbeat"},
     egLpp |-> {"egLppLimit", "egLppFailsafe", "egLppDuration", "egLppHeartbeat"}]

Heartbeats == {"egLpcHeartbeat", "egLppHeartbeat"}

OnMGCPEvent(q, e) ==
    CASE q = "mgcpFactor" -> MgcpPowerLimitationFactor(e)
      [] q = "mgcpPower" -> MgcpPower(e)
      [] q = "mgcpFeedIn" -> MgcpEnergyFeedIn(e)
      [] q = "mgcpConsumed" -> MgcpEnergyConsumed(e)
      [] q = "mgcpCurrent" -> MgcpCurrentPerPhase(e)
      [] q = "mgcpVoltage" -> MgcpVoltagePerPhase(e)
      [] q = "mgcpFrequency" -> MgcpFrequency(e)

\* The application of the other use cases reads what it is told of as well.
Read(q, e) ==
    CASE q \in Values.mgcp -> OnMGCPEvent(q, e)
      [] q = "vabdPower" -> VabdPower(e)
      [] q = "vabdCharged" -> VabdEnergyCharged(e)
      [] q = "vabdDischarged" -> VabdEnergyDischarged(e)
      [] q = "vabdStateOfCharge" -> VabdStateOfCharge(e)
      [] q = "vapdPeak" -> VapdPowerNominalPeak(e)
      [] q = "vapdPower" -> VapdPower(e)
      [] q = "vapdYield" -> VapdPVYieldTotal(e)
      [] q = "egLpcLimit" -> EgLpcConsumptionLimit(e)
      [] q = "egLpcFailsafe" -> EgLpcFailsafeLimit(e)
      [] q = "egLpcDuration" -> EgLpcFailsafeDurationMinimum(e)
      [] q = "egLppLimit" -> EgLppProductionLimit(e)
      [] q = "egLppFailsafe" -> EgLppFailsafeLimit(e)
      [] q = "egLppDuration" -> EgLppFailsafeDurationMinimum(e)
      [] q \in Heartbeats -> IF e.dd = Nil THEN NotAvailable ELSE Ok(e.dd)

ValuesOf(useCases) == UNION {Values[uc] : uc \in useCases}

-----------------------------------------------------------------------------

EntityAdded(uc) == [useCase |-> uc, event |-> "added", todo |-> Connected[uc], parts |-> {}, payload |-> {}]

Init ==
    /\ entity \in Entities
    /\ version = [p \in Parts |-> IF FeatureOf(p) \in entity.features THEN 1 ELSE Nil]
    /\ served = {} /\ links = {}
    /\ cache = [p \in Parts |-> Nil]
    /\ outbox = <<>> /\ inbox = <<>>
    /\ handlers = SetToBag({EntityAdded(uc) : uc \in entity.useCases})
    /\ view = [q \in ValuesOf(entity.useCases) |-> Nil]

-----------------------------------------------------------------------------
(* Requests *)

Message(kind, feature, parts) == [kind |-> kind, feature |-> feature, parts |-> parts]

\* Mutant: the test for a link is inverted.
LinkAgain(kind, feature) ==
    IF <<kind, feature>> \in links THEN <<Message(kind, feature, {})>> ELSE <<>>

\* A link is asked for once, however many use cases want it.
Link(kind, feature) ==
    IF <<kind, feature>> \in links THEN <<>> ELSE <<Message(kind, feature, {})>>

\* Mutant: whether the entity lets the data be read is not checked.
RequestDataUnchecked(parts) ==
    LET part == CHOOSE p \in parts : TRUE
    IN <<Message("read", FeatureOf(part), IF entity.partial THEN parts ELSE ListOf(part))>>

\* requestData: what the entity does not let read is not asked for; without
\* partial reads the whole list is.
RequestData(parts) ==
    LET part == CHOOSE p \in parts : TRUE
    IN IF ~(parts \subseteq entity.readable) THEN <<>>
       ELSE <<Message("read", FeatureOf(part), IF entity.partial THEN parts ELSE ListOf(part))>>

-----------------------------------------------------------------------------
(* HandleEvent of the use cases *)

Take(h) == h \in DOMAIN handlers

\* One feature of an added entity: subscribe, bind, ask for descriptions.  A
\* feature that the entity does not have is passed over.
ConnectFeature(h) ==
    LET ask == Head(h.todo)
        kinds == IF ask.binds THEN <<"subscribe", "bind">> ELSE <<"subscribe">>
        rest == [h EXCEPT !.todo = Tail(@)]
    IN /\ Take(h) /\ h.event = "added"
       /\ handlers' = (handlers (-) SetToBag({h}))
                      (+) (IF rest.todo = <<>> THEN EmptyBag ELSE SetToBag({rest}))
       /\ IF ask.feature \notin entity.features THEN UNCHANGED <<links, outbox>>
          ELSE /\ links' = links \union {<<kinds[k], ask.feature>> : k \in DOMAIN kinds}
               /\ outbox' = outbox
                            \o FlattenSeq([k \in DOMAIN kinds |-> Link(kinds[k], ask.feature)])
                            \o FlattenSeq([k \in DOMAIN ask.reads |-> RequestData({ask.reads[k]})])
       /\ UNCHANGED <<entity, version, served, cache, inbox, view>>

\* The data to ask for when descriptions arrived.
MgcpDataToRequest(parts) == IF parts = {"keyDescs"} THEN {"keyValues"} ELSE {"mData"}

VabdDataToRequest(parts) == {"mData"}

VapdDataToRequest(parts) == IF parts = {"keyDescs"} THEN {"keyValues"} ELSE {"mData"}

\* A guard asks for its own limit, or for all limits as long as it does not
\* know which is its own.
EgLpcDataToRequest(parts) ==
    IF parts = {"keyDescs"} THEN {"keyValues"}
    ELSE IF cache["consumeDesc"] # Nil THEN {"consumeLimit"} ELSE {"consumeLimit", "produceLimit"}

EgLppDataToRequest(parts) ==
    IF parts = {"keyDescs"} THEN {"keyValues"}
    ELSE IF cache["produceDesc"] # Nil THEN {"produceLimit"} ELSE {"consumeLimit", "produceLimit"}

DataToRequest(uc, parts) ==
    CASE uc = "mgcp" -> MgcpDataToRequest(parts)
      [] uc = "vabd" -> VabdDataToRequest(parts)
      [] uc = "vapd" -> VapdDataToRequest(parts)
      [] uc = "egLpc" -> EgLpcDataToRequest(parts)
      [] uc = "egLpp" -> EgLppDataToRequest(parts)

DescriptionDataUpdate(h) ==
    /\ Take(h) /\ h.event = "data" /\ h.parts \intersect ValueParts = {}
    /\ handlers' = handlers (-) SetToBag({h})
    /\ outbox' = outbox \o RequestData(DataToRequest(h.useCase, h.parts))
    /\ UNCHANGED <<entity, version, served, cache, links, inbox, view>>

ValuesUpdated(uc, part, e, payload) ==
    CASE part = "mData" /\ uc = "mgcp" -> MgcpMeasurementDataUpdate(e, payload)
      [] part = "mData" /\ uc = "vabd" -> VabdMeasurementDataUpdate(e, payload)
      [] part = "mData" /\ uc = "vapd" -> VapdMeasurementDataUpdate(e, payload)
      [] part = "keyValues" /\ uc = "mgcp" -> MgcpConfigurationDataUpdate(e, payload)
      [] part = "keyValues" /\ uc = "vapd" -> VapdConfigurationDataUpdate(e, payload)
      [] part = "keyValues" /\ uc = "egLpc" -> EgLpcConfigurationDataUpdate(e, payload)
      [] part = "keyValues" /\ uc = "egLpp" -> EgLppConfigurationDataUpdate(e, payload)
      [] part \in {"consumeLimit", "produceLimit"} /\ uc = "egLpc" -> EgLpcLimitDataUpdate(e, payload)
      [] part \in {"consumeLimit", "produceLimit"} /\ uc = "egLpp" -> EgLppLimitDataUpdate(e, payload)
      [] part = "heartbeat" -> IF uc = "egLpc" THEN {"egLpcHeartbeat"} ELSE {"egLppHeartbeat"}

\* The application reads the values it is told of.
DataUpdate(h) ==
    LET e == EntityData(cache)
        told == UNION {ValuesUpdated(h.useCase, p, e, h.payload) : p \in h.parts}
    IN /\ Take(h) /\ h.event = "data" /\ h.parts \subseteq ValueParts
       /\ handlers' = handlers (-) SetToBag({h})
       /\ view' = [q \in DOMAIN view |-> IF q \in told THEN Read(q, e) ELSE view[q]]
       /\ UNCHANGED <<entity, version, served, cache, links, outbox, inbox>>

\* The parts whose changes a use case handles; an event of others returns.
MgcpHandled == {"keyDescs", "keyValues", "mDescs", "mData"}

VabdHandled == {"mDescs", "mData"}

VapdHandled == {"keyDescs", "keyValues", "mDescs", "mData"}

EgLpcHandled == {"keyDescs", "keyValues", "consumeDesc", "produceDesc", "consumeLimit", "produceLimit",
                 "heartbeat"}

EgLppHandled == {"keyDescs", "keyValues", "consumeDesc", "produceDesc", "consumeLimit", "produceLimit",
                 "heartbeat"}

Handled == [mgcp |-> MgcpHandled, vabd |-> VabdHandled, vapd |-> VapdHandled,
            egLpc |-> EgLpcHandled, egLpp |-> EgLppHandled]

-----------------------------------------------------------------------------
(* The connection and the remote device (external) *)

Data(kind, parts) == [kind |-> kind, data |-> [p \in parts |-> version[p]]]

\* A heartbeat counts when it was notified; the answer to a request is none.
IsHeartbeat(message) == message.kind = "notify" /\ DOMAIN message.data = {"heartbeat"}

Receive ==
    LET message == Head(inbox)
        parts == DOMAIN message.data
        payload == UNION {Items(message.data, p) : p \in parts}
    IN /\ inbox # <<>>
       /\ inbox' = Tail(inbox)
       /\ cache' = [p \in Parts |-> IF p \in parts THEN message.data[p] ELSE cache[p]]
       /\ handlers' = handlers (+) SetToBag(
             {[useCase |-> uc, event |-> "data", todo |-> <<>>, parts |-> parts, payload |-> payload] :
                 uc \in {u \in entity.useCases : /\ parts \subseteq Handled[u]
                                                 /\ parts = {"heartbeat"} => IsHeartbeat(message)}})
       /\ UNCHANGED <<entity, version, served, links, outbox, view>>

RemoteAnswers ==
    LET message == Head(outbox)
    IN /\ outbox # <<>>
       /\ outbox' = Tail(outbox)
       /\ served' = IF message.kind = "subscribe" THEN served \union {message.feature} ELSE served
       /\ inbox' = IF message.kind = "read" THEN Append(inbox, Data("reply", message.parts)) ELSE inbox
       /\ UNCHANGED <<entity, version, cache, links, handlers, view>>

RemoteChanges(part) ==
    /\ version[part] # Nil /\ version[part] < MaxVersion
    /\ version' = [version EXCEPT ![part] = @ + 1]
    /\ inbox' = IF FeatureOf(part) \in served
                THEN Append(inbox, [kind |-> "notify", data |-> [p \in {part} |-> version[part] + 1]])
                ELSE inbox
    /\ UNCHANGED <<entity, served, cache, links, outbox, handlers, view>>

-----------------------------------------------------------------------------

Handle(h) == ConnectFeature(h) \/ DescriptionDataUpdate(h) \/ DataUpdate(h)

Next ==
    \/ \E h \in DOMAIN handlers : Handle(h)
    \/ Receive \/ RemoteAnswers
    \/ \E part \in entity.changing : RemoteChanges(part)

Spec == Init /\ [][Next]_vars

\* Goroutines run, messages arrive and the remote device answers.
Fairness ==
    /\ WF_vars(\E h \in DOMAIN handlers : Handle(h))
    /\ WF_vars(Receive) /\ WF_vars(RemoteAnswers)

FairSpec == Spec /\ Fairness

-----------------------------------------------------------------------------
(* Properties *)

\* Types; only data that the device published is held, only what it serves is
\* asked for, and a value is read only where there is one.
TypeOK ==
    /\ entity \in Entities
    /\ \A p \in Parts : cache[p] # Nil => version[p] # Nil /\ cache[p] <= version[p]
    /\ served \subseteq entity.features
    /\ \A k \in DOMAIN outbox : /\ outbox[k].feature \in entity.features
                               /\ outbox[k].parts \subseteq entity.readable
    /\ IsABag(handlers)
    /\ \A q \in DOMAIN view : view[q] # Nil => (view[q].error = Nil <=> view[q].value # Nil)

Quiet == outbox = <<>> /\ inbox = <<>> /\ handlers = EmptyBag

\* An error, or a list of phases none of which has a value.
NothingToRead(q, reading) ==
    reading.error # Nil \/ (q \in {"mgcpCurrent", "mgcpVoltage"} /\ reading.value = <<>>)

\* The application read what the device publishes, or was never told because
\* there is nothing to read, or no heartbeat was notified.
Current(q) ==
    LET now == Read(q, EntityData(version))
    IN view[q] = now \/ (view[q] = Nil /\ (NothingToRead(q, now) \/ q \in Heartbeats))

\* When everything is handled, the application has read the last value of each
\* quantity, whatever changed before, between and after the requests
\* (HandleEvent of mgcp, vabd, vapd, eg/lpc and eg/lpp).
Informed == Quiet => \A q \in DOMAIN view : Current(q)

ValuePart(q) ==
    CASE q \in {"egLpcLimit"} -> "consumeLimit"
      [] q \in {"egLppLimit"} -> "produceLimit"
      [] q \in {"mgcpFactor", "vapdPeak", "egLpcFailsafe", "egLpcDuration", "egLppFailsafe", "egLppDuration"}
            -> "keyValues"
      [] q \in Heartbeats -> "heartbeat"
      [] OTHER -> "mData"

\* Whenever the application asks, it gets an error or a value that the device
\* published for this quantity, never one of another quantity and never one
\* that was put together from half of the lists (the getters, and the order of
\* the requests in gridConnected).
ReadsPublished ==
    \A q \in DOMAIN view :
        LET got == Read(q, EntityData(cache))
        IN got.error # Nil \/
           \E v \in 1..version[ValuePart(q)] :
               got = Read(q, EntityData([version EXCEPT ![ValuePart(q)] = v]))

\* Each change reaches the application in the end (subscriptions and requests
\* of all use cases).
EventuallyInformed == <>[](\A q \in DOMAIN view : Current(q))

\* The nominal maximum of scenario 4 can be read once everything has arrived
\* (eg/lpc ConsumptionNominalMax, eg/lpp ProductionNominalMax).
NominalMaxRead ==
    (Quiet /\ "ElectricalConnection" \in entity.features) =>
        /\ "egLpc" \in entity.useCases => EgLpcConsumptionNominalMax(EntityData(cache), TRUE).error = Nil
        /\ "egLpp" \in entity.useCases => EgLppProductionNominalMax(EntityData(cache), TRUE).error = Nil

=============================================================================
