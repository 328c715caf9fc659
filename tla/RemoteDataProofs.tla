--------------------------- MODULE RemoteDataProofs ---------------------------
(***************************************************************************)
(* Proofs about the events of the client use cases, for every set of       *)
(* remote entities and any number of versions of what they publish: types, *)
(* that nothing is read but what was published, and that the application   *)
(* is informed once everything is handled.                                 *)
(***************************************************************************)
EXTENDS RemoteData, FiniteSetTheorems, SequenceTheorems, WellFoundedInduction, TLAPS

-----------------------------------------------------------------------------
(* The data of an entity e when the versions c of its parts are known.     *)

ItemsOf(e, c, part) == IF c[part] = Nil THEN {} ELSE e.data[part][c[part]]

DataOf(e, c) ==
    [dc |-> [descs |-> ItemsOf(e, c, "keyDescs"), data |-> ItemsOf(e, c, "keyValues")],
     ec |-> IF "ElectricalConnection" \notin e.features THEN Nil
            ELSE [descs |-> ItemsOf(e, c, "ecDescs"), params |-> ItemsOf(e, c, "ecParams"),
                  chars |-> ItemsOf(e, c, "ecChars")],
     m |-> [descs |-> ItemsOf(e, c, "mDescs"), data |-> ItemsOf(e, c, "mData")],
     dd |-> c["heartbeat"],
     lc |-> [descs |-> ItemsOf(e, c, "consumeDesc") \union ItemsOf(e, c, "produceDesc"),
             data |-> ItemsOf(e, c, "consumeLimit") \union ItemsOf(e, c, "produceLimit")]]

\* Versions that are known of e.
VersionsOf(e, c) ==
    /\ c \in [Parts -> Nat \union {Nil}]
    /\ \A p \in Parts : c[p] # Nil =>
         /\ FeatureOf(p) \in e.features
         /\ c[p] \in 1..MaxVersion
         /\ p \notin ValueParts => c[p] = 1

\* The descriptions of the items of a value part, and the values that need more.
DescOf == [keyValues |-> "keyDescs", mData |-> "mDescs",
           consumeLimit |-> "consumeDesc", produceLimit |-> "produceDesc"]
Directed == {"mgcpPower", "mgcpCurrent", "mgcpVoltage"}

\* What the values are looked up by.
ScopeOf == [mgcpPower |-> "acPowerTotal", mgcpFeedIn |-> "gridFeedIn", mgcpConsumed |-> "gridConsumption",
            mgcpCurrent |-> "acCurrent", mgcpVoltage |-> "acVoltage", mgcpFrequency |-> "acFrequency",
            vabdPower |-> "acPowerTotal", vabdCharged |-> "charge", vabdDischarged |-> "discharge",
            vabdStateOfCharge |-> "stateOfCharge", vapdPower |-> "acPowerTotal", vapdYield |-> "acYieldTotal"]
KeyOf == [mgcpFactor |-> "pvCurtailmentLimitFactor", vapdPeak |-> "peakPowerOfPvSystem",
          egLpcFailsafe |-> "failsafeConsumption", egLppFailsafe |-> "failsafeProduction",
          egLpcDuration |-> "failsafeDurationMinimum", egLppDuration |-> "failsafeDurationMinimum"]
Durations == {"egLpcDuration", "egLppDuration"}
DirectionOf == [egLpcLimit |-> "consume", egLppLimit |-> "produce"]

\* The data E and a payload tell the application of q.
Tells(q, E, payload) ==
    \/ q \in DOMAIN ScopeOf /\ MeasurementPayloadMatches(E.m, payload, [scopeType |-> ScopeOf[q]])
    \/ q = "vapdPeak" /\ KeyPayloadMatches(E.dc, payload, [keyName |-> KeyOf[q], valueType |-> "scaledNumber"])
    \/ /\ q \in DOMAIN KeyOf /\ q # "vapdPeak"
       /\ KeyPayloadMatches(E.dc, payload, [keyName |-> KeyOf[q]])
    \/ q \in DOMAIN DirectionOf /\ LimitPayloadMatches(E.lc, payload, EgLimitFilter(DirectionOf[q]))

\* The data held of its part tell of q.
Match(e, q, c) == Tells(q, DataOf(e, c), ItemsOf(e, c, ValuePart(q)))

-----------------------------------------------------------------------------
(* The inductive invariant: types and the order of messages.               *)

Features == {FeatureOf(p) : p \in Parts}
MessageType == [kind : {"subscribe", "bind", "read"}, feature : Features, parts : SUBSET Parts]
DataType == UNION {[S -> Nat] : S \in SUBSET Parts}
AskType == [feature : Features, binds : BOOLEAN, reads : Seq(Parts)]

\* Parts that travel together.
Together(parts) == parts # {} /\ \E list \in Lists : parts \subseteq list

VersionInv ==
    /\ entity \in Entities
    /\ VersionsOf(entity, version)
    /\ \A p \in Parts : FeatureOf(p) \in entity.features => version[p] # Nil

CacheInv ==
    /\ VersionsOf(entity, cache)
    /\ \A p \in Parts : cache[p] # Nil => version[p] # Nil /\ cache[p] <= version[p]

OutboxInv ==
    /\ outbox \in Seq(MessageType)
    /\ \A k \in DOMAIN outbox :
         /\ outbox[k].feature \in entity.features
         /\ outbox[k].parts \subseteq entity.readable
         /\ outbox[k].kind = "read" =>
              /\ Together(outbox[k].parts)
              /\ \A p \in outbox[k].parts : FeatureOf(p) = outbox[k].feature

InboxInv ==
    /\ inbox \in Seq([kind : {"reply", "notify"}, data : DataType])
    /\ \A k \in DOMAIN inbox :
         /\ Together(DOMAIN inbox[k].data)
         /\ \A p \in DOMAIN inbox[k].data :
              version[p] # Nil /\ inbox[k].data[p] \in 1..version[p]

\* What a handler has still to connect, and what a handler was told of.
Connecting(h) ==
    /\ h.event = "added"
    /\ h.todo \in Seq(AskType) /\ h.todo # <<>>
    /\ \A i \in DOMAIN h.todo :
         /\ Len(h.todo[i].reads) \in {1, 2}
         /\ \A k \in DOMAIN h.todo[i].reads : FeatureOf(h.todo[i].reads[k]) = h.todo[i].feature
Updating(h) ==
    /\ h.event = "data"
    /\ Together(h.parts) /\ h.parts \subseteq Handled[h.useCase]
    /\ \A p \in h.parts : cache[p] # Nil
    /\ \A i \in h.payload : \E p \in h.parts : \E v \in 1..cache[p] : i \in entity.data[p][v]

HandlersInv ==
    /\ IsABag(handlers)
    /\ \A h \in DOMAIN handlers :
         /\ h = [useCase |-> h.useCase, event |-> h.event, todo |-> h.todo, parts |-> h.parts,
                 payload |-> h.payload]
         /\ h.useCase \in entity.useCases
         /\ Connecting(h) \/ Updating(h)

ViewInv ==
    /\ view = [q \in ValuesOf(entity.useCases) |-> view[q]]
    /\ \A q \in DOMAIN view : view[q] # Nil => (view[q].error = Nil <=> view[q].value # Nil)

\* Where a message about a part is.
Subscribes(box, f, k) == box[k].kind = "subscribe" /\ box[k].feature = f
ReadAt(box, p, k) == box[k].kind = "read" /\ p \in box[k].parts
SentAt(box, p, k) == p \in DOMAIN box[k].data
Asked(p) == \E k \in DOMAIN outbox : ReadAt(outbox, p, k)
Underway(p) == \E k \in DOMAIN inbox : SentAt(inbox, p, k)

\* A feature is subscribed to before anything is read of it, and nothing is known of
\* it before.
LinksInv ==
    /\ served \subseteq entity.features
    /\ \A f \in entity.features : <<"subscribe", f>> \in links =>
         f \in served \/ \E k \in DOMAIN outbox : Subscribes(outbox, f, k)
    /\ \A k \in DOMAIN outbox : outbox[k].kind = "read" =>
         \/ outbox[k].feature \in served
         \/ \E j \in DOMAIN outbox : j < k /\ Subscribes(outbox, outbox[k].feature, j)
    /\ \A p \in Parts : Underway(p) \/ cache[p] # Nil => FeatureOf(p) \in served

\* The data of a part arrive in the order of their versions.
OrderInv ==
    /\ \A i, j \in DOMAIN inbox : i < j =>
         \A p \in DOMAIN inbox[i].data \intersect DOMAIN inbox[j].data :
             inbox[i].data[p] <= inbox[j].data[p]
    /\ \A i \in DOMAIN inbox : \A p \in DOMAIN inbox[i].data :
         cache[p] # Nil => cache[p] <= inbox[i].data[p]

TypeInv ==
    /\ VersionInv /\ CacheInv /\ OutboxInv /\ InboxInv /\ HandlersInv /\ LinksInv /\ OrderInv

-----------------------------------------------------------------------------
(* The inductive invariant: what is known when.                            *)

\* What comes before the descriptions of measurements for the grid connection point.
Ahead == {"ecDescs", "ecParams"}
Measures(h) == \E i \in DOMAIN h.todo : h.todo[i].feature = "Measurement"
AsksFirst(h, p) ==
    \E i \in DOMAIN h.todo :
        /\ \E k \in DOMAIN h.todo[i].reads : h.todo[i].reads[k] = p
        /\ \A j \in DOMAIN h.todo : h.todo[j].feature = "Measurement" => i < j

MeasuredAfter(p) ==
    /\ cache["mDescs"] # Nil => cache[p] # Nil
    /\ \A k \in DOMAIN inbox : SentAt(inbox, "mDescs", k) =>
         cache[p] # Nil \/ \E j \in DOMAIN inbox : j < k /\ SentAt(inbox, p, j)
    /\ \A k \in DOMAIN outbox : ReadAt(outbox, "mDescs", k) =>
         \/ cache[p] # Nil \/ Underway(p)
         \/ \E j \in DOMAIN outbox : j < k /\ ReadAt(outbox, p, j)
    /\ \A h \in DOMAIN handlers : h.event = "added" /\ Measures(h) =>
         cache[p] # Nil \/ Underway(p) \/ Asked(p) \/ AsksFirst(h, p)
DirectionInv ==
    "mgcp" \in entity.useCases /\ "ElectricalConnection" \in entity.features =>
        \A p \in Ahead : MeasuredAfter(p)

\* A handler of uc has still to ask for p, or to handle descriptions.
WillAsk(uc, p) ==
    \E h \in DOMAIN handlers :
        /\ h.useCase = uc /\ h.event = "added"
        /\ \E i \in DOMAIN h.todo : \E k \in DOMAIN h.todo[i].reads : h.todo[i].reads[k] = p
Handling(uc, p) == \E h \in DOMAIN handlers : h.useCase = uc /\ h.event = "data" /\ p \in h.parts

\* The value parts that uc must know.
ValuesNeeded(uc) == Needs[uc] \intersect DOMAIN DescOf

\* Descriptions are known or on their way, and so is the last version of the values.
Before(uc, desc) == WillAsk(uc, desc) \/ Asked(desc) \/ Underway(desc)
LastUnderway(p) == \E k \in DOMAIN inbox : SentAt(inbox, p, k) /\ inbox[k].data[p] = version[p]
Known(uc, p) ==
    /\ Before(uc, DescOf[p]) \/ cache[DescOf[p]] # Nil
    /\ \/ Before(uc, DescOf[p]) \/ Handling(uc, DescOf[p]) \/ Asked(p)
       \/ LastUnderway(p) \/ cache[p] = version[p]
KnownInv ==
    \A uc \in entity.useCases : \A p \in ValuesNeeded(uc) :
        FeatureOf(p) \in entity.features => Known(uc, p)

\* What the application is told of has been published; it read the last of what is
\* held, or will be told.
Telling(uc, p) ==
    \E h \in DOMAIN handlers :
        /\ h.useCase = uc /\ h.event = "data" /\ p \in h.parts
        /\ ItemsOf(entity, cache, p) \subseteq h.payload
Pending(uc, q) ==
    \/ Telling(uc, ValuePart(q)) \/ Underway(ValuePart(q)) \/ Asked(ValuePart(q))
    \/ Handling(uc, DescOf[ValuePart(q)])
ToldOf(uc, q) ==
    /\ view[q] # Nil => Match(entity, q, cache)
    /\ Match(entity, q, cache) => view[q] = Read(q, DataOf(entity, cache)) \/ Pending(uc, q)
ToldInv == \A uc \in entity.useCases : \A q \in Values[uc] \ Heartbeats : ToldOf(uc, q)

\* Heartbeats that were notified: the last one is known or on its way, and was read or
\* will be told.
Beat(box, k) == box[k].kind = "notify" /\ SentAt(box, "heartbeat", k)
Beating == \E k \in DOMAIN inbox : Beat(inbox, k)
LastBeat == \E k \in DOMAIN inbox : Beat(inbox, k) /\ inbox[k].data["heartbeat"] = version["heartbeat"]
Notified ==
    \/ Beating
    \/ \E uc \in entity.useCases : Handling(uc, "heartbeat")
    \/ \E q \in DOMAIN view \intersect Heartbeats : view[q] # Nil
HeartbeatInv ==
    /\ Notified => cache["heartbeat"] = version["heartbeat"] \/ LastBeat
    /\ \A uc \in entity.useCases : \A q \in Values[uc] \intersect Heartbeats :
         view[q] # Nil =>
             \/ cache["heartbeat"] # Nil /\ view[q] = Ok(cache["heartbeat"])
             \/ Handling(uc, "heartbeat") \/ Beating

Inductive == TypeInv /\ ViewInv /\ DirectionInv /\ KnownInv /\ ToldInv /\ HeartbeatInv


-----------------------------------------------------------------------------
(* Lists and parts.                                                        *)

\* There are thirteen parts.
LEMMA PartsAre ==
    Parts = {"keyDescs", "keyValues", "ecDescs", "ecParams", "ecChars", "mDescs", "mConstraints", "mData",
             "heartbeat", "consumeDesc", "produceDesc", "consumeLimit", "produceLimit"}
BY DEF Parts, Lists

\* A part belongs to one list, and the parts of a list to one feature.
LEMMA OneList ==
    ASSUME NEW list \in Lists, NEW p \in list
    PROVE  /\ p \in Parts /\ ListOf(p) = list
           /\ \A r \in list : FeatureOf(r) = FeatureOf(p)
<1>1. \A other \in Lists : p \in other => other = list
  BY DEF Lists
<1>2. ListOf(p) = list
  BY <1>1 DEF ListOf
<1>3. \A r \in list : FeatureOf(r) = FeatureOf(p)
  BY DEF Lists, FeatureOf
<1> QED
  BY <1>2, <1>3 DEF Parts

\* The list of a part.
LEMMA ListIs ==
    ASSUME NEW p \in Parts
    PROVE  ListOf(p) \in Lists /\ p \in ListOf(p) /\ ListOf(p) \subseteq Parts
<1>1. PICK list \in Lists : p \in list
  BY DEF Parts
<1> QED
  BY <1>1, OneList DEF Parts

\* Parts that travel together are of one feature.
LEMMA TogetherFeature ==
    ASSUME NEW parts, Together(parts)
    PROVE  /\ parts \subseteq Parts /\ parts # {}
           /\ \A p \in parts : parts \subseteq ListOf(p)
           /\ \A p, r \in parts : FeatureOf(p) = FeatureOf(r)
<1>1. PICK list \in Lists : parts \subseteq list
  BY DEF Together
<1> QED
  BY <1>1, OneList DEF Together, Parts

\* Descriptions of keys and measurements, heartbeats and the values of keys and
\* measurements travel alone.
LEMMA Alone ==
    ASSUME NEW parts, Together(parts), NEW p \in parts
    PROVE  /\ p \notin {"consumeDesc", "produceDesc", "consumeLimit", "produceLimit"} => parts = {p}
           /\ p \in {"consumeDesc", "produceDesc"} => parts \subseteq {"consumeDesc", "produceDesc"}
           /\ p \in {"consumeLimit", "produceLimit"} => parts \subseteq {"consumeLimit", "produceLimit"}
<1>1. PICK list \in Lists : parts \subseteq list
  BY DEF Together
<1> QED
  BY <1>1 DEF Lists

\* Parts that travel together are all values or none of them is.
LEMMA ValuesAlone ==
    ASSUME NEW parts, Together(parts)
    PROVE  parts \intersect ValueParts = {} \/ parts \subseteq ValueParts
<1>1. PICK list \in Lists : parts \subseteq list
  BY DEF Together
<1> QED
  BY <1>1 DEF Lists, ValueParts

\* Some part of a list stands for all of them.
LEMMA TogetherIs ==
    /\ \A p \in Parts : Together({p}) /\ Together(ListOf(p))
    /\ Together({"consumeLimit", "produceLimit"})
<1>1. \A p \in Parts : Together({p}) /\ Together(ListOf(p))
  BY ListIs DEF Together
<1> QED
  BY <1>1 DEF Together, Lists

-----------------------------------------------------------------------------
(* Bags of handlers and sequences of messages.                             *)

\* An element less in a bag.
LEMMA Removed ==
    ASSUME NEW B, IsABag(B), NEW x
    PROVE  /\ IsABag(B (-) SetToBag({x}))
           /\ DOMAIN (B (-) SetToBag({x})) \subseteq DOMAIN B
           /\ \A y \in DOMAIN B : y # x => y \in DOMAIN (B (-) SetToBag({x}))
BY DEF IsABag, SetToBag, (-)

\* The elements of a set more in a bag.
LEMMA Added ==
    ASSUME NEW B, IsABag(B), NEW S
    PROVE  /\ IsABag(B (+) SetToBag(S))
           /\ DOMAIN (B (+) SetToBag(S)) = DOMAIN B \union S
BY DEF IsABag, SetToBag, (+)

\* No elements more.
LEMMA AddedNone ==
    ASSUME NEW B, IsABag(B)
    PROVE  IsABag(B (+) EmptyBag) /\ DOMAIN (B (+) EmptyBag) = DOMAIN B
BY DEF IsABag, EmptyBag, SetToBag, (+)

\* A sequence after its first element.
LEMMA TailIs ==
    ASSUME NEW T, NEW s \in Seq(T), s # <<>>
    PROVE  /\ Tail(s) \in Seq(T) /\ Head(s) = s[1] /\ 1 \in DOMAIN s /\ Len(Tail(s)) = Len(s) - 1
           /\ \A k \in DOMAIN Tail(s) : k + 1 \in DOMAIN s /\ Tail(s)[k] = s[k + 1]
           /\ \A k \in DOMAIN s : k = 1 \/ (k - 1 \in DOMAIN Tail(s) /\ Tail(s)[k - 1] = s[k])
OBVIOUS

\* A sequence and one element more.
LEMMA AppendIs ==
    ASSUME NEW T, NEW s \in Seq(T), NEW x \in T
    PROVE  /\ Append(s, x) \in Seq(T)
           /\ DOMAIN Append(s, x) = 1..Len(s) + 1 /\ DOMAIN s = 1..Len(s)
           /\ Append(s, x)[Len(s) + 1] = x
           /\ \A k \in DOMAIN s : Append(s, x)[k] = s[k]
OBVIOUS

\* A sequence that is followed by another.
LEMMA ConcatIs ==
    ASSUME NEW T, NEW s \in Seq(T), NEW t \in Seq(T)
    PROVE  /\ s \o t \in Seq(T) /\ Len(s) \in Nat /\ Len(s \o t) = Len(s) + Len(t)
           /\ DOMAIN s = 1..Len(s) /\ DOMAIN t = 1..Len(t)
           /\ \A k \in DOMAIN s : k \in DOMAIN (s \o t) /\ (s \o t)[k] = s[k]
           /\ \A k \in DOMAIN t : Len(s) + k \in DOMAIN (s \o t) /\ (s \o t)[Len(s) + k] = t[k]
           /\ \A k \in DOMAIN (s \o t) : k \in DOMAIN s \/ (k > Len(s) /\ k - Len(s) \in DOMAIN t)
OBVIOUS

\* A sequence of one sequence.
LEMMA FlattenOne ==
    ASSUME NEW T, NEW a \in Seq(T)
    PROVE  FlattenSeq(<<a>>) = a
BY DEF FlattenSeq

\* A sequence of two sequences.
LEMMA FlattenTwo ==
    ASSUME NEW T, NEW a \in Seq(T), NEW b \in Seq(T)
    PROVE  FlattenSeq(<<a, b>>) = a \o b
<1> DEFINE s == <<a, b>>
           F(f) == f = [i \in 1..Len(s) |-> IF i = 1 THEN s[i] ELSE f[i - 1] \o s[i]]
           g == [i \in 1..2 |-> IF i = 1 THEN a ELSE a \o b]
           flat == CHOOSE f : F(f)
<1>1. s \in Seq(Seq(T)) /\ Len(s) = 2 /\ s[1] = a /\ s[2] = b /\ s # <<>>
  OBVIOUS
<1> HIDE DEF s
<1>2. F(g)
  BY <1>1
<1>3. F(flat)
  BY <1>2
<1>4. FlattenSeq(s) = flat[Len(s)]
  <2>1. Len(s) # 0
    BY <1>1
  <2> QED
    BY <2>1, Zenon DEF FlattenSeq, flat
<1> HIDE DEF flat
<1>5. \A i \in 1..2 : flat[i] = IF i = 1 THEN s[i] ELSE flat[i - 1] \o s[i]
  BY <1>1, <1>3
<1>6. flat[1] = a /\ flat[2] = flat[2 - 1] \o s[2]
  BY <1>1, <1>5
<1>7. flat[2] = a \o b
  <2>1. 2 - 1 = 1
    OBVIOUS
  <2> QED
    BY ONLY <1>1, <1>6, <2>1, Zenon
<1>8. FlattenSeq(s) = a \o b
  BY <1>1, <1>4, <1>7
<1> QED
  BY <1>8 DEF s

-----------------------------------------------------------------------------
(* Lookups.                                                                *)

\* Which value is read and told how.
LEMMA ValuesAre ==
    /\ \A uc \in UseCases : \A q \in Values[uc] \ Heartbeats :
         \/ q \in DOMAIN ScopeOf /\ ValuePart(q) = "mData"
         \/ q \in DOMAIN KeyOf /\ ValuePart(q) = "keyValues"
         \/ q \in DOMAIN DirectionOf /\ ValuePart(q) \in {"consumeLimit", "produceLimit"}
    /\ \A q \in DOMAIN ScopeOf : q \notin DOMAIN KeyOf /\ q \notin DOMAIN DirectionOf /\ q # "vapdPeak"
    /\ \A q \in DOMAIN KeyOf : q \notin DOMAIN DirectionOf
    /\ Directed \subseteq DOMAIN ScopeOf /\ Directed \subseteq Values["mgcp"]
    /\ Durations \subseteq DOMAIN KeyOf
BY DEF UseCases, Values, Heartbeats, ScopeOf, KeyOf, DirectionOf, ValuePart, Durations, Directed

\* What is read.
LEMMA ReadIs ==
    ASSUME NEW E
    PROVE  /\ \A q \in {"mgcpFeedIn", "mgcpConsumed", "mgcpFrequency"} :
                Read(q, E) = MgcpValue(E, ScopeOf[q])
           /\ \A q \in DOMAIN ScopeOf \ ({"mgcpFeedIn", "mgcpConsumed", "mgcpFrequency"} \union Directed) :
                Read(q, E) = VabdGetValuesFoFilter(E, [scopeType |-> ScopeOf[q]])
           /\ Read("mgcpPower", E) = MgcpPower(E)
           /\ Read("mgcpCurrent", E) = MgcpCurrentPerPhase(E)
           /\ Read("mgcpVoltage", E) = MgcpVoltagePerPhase(E)
           /\ \A q \in DOMAIN KeyOf \ Durations : Read(q, E) = ScaledKey(E, KeyOf[q])
           /\ \A q \in Durations : Read(q, E) = DurationKeyRead(E)
           /\ \A q \in DOMAIN DirectionOf : Read(q, E) = LimitRead(E, DirectionOf[q])
           /\ \A q \in Heartbeats : Read(q, E) = IF E.dd = Nil THEN NotAvailable ELSE Ok(E.dd)
<1> USE DEF Read, Values, OnMGCPEvent, ScopeOf, KeyOf, DirectionOf, Durations, Directed, Heartbeats
<1>1. \A q \in {"mgcpFeedIn", "mgcpConsumed", "mgcpFrequency"} :
         Read(q, E) = MgcpValue(E, ScopeOf[q])
  BY DEF MgcpEnergyFeedIn, MgcpEnergyConsumed, MgcpFrequency
<1>2. \A q \in DOMAIN ScopeOf \ ({"mgcpFeedIn", "mgcpConsumed", "mgcpFrequency"} \union Directed) :
         Read(q, E) = VabdGetValuesFoFilter(E, [scopeType |-> ScopeOf[q]])
  BY DEF VabdPower, VabdEnergyCharged, VabdEnergyDischarged, VabdStateOfCharge, VapdPower,
         VapdPVYieldTotal, VapdGetValuesFoFilter, VabdGetValuesFoFilter
<1>3. /\ Read("mgcpPower", E) = MgcpPower(E) /\ Read("mgcpCurrent", E) = MgcpCurrentPerPhase(E)
      /\ Read("mgcpVoltage", E) = MgcpVoltagePerPhase(E)
  OBVIOUS
<1>4. \A q \in DOMAIN KeyOf \ Durations : Read(q, E) = ScaledKey(E, KeyOf[q])
  BY DEF MgcpPowerLimitationFactor, VapdPowerNominalPeak, EgLpcFailsafeLimit, EgLppFailsafeLimit
<1>5. \A q \in Durations : Read(q, E) = DurationKeyRead(E)
  BY DEF EgLpcFailsafeDurationMinimum, EgLppFailsafeDurationMinimum
<1>6. \A q \in DOMAIN DirectionOf : Read(q, E) = LimitRead(E, DirectionOf[q])
  BY DEF EgLpcConsumptionLimit, EgLppProductionLimit
<1>7. \A q \in Heartbeats : Read(q, E) = IF E.dd = Nil THEN NotAvailable ELSE Ok(E.dd)
  OBVIOUS
<1> QED
  BY <1>1, <1>2, <1>3, <1>4, <1>5, <1>6, <1>7

\* What the application is told of by which part.
LEMMA ToldIs ==
    ASSUME NEW uc \in UseCases, NEW E, NEW payload, NEW p \in Handled[uc] \intersect ValueParts
    PROVE  /\ \A q \in Values[uc] \ Heartbeats :
                q \in ValuesUpdated(uc, p, E, payload) <=>
                    ListOf(p) = ListOf(ValuePart(q)) /\ Tells(q, E, payload)
           /\ ValuesUpdated(uc, p, E, payload) \subseteq Values[uc]
           /\ \A q \in Values[uc] \intersect Heartbeats :
                q \in ValuesUpdated(uc, p, E, payload) <=> p = "heartbeat"
<1>1. /\ ListOf("keyValues") = {"keyValues"} /\ ListOf("mData") = {"mData"}
      /\ ListOf("heartbeat") = {"heartbeat"}
      /\ ListOf("consumeLimit") = {"consumeLimit", "produceLimit"}
      /\ ListOf("produceLimit") = {"consumeLimit", "produceLimit"}
  BY OneList DEF Lists
<1>2. uc = "mgcp" => p \in {"keyValues", "mData"}
  BY DEF Handled, MgcpHandled, ValueParts
<1>3. uc = "vabd" => p = "mData"
  BY DEF Handled, VabdHandled, ValueParts
<1>4. uc = "vapd" => p \in {"keyValues", "mData"}
  BY DEF Handled, VapdHandled, ValueParts
<1>5. uc = "egLpc" => p \in {"keyValues", "consumeLimit", "produceLimit", "heartbeat"}
  BY DEF Handled, EgLpcHandled, ValueParts
<1>6. uc = "egLpp" => p \in {"keyValues", "consumeLimit", "produceLimit", "heartbeat"}
  BY DEF Handled, EgLppHandled, ValueParts
<1> DEFINE V == ValuesUpdated(uc, p, E, payload)
<1> USE DEF ValuesUpdated, Tells, Values, Heartbeats, ScopeOf, KeyOf, DirectionOf, ValuePart, Durations,
            InMeasurements, InKeys
<1>7. CASE uc = "mgcp" /\ p = "mData"
  BY <1>1, <1>7 DEF MgcpMeasurementDataUpdate
<1>8. CASE uc = "mgcp" /\ p = "keyValues"
  BY <1>1, <1>8 DEF MgcpConfigurationDataUpdate
<1>9. CASE uc = "vabd"
  BY <1>1, <1>3, <1>9 DEF VabdMeasurementDataUpdate
<1>10. CASE uc = "vapd" /\ p = "mData"
  BY <1>1, <1>10 DEF VapdMeasurementDataUpdate
<1>11. CASE uc = "vapd" /\ p = "keyValues"
  BY <1>1, <1>11 DEF VapdConfigurationDataUpdate
<1>12. CASE uc = "egLpc" /\ p = "keyValues"
  BY <1>1, <1>12 DEF EgLpcConfigurationDataUpdate
<1>13. CASE uc = "egLpc" /\ p \in {"consumeLimit", "produceLimit"}
  <2>1. V = IF LimitPayloadMatches(E.lc, payload, EgLimitFilter("consume")) THEN {"egLpcLimit"} ELSE {}
    BY <1>13 DEF EgLpcLimitDataUpdate
  <2>2. Tells("egLpcLimit", E, payload) <=> LimitPayloadMatches(E.lc, payload, EgLimitFilter("consume"))
    OBVIOUS
  <2>3. ListOf(p) = ListOf("consumeLimit") /\ ListOf(p) # ListOf("keyValues")
    BY <1>1, <1>13
  <2>4. ValuePart("egLpcLimit") = "consumeLimit" /\ ValuePart("egLpcFailsafe") = "keyValues"
        /\ ValuePart("egLpcDuration") = "keyValues" /\ p # "heartbeat"
    BY <1>13
  <2>5. Values[uc] = {"egLpcLimit", "egLpcFailsafe", "egLpcDuration", "egLpcHeartbeat"}
    BY <1>13
  <2> HIDE DEF V, ValuesUpdated, Tells, Values, ValuePart
  <2>6. \A q \in Values[uc] \ Heartbeats : q \in V <=> ListOf(p) = ListOf(ValuePart(q)) /\ Tells(q, E, payload)
    BY ONLY <2>1, <2>2, <2>3, <2>4, <2>5 DEF Heartbeats
  <2>7. V \subseteq Values[uc] /\ \A q \in Values[uc] \intersect Heartbeats : q \in V <=> p = "heartbeat"
    BY ONLY <2>1, <2>4, <2>5 DEF Heartbeats
  <2> QED
    BY <2>6, <2>7 DEF V
<1>14. CASE uc = "egLpc" /\ p = "heartbeat"
  BY <1>1, <1>14
<1>15. CASE uc = "egLpp" /\ p = "keyValues"
  BY <1>1, <1>15 DEF EgLppConfigurationDataUpdate
<1>16. CASE uc = "egLpp" /\ p \in {"consumeLimit", "produceLimit"}
  <2>1. V = IF LimitPayloadMatches(E.lc, payload, EgLimitFilter("produce")) THEN {"egLppLimit"} ELSE {}
    BY <1>16 DEF EgLppLimitDataUpdate
  <2>2. Tells("egLppLimit", E, payload) <=> LimitPayloadMatches(E.lc, payload, EgLimitFilter("produce"))
    OBVIOUS
  <2>3. ListOf(p) = ListOf("produceLimit") /\ ListOf(p) # ListOf("keyValues")
    BY <1>1, <1>16
  <2>4. ValuePart("egLppLimit") = "produceLimit" /\ ValuePart("egLppFailsafe") = "keyValues"
        /\ ValuePart("egLppDuration") = "keyValues" /\ p # "heartbeat"
    BY <1>16
  <2>5. Values[uc] = {"egLppLimit", "egLppFailsafe", "egLppDuration", "egLppHeartbeat"}
    BY <1>16
  <2> HIDE DEF V, ValuesUpdated, Tells, Values, ValuePart
  <2>6. \A q \in Values[uc] \ Heartbeats : q \in V <=> ListOf(p) = ListOf(ValuePart(q)) /\ Tells(q, E, payload)
    BY ONLY <2>1, <2>2, <2>3, <2>4, <2>5 DEF Heartbeats
  <2>7. V \subseteq Values[uc] /\ \A q \in Values[uc] \intersect Heartbeats : q \in V <=> p = "heartbeat"
    BY ONLY <2>1, <2>4, <2>5 DEF Heartbeats
  <2> QED
    BY <2>6, <2>7 DEF V
<1>17. CASE uc = "egLpp" /\ p = "heartbeat"
  BY <1>1, <1>17
<1> QED
  BY <1>2, <1>4, <1>5, <1>6, <1>7, <1>8, <1>9, <1>10, <1>11, <1>12, <1>13, <1>14, <1>15, <1>16, <1>17
     DEF UseCases

\* The measurements of a scope.
LEMMA MeasuredIs ==
    ASSUME NEW m, NEW s, NEW i
    PROVE  i \in GetDataForFilter(m, [scopeType |-> s]) <=>
              /\ i \in m.data
              /\ \E d \in m.descs : d.scopeType = s /\ i.measurementId = d.measurementId
<1> DEFINE Of(d) == SearchFilterInList(m.data, [measurementId |-> d.measurementId])
<1>1. \A d : i \in Of(d) <=> i \in m.data /\ i.measurementId = d.measurementId
  BY DEF SearchFilterInList, SearchFilterInItem
<1>2. GetDescriptionsForFilter(m, [scopeType |-> s]) = {d \in m.descs : d.scopeType = s}
  BY DEF GetDescriptionsForFilter, SearchFilterInList, SearchFilterInItem
<1>3. GetDataForFilter(m, [scopeType |-> s]) = UNION {Of(d) : d \in {x \in m.descs : x.scopeType = s}}
  BY <1>2 DEF GetDataForFilter
<1> HIDE DEF Of
<1> QED
  BY <1>1, <1>3

\* The first of a list that is not empty is one of them.
LEMMA FirstIs ==
    ASSUME NEW list, NEW key, list # {}, \A i \in list : i[key] \in Nat
    PROVE  First(list, key) \in list
<1> DEFINE keys == {i[key] : i \in list}
           R == OpToRel(<, Nat)
<1>1. IsWellFoundedOn(R, Nat)
  BY NatLessThanWellFounded
<1>2. \A x, y \in Nat : x < y => <<x, y>> \in R
  BY DEF OpToRel
<1>3. keys \subseteq Nat /\ keys # {}
  OBVIOUS
<1>4. \A n \in keys : \E i \in list : i[key] = n
  OBVIOUS
<1>5. \A i \in list : i[key] \in keys
  OBVIOUS
<1> HIDE DEF R, keys
<1>6. PICK n \in keys : \A m \in keys : ~(<<m, n>> \in R)
  BY <1>1, <1>3, WFMin, Zenon
<1>7. ASSUME NEW m \in keys PROVE n <= m
  <2>1. m \in Nat /\ n \in Nat /\ ~(m < n)
    BY <1>2, <1>3, <1>6
  <2> QED
    BY ONLY <2>1
<1>8. PICK i \in list : i[key] = n
  BY <1>4, <1>6
<1>9. \A other \in list : i[key] <= other[key]
  BY <1>5, <1>7, <1>8
<1> QED
  BY <1>8, <1>9 DEF First

\* The value of a key: that of the first description, if any.
LEMMA KeyIs ==
    ASSUME NEW dc, NEW name, NEW type, WellFormed("keyDescs", dc.descs), NEW i
    PROVE  i \in GetKeyValueDataForFilter(dc, [keyName |-> name, valueType |-> type]) =>
              /\ i \in dc.data
              /\ \E d \in dc.descs : d.keyName = name /\ d.valueType = type /\ i.keyId = d.keyId
<1> DEFINE found == GetKeyValueDescriptionsForFilter(dc, [keyName |-> name, valueType |-> type])
<1>1. \A d \in found : d \in dc.descs /\ d.keyName = name /\ d.valueType = type
  BY DEF GetKeyValueDescriptionsForFilter, SearchFilterInList, SearchFilterInItem
<1>2. \A d \in found : d.keyId \in Nat
  BY <1>1 DEF WellFormed, IdOf
<1> HIDE DEF found
<1>3. found # {} => First(found, "keyId") \in found
  <2>1. \A d \in found : d["keyId"] \in Nat
    BY <1>2
  <2> QED
    BY <2>1, FirstIs
<1>4. GetKeyValueDataForFilter(dc, [keyName |-> name, valueType |-> type]) =
         IF found = {} THEN {} ELSE SearchFilterInList(dc.data, [keyId |-> First(found, "keyId").keyId])
  BY DEF GetKeyValueDataForFilter, found
<1>5. found # {} /\ i \in SearchFilterInList(dc.data, [keyId |-> First(found, "keyId").keyId]) =>
         i \in dc.data /\ i.keyId = First(found, "keyId").keyId
  BY DEF SearchFilterInList, SearchFilterInItem
<1> QED
  BY <1>1, <1>3, <1>4, <1>5

\* The values of a key have one identifier.
LEMMA KeyOnce ==
    ASSUME NEW dc, NEW filter, NEW i \in GetKeyValueDataForFilter(dc, filter),
           NEW j \in GetKeyValueDataForFilter(dc, filter)
    PROVE  i.keyId = j.keyId
<1> DEFINE id == First(GetKeyValueDescriptionsForFilter(dc, filter), "keyId").keyId
<1>1. GetKeyValueDataForFilter(dc, filter) = {} \/
      GetKeyValueDataForFilter(dc, filter) = SearchFilterInList(dc.data, [keyId |-> id])
  BY DEF GetKeyValueDataForFilter
<1> HIDE DEF id
<1>2. \A k \in SearchFilterInList(dc.data, [keyId |-> id]) : k.keyId = id
  BY DEF SearchFilterInList, SearchFilterInItem
<1> QED
  BY <1>1, <1>2

\* Description d and item i are of the value q.
MeasuredAs(q, d, i) ==
    d.scopeType = ScopeOf[q] /\ i.measurementId = d.measurementId /\ i.value # Nil
KeyedAs(q, d, i) ==
    /\ d.keyName = KeyOf[q] /\ (q = "vapdPeak" => d.valueType = "scaledNumber")
    /\ (i.keyId = d.keyId \/ i.value # Nil)
LimitedAs(q, d, i) ==
    /\ d.limitDirection = DirectionOf[q] /\ d.scopeType = "activePowerLimit"
    /\ i.limitId = d.limitId /\ i.value # Nil

\* When a payload tells of a measurement.
LEMMA TellsMeasured ==
    ASSUME NEW E, NEW payload, NEW q \in DOMAIN ScopeOf
    PROVE  Tells(q, E, payload) <=> \E d \in E.m.descs, i \in payload : MeasuredAs(q, d, i)
<1>1. Tells(q, E, payload) <=> MeasurementPayloadMatches(E.m, payload, [scopeType |-> ScopeOf[q]])
  <2>1. q \notin DOMAIN KeyOf /\ q \notin DOMAIN DirectionOf /\ q # "vapdPeak"
    BY ValuesAre
  <2> QED
    BY <2>1, Zenon DEF Tells
<1>2. MeasurementPayloadMatches(E.m, payload, [scopeType |-> ScopeOf[q]]) <=>
         \E d \in E.m.descs, i \in payload : MeasuredAs(q, d, i)
  BY DEF MeasurementPayloadMatches, GetDescriptionsForFilter, SearchFilterInList, SearchFilterInItem,
         MeasuredAs
<1> QED
  BY <1>1, <1>2

\* When a payload tells of the value of a key.
LEMMA TellsKey ==
    ASSUME NEW E, NEW payload, NEW q \in DOMAIN KeyOf
    PROVE  Tells(q, E, payload) <=> \E d \in E.dc.descs, i \in payload : KeyedAs(q, d, i)
<1>1. Tells(q, E, payload) <=>
         IF q = "vapdPeak"
         THEN KeyPayloadMatches(E.dc, payload, [keyName |-> KeyOf[q], valueType |-> "scaledNumber"])
         ELSE KeyPayloadMatches(E.dc, payload, [keyName |-> KeyOf[q]])
  <2>1. q \notin DOMAIN ScopeOf /\ q \notin DOMAIN DirectionOf
    BY ValuesAre
  <2> QED
    BY <2>1, Zenon DEF Tells
<1> USE DEF KeyPayloadMatches, GetKeyValueDescriptionsForFilter, SearchFilterInList, SearchFilterInItem,
            KeyedAs
<1>2. CASE q = "vapdPeak"
  <2>1. KeyPayloadMatches(E.dc, payload, [keyName |-> KeyOf[q], valueType |-> "scaledNumber"]) <=>
           \E d \in E.dc.descs, i \in payload : KeyedAs(q, d, i)
    BY <1>2
  <2> QED
    BY <1>1, <1>2, <2>1
<1>3. CASE q # "vapdPeak"
  <2>1. KeyPayloadMatches(E.dc, payload, [keyName |-> KeyOf[q]]) <=>
           \E d \in E.dc.descs, i \in payload : KeyedAs(q, d, i)
    BY <1>3
  <2> QED
    BY <1>1, <1>3, <2>1
<1> QED
  BY <1>2, <1>3

\* When a payload tells of a limit.
LEMMA TellsLimit ==
    ASSUME NEW E, NEW payload, NEW q \in DOMAIN DirectionOf
    PROVE  Tells(q, E, payload) <=> \E d \in E.lc.descs, i \in payload : LimitedAs(q, d, i)
<1>1. Tells(q, E, payload) <=> LimitPayloadMatches(E.lc, payload, EgLimitFilter(DirectionOf[q]))
  <2>1. q \notin DOMAIN ScopeOf /\ q \notin DOMAIN KeyOf /\ q # "vapdPeak"
    BY ValuesAre DEF DirectionOf
  <2> QED
    BY <2>1, Zenon DEF Tells
<1>2. LimitPayloadMatches(E.lc, payload, EgLimitFilter(DirectionOf[q])) <=>
         \E d \in E.lc.descs, i \in payload : LimitedAs(q, d, i)
  BY DEF LimitPayloadMatches, EgLimitFilter, GetLimitDescriptionsForFilter, SearchFilterInList,
         SearchFilterInItem, LimitedAs
<1> QED
  BY <1>1, <1>2

-----------------------------------------------------------------------------
(* What can be read when some versions of the data of an entity are known. *)

\* The parts with items that count.
Listed == {"keyDescs", "mDescs"} \union DOMAIN LimitOf \union (ValueParts \ {"heartbeat"})

\* The items of a part are well formed, and there are none when the part is not known.
LEMMA ItemsAre ==
    ASSUME NEW e \in Entities, NEW c, VersionsOf(e, c), NEW p \in Listed
    PROVE  /\ WellFormed(p, ItemsOf(e, c, p))
           /\ c[p] = Nil => ItemsOf(e, c, p) = {}
           /\ c[p] # Nil => c[p] \in 1..MaxVersion /\ ItemsOf(e, c, p) = e.data[p][c[p]]
<1>1. p \in Parts
  BY PartsAre DEF Listed, LimitOf, ValueParts
<1>2. CASE c[p] = Nil
  <2>1. ItemsOf(e, c, p) = {}
    BY <1>2 DEF ItemsOf
  <2> QED
    BY <1>2, <2>1, FS_EmptySet DEF WellFormed
<1>3. CASE c[p] # Nil
  <2>1. c[p] \in 1..MaxVersion
    BY <1>1, <1>3 DEF VersionsOf
  <2>2. WellFormed(p, e.data[p][c[p]])
    BY <2>1, EntitiesAssumption DEF Listed
  <2> QED
    BY <1>3, <2>1, <2>2 DEF ItemsOf
<1> QED
  BY <1>2, <1>3

\* The lists of a feature.
LEMMA DataIs ==
    ASSUME NEW e \in Entities, NEW c
    PROVE  /\ DataOf(e, c).m.descs = ItemsOf(e, c, "mDescs") /\ DataOf(e, c).m.data = ItemsOf(e, c, "mData")
           /\ DataOf(e, c).dc.descs = ItemsOf(e, c, "keyDescs")
           /\ DataOf(e, c).dc.data = ItemsOf(e, c, "keyValues")
           /\ DataOf(e, c).lc.descs = ItemsOf(e, c, "consumeDesc") \union ItemsOf(e, c, "produceDesc")
           /\ DataOf(e, c).lc.data = ItemsOf(e, c, "consumeLimit") \union ItemsOf(e, c, "produceLimit")
           /\ DataOf(e, c).dd = c["heartbeat"]
BY DEF DataOf

Errors == {"DataNotAvailable", "MetadataNotAvailable", "DataInvalid"}

\* Nil is neither an error nor a number, and none of the values.
LEMMA NilIs ==
    /\ Nil \notin Nat /\ Nil \notin Errors /\ Nil \notin Seq(Nat)
    /\ Nil \notin [value : Nat, isChangeable : BOOLEAN, isActive : BOOLEAN, duration : Nat]
BY RemoteDataAssumption DEF Errors

\* A reading without an error has a value.
Typed(reading) == reading.error = Nil <=> reading.value # Nil

\* What the answers are made of.
LEMMA Answers ==
    /\ \A v : Ok(v).error = Nil /\ Ok(v).value = v
    /\ NotAvailable.error # Nil /\ NotAvailable.value = Nil
    /\ \A x \in Errors : Err(x).error # Nil /\ Err(x).value = Nil /\ Err(x).error = x
<1>1. \A x \in Errors : Err(x).error # Nil /\ Err(x).value = Nil /\ Err(x).error = x
  BY NilIs DEF Err
<1>2. NotAvailable.error # Nil /\ NotAvailable.value = Nil
  <2>1. "DataNotAvailable" \in Errors
    BY DEF Errors
  <2> QED
    BY <1>1, <2>1 DEF NotAvailable
<1> QED
  BY <1>1, <1>2 DEF Ok

\* A quantity that has a limit of its direction only.
LEMMA LimitOwn ==
    ASSUME NEW e \in Entities, NEW c, VersionsOf(e, c), NEW desc \in DOMAIN LimitOf,
           NEW d \in DataOf(e, c).lc.descs, d.limitDirection = Direction[desc]
    PROVE  /\ d \in ItemsOf(e, c, desc) /\ c[desc] = 1
           /\ \A v \in 1..MaxVersion, other \in DOMAIN LimitOf : \A i \in e.data[LimitOf[other]][v] :
                 i.limitId = d.limitId => other = desc
           /\ \A i \in DataOf(e, c).lc.data : i.limitId = d.limitId => i \in ItemsOf(e, c, LimitOf[desc])
<1>1. PICK own \in DOMAIN LimitOf : d \in ItemsOf(e, c, own)
  BY DataIs DEF LimitOf
<1>2. own \in Listed /\ own \in Parts /\ own \notin ValueParts
  BY <1>1, PartsAre DEF Listed, LimitOf, ValueParts
<1>3. c[own] = 1 /\ d \in e.data[own][1]
  BY <1>1, <1>2, ItemsAre DEF VersionsOf
<1>4. d.limitDirection = Direction[own]
  BY <1>1, <1>3, EntitiesAssumption
<1>5. own = desc
  BY <1>1, <1>4 DEF LimitOf, Direction
<1>6. ASSUME NEW v \in 1..MaxVersion, NEW other \in DOMAIN LimitOf, NEW i \in e.data[LimitOf[other]][v],
             i.limitId = d.limitId
      PROVE  other = desc
  BY <1>3, <1>5, <1>6, EntitiesAssumption
<1>8. ASSUME NEW i \in DataOf(e, c).lc.data, i.limitId = d.limitId
      PROVE  i \in ItemsOf(e, c, LimitOf[desc])
  <2>1. PICK other \in DOMAIN LimitOf : i \in ItemsOf(e, c, LimitOf[other])
    BY DataIs DEF LimitOf
  <2>2. LimitOf[other] \in Listed
    BY DEF LimitOf, Listed, ValueParts
  <2>3. c[LimitOf[other]] \in 1..MaxVersion /\ i \in e.data[LimitOf[other]][c[LimitOf[other]]]
    BY <2>1, <2>2, ItemsAre
  <2> QED
    BY <1>6, <1>8, <2>1, <2>3
<1> QED
  BY <1>1, <1>3, <1>5, <1>6, <1>8

\* What is told of q without its descriptions and values is nothing.
LEMMA TellsKnown ==
    ASSUME NEW e \in Entities, NEW c, VersionsOf(e, c), NEW uc \in UseCases, NEW q \in Values[uc] \ Heartbeats,
           NEW payload, Tells(q, DataOf(e, c), payload)
    PROVE  c[DescOf[ValuePart(q)]] = 1
<1>1. \A p \in {"keyDescs", "mDescs"} : p \in Listed /\ p \in Parts /\ p \notin ValueParts
  BY PartsAre DEF Listed, ValueParts
<1>2. \A p \in {"keyDescs", "mDescs"} : ItemsOf(e, c, p) # {} => c[p] = 1
  BY <1>1, ItemsAre DEF VersionsOf
<1>3. CASE q \in DOMAIN ScopeOf
  <2>1. \E d : d \in DataOf(e, c).m.descs
    BY <1>3, TellsMeasured
  <2>2. ItemsOf(e, c, "mDescs") # {}
    BY <2>1, DataIs
  <2>3. DescOf[ValuePart(q)] = "mDescs"
    BY <1>3, ValuesAre DEF DescOf
  <2> QED
    BY <1>2, <2>2, <2>3
<1>4. CASE q \in DOMAIN KeyOf
  <2>1. \E d : d \in DataOf(e, c).dc.descs
    BY <1>4, TellsKey
  <2>2. ItemsOf(e, c, "keyDescs") # {}
    BY <2>1, DataIs
  <2>3. DescOf[ValuePart(q)] = "keyDescs"
    BY <1>4, ValuesAre DEF DescOf
  <2> QED
    BY <1>2, <2>2, <2>3
<1>5. CASE q \in DOMAIN DirectionOf
  <2>1. PICK d \in DataOf(e, c).lc.descs : \E i : LimitedAs(q, d, i)
    BY <1>5, TellsLimit
  <2>2. d.limitDirection = DirectionOf[q]
    BY <2>1 DEF LimitedAs
  <2>3. DescOf[ValuePart(q)] \in DOMAIN LimitOf /\ Direction[DescOf[ValuePart(q)]] = DirectionOf[q]
    BY <1>5 DEF DescOf, ValuePart, DirectionOf, LimitOf, Direction
  <2> QED
    BY <2>2, <2>3, LimitOwn
<1> QED
  BY <1>3, <1>4, <1>5, ValuesAre

-----------------------------------------------------------------------------
(* Readings: without an error there is a value, and what it is read from.  *)

\* Sorting keeps the items.
LEMMA ByMeasurementIdIs ==
    ASSUME NEW S, IsFiniteSet(S), \A i \in S : i.measurementId \in Nat,
           \A i, j \in S : i.measurementId = j.measurementId => i = j
    PROVE  /\ Cardinality(S) \in Nat
           /\ DOMAIN ByMeasurementId(S) = 1..Cardinality(S)
           /\ \A k \in DOMAIN ByMeasurementId(S) : ByMeasurementId(S)[k] \in S
<1> DEFINE n == Cardinality(S)
           Less(i) == {j \in S : j.measurementId < i.measurementId}
           rank == [i \in S |-> Cardinality(Less(i))]
<1>1. n \in Nat
  BY FS_CardinalityType
<1>2. ASSUME NEW i \in S
      PROVE  IsFiniteSet(Less(i)) /\ Cardinality(Less(i)) \in Nat /\ Cardinality(Less(i)) < n
  <2>1. Less(i) \in SUBSET S /\ Less(i) # S
    <3>1. i \notin Less(i)
      OBVIOUS
    <3> QED
      BY <3>1
  <2>2. IsFiniteSet(Less(i)) /\ Cardinality(Less(i)) <= n /\ Cardinality(Less(i)) # n
    BY <2>1, FS_Subset
  <2>3. Cardinality(Less(i)) \in Nat
    BY <2>2, FS_CardinalityType
  <2> QED
    BY <1>1, <2>2, <2>3
<1>3. ASSUME NEW i \in S, NEW j \in S, i.measurementId < j.measurementId
      PROVE  Cardinality(Less(i)) < Cardinality(Less(j))
  <2>1. Less(i) \in SUBSET Less(j)
    BY <1>3
  <2>2. Less(i) # Less(j)
    <3>1. i \in Less(j) /\ i \notin Less(i)
      BY <1>3
    <3> QED
      BY <3>1
  <2>3. Cardinality(Less(i)) <= Cardinality(Less(j)) /\ Cardinality(Less(i)) # Cardinality(Less(j))
    BY <1>2, <2>1, <2>2, FS_Subset
  <2>4. Cardinality(Less(i)) \in Nat /\ Cardinality(Less(j)) \in Nat
    BY <1>2
  <2> QED
    BY ONLY <2>3, <2>4
<1> HIDE DEF Less, n
<1>4. rank \in [S -> 0..(n - 1)]
  <2>1. ASSUME NEW i \in S PROVE Cardinality(Less(i)) \in 0..(n - 1)
    <3>1. Cardinality(Less(i)) \in Nat /\ Cardinality(Less(i)) < n
      BY <1>2
    <3> QED
      BY ONLY <1>1, <3>1
  <2> QED
    BY <2>1
<1>5. ASSUME NEW i \in S, NEW j \in S, rank[i] = rank[j] PROVE i = j
  <2>1. i.measurementId < j.measurementId \/ j.measurementId < i.measurementId \/ i = j
    OBVIOUS
  <2>2. Cardinality(Less(i)) \in Nat /\ Cardinality(Less(j)) \in Nat
    BY <1>2
  <2>3. Cardinality(Less(i)) = Cardinality(Less(j))
    BY <1>5
  <2>4. i.measurementId < j.measurementId => Cardinality(Less(i)) < Cardinality(Less(j))
    BY <1>3
  <2>5. j.measurementId < i.measurementId => Cardinality(Less(j)) < Cardinality(Less(i))
    BY <1>3
  <2> QED
    BY ONLY <2>1, <2>2, <2>3, <2>4, <2>5
<1>6. rank \in Injection(S, 0..(n - 1))
  BY <1>4, <1>5 DEF Injection, IsInjective
<1>7. IsFiniteSet(0..(n - 1)) /\ Cardinality(0..(n - 1)) = n
  <2>1. IsFiniteSet(0..(n - 1)) /\ Cardinality(0..(n - 1)) = IF 0 > n - 1 THEN 0 ELSE (n - 1) - 0 + 1
    BY <1>1, FS_Interval
  <2> QED
    BY <1>1, <2>1
<1>8. rank \in Surjection(S, 0..(n - 1))
  <2> DEFINE T == 0..(n - 1)
  <2>1. IsFiniteSet(T) /\ Cardinality(S) = Cardinality(T) /\ rank \in Injection(S, T)
    BY <1>6, <1>7 DEF n
  <2> HIDE DEF T, rank
  <2>2. rank \in Surjection(S, T)
    BY <2>1, FS_Injection
  <2> QED
    BY <2>2 DEF T
<1>9. \A k \in 1..n : \E i \in S : Cardinality(Less(i)) = k - 1
  <2>1. \A m \in 0..(n - 1) : \E i \in S : rank[i] = m
    BY <1>8 DEF Surjection
  <2>2. \A k \in 1..n : k - 1 \in 0..(n - 1)
    BY <1>1
  <2> QED
    BY <2>1, <2>2
<1>10. ByMeasurementId(S) = [k \in 1..n |-> CHOOSE i \in S : Cardinality(Less(i)) = k - 1]
  BY DEF ByMeasurementId, Less, n
<1> QED
  BY <1>1, <1>9, <1>10 DEF n

\* The values of measurements, in the grid connection point.
LEMMA PhasedSound ==
    ASSUME NEW E, WellFormed("mData", E.m.data), NEW s, NEW direction, NEW phases
    PROVE  LET r == MeasurementPhaseSpecificDataForFilter(E, [scopeType |-> s], direction, phases)
               Of(d, i) == d.scopeType = s /\ i.measurementId = d.measurementId
           IN  /\ r.error # Nil => r.value = Nil
               /\ r.error = Nil =>
                    /\ r.value \in Seq(Nat) /\ E.ec # Nil
                    /\ \E d \in E.m.descs, i \in E.m.data : Of(d, i)
                    /\ r.value # <<>> => \E d \in E.m.descs, i \in E.m.data : Of(d, i) /\ i.value \in Nat
<1> DEFINE found == GetDataForFilter(E.m, [scopeType |-> s])
           Params(i) == GetParameterDescriptionsForFilter(E.ec, [measurementId |-> i.measurementId])
           Connection(i) == GetDescriptionForParameterDescriptionFilter(E.ec, [measurementId |-> i.measurementId])
           Wrong(i) == direction # Nil /\ \A d \in Connection(i) : d.positiveEnergyDirection # direction
           S == {i \in found : /\ i.value # Nil
                               /\ phases = Nil \/ (Params(i) # {} /\ FirstParameter(Params(i)).phases \in phases)
                               /\ direction = Nil \/ Connection(i) # {}}
           items == ByMeasurementId(S)
           ends == {k \in DOMAIN items : Wrong(items[k]) \/ ~StateNormal(items[k])}
           end == CHOOSE k \in ends : \A l \in ends : k <= l
           values == [k \in DOMAIN items |-> items[k].value]
           r == MeasurementPhaseSpecificDataForFilter(E, [scopeType |-> s], direction, phases)
           Of(d, i) == d.scopeType = s /\ i.measurementId = d.measurementId
<1>1. r = CASE E.ec = Nil -> Err("MetadataNotAvailable")
            [] E.ec # Nil /\ found = {} -> NotAvailable
            [] E.ec # Nil /\ found # {} /\ ends = {} -> Ok(values)
            [] OTHER -> IF Wrong(items[end]) THEN Ok(<<>>) ELSE Err("DataInvalid")
  BY DEF MeasurementPhaseSpecificDataForFilter
<1>2. \A i \in found : i \in E.m.data /\ \E d \in E.m.descs : Of(d, i)
  BY MeasuredIs
<1>3. S \subseteq found /\ \A i \in S : i.value # Nil
  OBVIOUS
<1> HIDE DEF r, Wrong, S, found, ends, end, Of
<1>4. \A i \in S : i \in E.m.data /\ i.value \in Nat /\ i.measurementId \in Nat
  BY <1>2, <1>3 DEF WellFormed, IdOf, ValueParts
<1>5. IsFiniteSet(S) /\ \A i, j \in S : i.measurementId = j.measurementId => i = j
  <2>1. S \in SUBSET E.m.data /\ IsFiniteSet(E.m.data)
    BY <1>4 DEF WellFormed
  <2>2. \A i, j \in E.m.data : i.measurementId = j.measurementId => i = j
    BY DEF WellFormed, IdOf
  <2> QED
    BY <2>1, <2>2, FS_Subset
<1>6. /\ Cardinality(S) \in Nat /\ DOMAIN items = 1..Cardinality(S)
      /\ \A k \in DOMAIN items : items[k] \in S
  BY <1>4, <1>5, ByMeasurementIdIs
<1> HIDE DEF items
<1>7. values \in Seq(Nat) /\ values = [k \in 1..Cardinality(S) |-> items[k].value]
  BY <1>4, <1>6
<1>8. values # <<>> => \E i \in S : i.value \in Nat
  BY <1>4, <1>6, <1>7
<1> HIDE DEF values
<1>9. "MetadataNotAvailable" \in Errors /\ "DataInvalid" \in Errors
  BY DEF Errors
<1>10. \/ r \in {Err("MetadataNotAvailable"), NotAvailable, Err("DataInvalid")}
       \/ E.ec # Nil /\ found # {} /\ (r = Ok(values) \/ r = Ok(<<>>))
  BY <1>1
<1>11. \A v : Ok(v).error = Nil /\ Ok(v).value = v
  BY Answers
<1>12. CASE r \in {Err("MetadataNotAvailable"), NotAvailable, Err("DataInvalid")}
  <2>1. r.error # Nil /\ r.value = Nil
    BY <1>9, <1>12, Answers
  <2> QED
    BY <2>1 DEF r
<1>13. CASE E.ec # Nil /\ found # {} /\ r = Ok(values)
  <2>1. r.error = Nil /\ r.value = values
    BY <1>11, <1>13
  <2>2. \E d \in E.m.descs, i \in E.m.data : Of(d, i)
    BY <1>2, <1>13
  <2>3. values # <<>> => \E d \in E.m.descs, i \in E.m.data : Of(d, i) /\ i.value \in Nat
    BY <1>2, <1>3, <1>8
  <2> QED
    BY <1>7, <1>13, <2>1, <2>2, <2>3 DEF r, Of
<1>14. CASE E.ec # Nil /\ found # {} /\ r = Ok(<<>>)
  <2>1. r.error = Nil /\ r.value = <<>> /\ <<>> \in Seq(Nat)
    BY <1>11, <1>14
  <2>2. \E d \in E.m.descs, i \in E.m.data : Of(d, i)
    BY <1>2, <1>14
  <2> QED
    BY <1>14, <2>1, <2>2 DEF r, Of
<1> QED
  BY <1>10, <1>12, <1>13, <1>14

\* The first measurement of a scope.
LEMMA FirstSound ==
    ASSUME NEW E, WellFormed("mData", E.m.data), NEW s,
           NEW r \in {MgcpValue(E, s), VabdGetValuesFoFilter(E, [scopeType |-> s])}
    PROVE  /\ Typed(r)
           /\ r.error = Nil => \E d \in E.m.descs, i \in E.m.data :
                d.scopeType = s /\ i.measurementId = d.measurementId /\ i.value # Nil
<1> DEFINE found == GetDataForFilter(E.m, [scopeType |-> s])
           item == First(found, "measurementId")
           Of(d, i) == d.scopeType = s /\ i.measurementId = d.measurementId
<1>1. \A i \in found : i \in E.m.data /\ \E d \in E.m.descs : Of(d, i)
  BY MeasuredIs
<1>2. "DataInvalid" \in Errors
  BY DEF Errors
<1>3. r \in {NotAvailable, Err("DataInvalid")} \/ (found # {} /\ item.value # Nil /\ r = Ok(item.value))
  BY DEF MgcpValue, VabdGetValuesFoFilter
<1> HIDE DEF found, Of
<1>4. CASE r \in {NotAvailable, Err("DataInvalid")}
  BY <1>2, <1>4, Answers DEF Typed
<1>5. CASE found # {} /\ item.value # Nil /\ r = Ok(item.value)
  <2>1. \A i \in found : i["measurementId"] \in Nat
    BY <1>1 DEF WellFormed, IdOf
  <2>2. item \in found
    BY <1>5, <2>1, FirstIs
  <2>3. Typed(r)
    BY <1>5, Answers DEF Typed
  <2>4. item \in E.m.data /\ \E d \in E.m.descs : Of(d, item)
    BY <1>1, <2>2
  <2> QED
    BY <1>5, <2>3, <2>4 DEF Of
<1> QED
  BY <1>3, <1>4, <1>5

\* The value of a key.
LEMMA KeySound ==
    ASSUME NEW E, WellFormed("keyDescs", E.dc.descs), WellFormed("keyValues", E.dc.data), NEW name, NEW type,
           NEW r,
           LET found == GetKeyValueDataForFilter(E.dc, [keyName |-> name, valueType |-> type])
           IN  r = IF \A i \in found : i.value = Nil THEN NotAvailable ELSE Ok(First(found, "keyId").value)
    PROVE  /\ Typed(r)
           /\ r.error = Nil => \E d \in E.dc.descs, i \in E.dc.data :
                d.keyName = name /\ d.valueType = type /\ i.keyId = d.keyId
<1> DEFINE found == GetKeyValueDataForFilter(E.dc, [keyName |-> name, valueType |-> type])
           item == First(found, "keyId")
           Of(d, i) == d.keyName = name /\ d.valueType = type /\ i.keyId = d.keyId
<1>1. \A i \in found : i \in E.dc.data /\ \E d \in E.dc.descs : Of(d, i)
  BY KeyIs
<1>2. \A i, j \in found : i.keyId = j.keyId
  BY KeyOnce
<1>3. r = IF \A i \in found : i.value = Nil THEN NotAvailable ELSE Ok(item.value)
  OBVIOUS
<1> HIDE DEF found, Of
<1>4. \A i, j \in found : i = j
  BY <1>1, <1>2 DEF WellFormed, IdOf
<1>5. CASE \A i \in found : i.value = Nil
  BY <1>3, <1>5, Answers DEF Typed
<1>6. CASE \E i \in found : i.value # Nil
  <2>1. PICK i \in found : i.value # Nil
    BY <1>6
  <2>2. \A j \in found : j["keyId"] \in Nat
    BY <1>1 DEF WellFormed, IdOf
  <2>3. item \in found
    BY <2>1, <2>2, FirstIs
  <2>4. item = i
    BY <1>4, <2>1, <2>3
  <2>5. Typed(r)
    BY <1>3, <1>6, <2>1, <2>4, Answers DEF Typed
  <2>6. \E d \in E.dc.descs, j \in E.dc.data : Of(d, j)
    BY <1>1, <2>1
  <2> QED
    BY <2>5, <2>6 DEF Of
<1> QED
  BY <1>5, <1>6

\* What a limit is read from: its descriptions and the limits of its direction.
LimitFrom(descs, limits) ==
    LET found == {i \in limits : i.limitId = First(descs, "limitId").limitId}
        item == First(found, "limitId")
    IN CASE Cardinality(descs) # 1 -> NotAvailable
         [] Cardinality(descs) = 1 /\ (found = {} \/ item.value = Nil) -> NotAvailable
         [] OTHER -> Ok([value |-> item.value,
                         isChangeable |-> item.isLimitChangeable = TRUE,
                         isActive |-> item.isLimitActive = TRUE,
                         duration |-> IF item.timePeriod = Nil THEN 0 ELSE item.timePeriod])
OwnDescs(e, c, desc) ==
    {d \in ItemsOf(e, c, desc) : d.limitDirection = Direction[desc] /\ d.scopeType = "activePowerLimit"}

\* Nothing else matters for a limit.
LEMMA LimitReadIs ==
    ASSUME NEW e \in Entities, NEW c, VersionsOf(e, c), NEW desc \in DOMAIN LimitOf
    PROVE  LimitRead(DataOf(e, c), Direction[desc]) =
              LimitFrom(OwnDescs(e, c, desc), ItemsOf(e, c, LimitOf[desc]))
<1> DEFINE lc == DataOf(e, c).lc
           descs == GetLimitDescriptionsForFilter(lc, [limitDirection |-> Direction[desc],
                                                       scopeType |-> "activePowerLimit"])
           own == OwnDescs(e, c, desc)
           id == First(descs, "limitId").limitId
           found == GetLimitDataForId(lc, id)
           limits == {i \in ItemsOf(e, c, LimitOf[desc]) : i.limitId = id}
<1>1. ItemsOf(e, c, desc) \subseteq lc.descs /\ ItemsOf(e, c, LimitOf[desc]) \subseteq lc.data
  BY DataIs DEF LimitOf
<1>2. \A d : d \in descs <=> d \in lc.descs /\ d.limitDirection = Direction[desc]
                             /\ d.scopeType = "activePowerLimit"
  BY DEF GetLimitDescriptionsForFilter, SearchFilterInList, SearchFilterInItem
<1>3. \A d \in lc.descs : d.limitDirection = Direction[desc] => d \in ItemsOf(e, c, desc)
  BY LimitOwn
<1> HIDE DEF lc, descs
<1>4. descs = own
  <2>1. \A d : d \in own <=> d \in ItemsOf(e, c, desc) /\ d.limitDirection = Direction[desc]
                             /\ d.scopeType = "activePowerLimit"
    BY DEF OwnDescs
  <2>2. \A d : d \in descs <=> d \in own
    BY <1>1, <1>2, <1>3, <2>1
  <2> QED
    BY <2>2
<1>5. ASSUME Cardinality(descs) = 1 PROVE found = limits
  <2>1. WellFormed(desc, ItemsOf(e, c, desc)) /\ desc \in Listed
    <3>1. desc \in Listed
      BY DEF Listed
    <3> QED
      BY <3>1, ItemsAre
  <2>2. IsFiniteSet(ItemsOf(e, c, desc)) /\ descs \in SUBSET ItemsOf(e, c, desc)
    BY <1>4, <2>1 DEF WellFormed, OwnDescs
  <2>3. IsFiniteSet(descs)
    BY <2>2, FS_Subset
  <2>4. PICK d : descs = {d}
    BY <1>5, <2>3, FS_Singleton
  <2>5. d.limitId \in Nat /\ d \in lc.descs /\ d.limitDirection = Direction[desc]
    BY <1>2, <2>1, <2>2, <2>4 DEF WellFormed, IdOf, LimitOf
  <2>6. First(descs, "limitId") = d
    <3>1. \A x \in descs : x["limitId"] \in Nat
      BY <2>4, <2>5
    <3>2. First(descs, "limitId") \in descs
      BY <2>4, <3>1, FirstIs
    <3> QED
      BY <2>4, <3>2
  <2>7. id = d.limitId
    BY <2>6
  <2> HIDE DEF id
  <2>8. \A i : i \in found <=> i \in lc.data /\ i.limitId = id
    <3> DEFINE Of(x) == SearchFilterInList(lc.data, [limitId |-> x.limitId])
    <3>1. \A x, i : i \in Of(x) <=> i \in lc.data /\ i.limitId = x.limitId
      BY DEF SearchFilterInList, SearchFilterInItem
    <3>2. GetLimitDescriptionsForFilter(lc, [limitId |-> id]) = {x \in lc.descs : x.limitId = id}
      BY DEF GetLimitDescriptionsForFilter, SearchFilterInList, SearchFilterInItem
    <3>3. found = UNION {Of(x) : x \in {x \in lc.descs : x.limitId = id}}
      BY <3>2 DEF GetLimitDataForId, GetLimitDataForFilter
    <3> HIDE DEF Of
    <3> QED
      BY <2>5, <2>7, <3>1, <3>3
  <2>9. \A i \in lc.data : i.limitId = d.limitId => i \in ItemsOf(e, c, LimitOf[desc])
    BY <2>5, LimitOwn DEF lc
  <2> HIDE DEF found
  <2>10. \A i : i \in found <=> i \in limits
    BY <1>1, <2>7, <2>8, <2>9
  <2> QED
    BY <2>10
<1>6. LimitRead(DataOf(e, c), Direction[desc]) =
         LET item == First(found, "limitId")
         IN CASE Cardinality(descs) # 1 -> NotAvailable
              [] Cardinality(descs) = 1 /\ (found = {} \/ item.value = Nil) -> NotAvailable
              [] OTHER -> Ok([value |-> item.value,
                              isChangeable |-> item.isLimitChangeable = TRUE,
                              isActive |-> item.isLimitActive = TRUE,
                              duration |-> IF item.timePeriod = Nil THEN 0 ELSE item.timePeriod])
  BY DEF LimitRead, lc, descs
<1>7. LimitFrom(descs, ItemsOf(e, c, LimitOf[desc])) =
         LET item == First(limits, "limitId")
         IN CASE Cardinality(descs) # 1 -> NotAvailable
              [] Cardinality(descs) = 1 /\ (limits = {} \/ item.value = Nil) -> NotAvailable
              [] OTHER -> Ok([value |-> item.value,
                              isChangeable |-> item.isLimitChangeable = TRUE,
                              isActive |-> item.isLimitActive = TRUE,
                              duration |-> IF item.timePeriod = Nil THEN 0 ELSE item.timePeriod])
  BY DEF LimitFrom
<1> HIDE DEF id, found, limits
<1>8. CASE Cardinality(descs) = 1
  BY <1>4, <1>5, <1>6, <1>7, <1>8
<1>9. CASE Cardinality(descs) # 1
  BY <1>4, <1>6, <1>7, <1>9
<1> QED
  BY <1>8, <1>9

\* A limit.
LEMMA LimitSound ==
    ASSUME NEW e \in Entities, NEW c, VersionsOf(e, c), NEW desc \in DOMAIN LimitOf, NEW r,
           r = LimitRead(DataOf(e, c), Direction[desc])
    PROVE  /\ Typed(r)
           /\ r.error = Nil => \E d \in ItemsOf(e, c, desc), i \in ItemsOf(e, c, LimitOf[desc]) :
                /\ d.limitDirection = Direction[desc] /\ d.scopeType = "activePowerLimit"
                /\ i.limitId = d.limitId /\ i.value # Nil
<1> DEFINE descs == OwnDescs(e, c, desc)
           limits == ItemsOf(e, c, LimitOf[desc])
           found == {i \in limits : i.limitId = First(descs, "limitId").limitId}
           item == First(found, "limitId")
           value == [value |-> item.value,
                     isChangeable |-> item.isLimitChangeable = TRUE,
                     isActive |-> item.isLimitActive = TRUE,
                     duration |-> IF item.timePeriod = Nil THEN 0 ELSE item.timePeriod]
<1>1. desc \in Listed /\ LimitOf[desc] \in Listed
  BY DEF Listed, LimitOf, ValueParts
<1>2. WellFormed(desc, ItemsOf(e, c, desc)) /\ WellFormed(LimitOf[desc], limits)
  BY <1>1, ItemsAre
<1>3. r = NotAvailable \/ (Cardinality(descs) = 1 /\ found # {} /\ item.value # Nil /\ r = Ok(value))
  <2>1. r = LimitFrom(descs, limits)
    BY LimitReadIs
  <2> HIDE DEF descs, limits
  <2> QED
    BY <2>1, Zenon DEF LimitFrom
<1>4. CASE r = NotAvailable
  BY <1>4, Answers DEF Typed
<1>5. CASE Cardinality(descs) = 1 /\ found # {} /\ item.value # Nil /\ r = Ok(value)
  <2>1. descs # {} /\ \A d \in descs : d["limitId"] \in Nat
    <3>1. descs # {}
      BY <1>5, FS_EmptySet
    <3> QED
      BY <1>2, <3>1 DEF OwnDescs, WellFormed, IdOf, LimitOf
  <2>2. First(descs, "limitId") \in descs
    BY <2>1, FirstIs
  <2>3. \A i \in found : i["limitId"] \in Nat
    BY <1>2 DEF WellFormed, IdOf, LimitOf
  <2> HIDE DEF found
  <2>4. item \in found
    BY <1>5, <2>3, FirstIs
  <2>5. item \in limits /\ item.limitId = First(descs, "limitId").limitId
    BY <2>4 DEF found
  <2>6. item.value \in Nat /\ item.timePeriod \in Nat \union {Nil}
    BY <1>2, <1>5, <2>5 DEF WellFormed, LimitOf, ValueParts
  <2> HIDE DEF item
  <2>7. value \in [value : Nat, isChangeable : BOOLEAN, isActive : BOOLEAN, duration : Nat]
    BY <2>6
  <2>8. Typed(r)
    <3> HIDE DEF value
    <3>1. value # Nil
      BY <2>7, NilIs
    <3>2. r.error = Nil /\ r.value = value
      BY <1>5, Answers
    <3> QED
      BY <3>1, <3>2 DEF Typed
  <2> QED
    BY <1>5, <2>2, <2>5, <2>8 DEF OwnDescs
<1> QED
  BY <1>3, <1>4, <1>5

\* Nothing but the measurements, the parameters and the connections matters for the
\* values of the grid connection point.
LEMMA PhasedDepends ==
    ASSUME NEW E, NEW F, E.m = F.m, E.ec = Nil <=> F.ec = Nil,
           E.ec # Nil => E.ec.descs = F.ec.descs /\ E.ec.params = F.ec.params,
           NEW filter, NEW direction, NEW phases
    PROVE  MeasurementPhaseSpecificDataForFilter(E, filter, direction, phases) =
           MeasurementPhaseSpecificDataForFilter(F, filter, direction, phases)
<1> DEFINE found == GetDataForFilter(E.m, filter)
           Params(G, i) == GetParameterDescriptionsForFilter(G.ec, [measurementId |-> i.measurementId])
           Connection(G, i) == GetDescriptionForParameterDescriptionFilter(G.ec, [measurementId |-> i.measurementId])
           Wrong(G, i) == direction # Nil /\ \A d \in Connection(G, i) : d.positiveEnergyDirection # direction
           S(G) == {i \in found : /\ i.value # Nil
                                  /\ phases = Nil \/ (Params(G, i) # {} /\ FirstParameter(Params(G, i)).phases \in phases)
                                  /\ direction = Nil \/ Connection(G, i) # {}}
           items(G) == ByMeasurementId(S(G))
           ends(G) == {k \in DOMAIN items(G) : Wrong(G, items(G)[k]) \/ ~StateNormal(items(G)[k])}
           end(G) == CHOOSE k \in ends(G) : \A l \in ends(G) : k <= l
           r(G) == CASE G.ec = Nil -> Err("MetadataNotAvailable")
                     [] G.ec # Nil /\ found = {} -> NotAvailable
                     [] G.ec # Nil /\ found # {} /\ ends(G) = {} ->
                            Ok([k \in DOMAIN items(G) |-> items(G)[k].value])
                     [] OTHER -> IF Wrong(G, items(G)[end(G)]) THEN Ok(<<>>) ELSE Err("DataInvalid")
<1>1. /\ MeasurementPhaseSpecificDataForFilter(E, filter, direction, phases) = r(E)
      /\ MeasurementPhaseSpecificDataForFilter(F, filter, direction, phases) = r(F)
  BY DEF MeasurementPhaseSpecificDataForFilter
<1>2. CASE E.ec = Nil
  BY <1>1, <1>2
<1>3. CASE E.ec # Nil
  <2>1. \A i : Params(E, i) = Params(F, i)
    BY <1>3 DEF GetParameterDescriptionsForFilter
  <2>2. \A i : Connection(E, i) = Connection(F, i)
    BY <1>3, <2>1 DEF GetDescriptionForParameterDescriptionFilter, GetParameterDescriptionsForFilter
  <2> HIDE DEF Params, Connection
  <2>3. \A i : Wrong(E, i) <=> Wrong(F, i)
    BY <2>2
  <2>4. S(E) = S(F)
    BY <2>1, <2>2
  <2> HIDE DEF Wrong, S
  <2>5. items(E) = items(F)
    BY <2>4
  <2> HIDE DEF items
  <2>6. ends(E) = ends(F)
    BY <2>3, <2>5
  <2> HIDE DEF ends
  <2>7. end(E) = end(F)
    BY <2>6
  <2> HIDE DEF end
  <2>8. r(E) = r(F)
    <3>1. F.ec # Nil
      BY <1>3
    <3>2. Wrong(E, items(E)[end(E)]) <=> Wrong(F, items(F)[end(F)])
      BY <2>3, <2>5, <2>7
    <3>3. [k \in DOMAIN items(E) |-> items(E)[k].value] = [k \in DOMAIN items(F) |-> items(F)[k].value]
      BY <2>5
    <3> QED
      BY <1>3, <2>6, <3>1, <3>2, <3>3
  <2> QED
    BY <1>1, <2>8
<1> QED
  BY <1>2, <1>3

\* A quantity is read without an error from the descriptions and the values held of
\* its part only, and it has a value then.
LEMMA ReadSound ==
    ASSUME NEW e \in Entities, NEW c, VersionsOf(e, c), NEW uc \in UseCases, NEW q \in Values[uc] \ Heartbeats
    PROVE  LET r == Read(q, DataOf(e, c))
           IN  /\ Typed(r)
               /\ r.error = Nil => c[DescOf[ValuePart(q)]] = 1 /\ c[ValuePart(q)] # Nil
               /\ ~NothingToRead(q, r) => Match(e, q, c)
<1> DEFINE E == DataOf(e, c)
           r == Read(q, E)
           Present == c[DescOf[ValuePart(q)]] = 1 /\ c[ValuePart(q)] # Nil
<1>1. /\ WellFormed("mData", E.m.data) /\ WellFormed("keyDescs", E.dc.descs)
      /\ WellFormed("keyValues", E.dc.data)
  <2>1. \A p \in {"mData", "keyDescs", "keyValues"} : p \in Listed
    BY DEF Listed, ValueParts
  <2> QED
    BY <2>1, ItemsAre, DataIs
<1>2. \A p \in {"keyDescs", "mDescs", "keyValues", "mData"} : ItemsOf(e, c, p) # {} => c[p] # Nil
  BY DEF ItemsOf
<1>3. \A p \in {"keyDescs", "mDescs"} : c[p] # Nil => c[p] = 1
  BY PartsAre DEF VersionsOf, ValueParts
<1>4. CASE q \in DOMAIN ScopeOf
  <2>1. DescOf[ValuePart(q)] = "mDescs" /\ ValuePart(q) = "mData"
    BY <1>4, ValuesAre DEF DescOf
  <2>2. (\E d \in E.m.descs, i \in E.m.data : TRUE) => Present
    BY <1>2, <1>3, <2>1, DataIs
  <2>3. (\E d \in E.m.descs, i \in E.m.data : MeasuredAs(q, d, i)) => Match(e, q, c)
    BY <1>4, <2>1, TellsMeasured, DataIs DEF Match
  <2>4. CASE q \notin Directed
    <3>1. r \in {MgcpValue(E, ScopeOf[q]), VabdGetValuesFoFilter(E, [scopeType |-> ScopeOf[q]])}
      BY <1>4, <2>4, ReadIs
    <3> HIDE DEF r, E, Present
    <3>2. /\ Typed(r)
          /\ r.error = Nil => \E d \in E.m.descs, i \in E.m.data :
                d.scopeType = ScopeOf[q] /\ i.measurementId = d.measurementId /\ i.value # Nil
      BY <1>1, <3>1, FirstSound
    <3>3. r.error = Nil => \E d \in E.m.descs, i \in E.m.data : MeasuredAs(q, d, i)
      BY <3>2 DEF MeasuredAs
    <3>4. r.error = Nil => Present /\ Match(e, q, c)
      BY <2>2, <2>3, <3>3
    <3> QED
      BY <3>2, <3>4 DEF NothingToRead, r, E, Present
  <2>5. CASE q \in Directed
    <3> DEFINE direction == IF q = "mgcpVoltage" THEN Nil ELSE "consume"
               phases == IF q = "mgcpPower" THEN Nil ELSE Phases
               data == MeasurementPhaseSpecificDataForFilter(E, [scopeType |-> ScopeOf[q]], direction, phases)
               Of(d, i) == d.scopeType = ScopeOf[q] /\ i.measurementId = d.measurementId
    <3>1. q \in {"mgcpPower", "mgcpCurrent", "mgcpVoltage"}
      BY <2>5 DEF Directed
    <3>2. /\ q = "mgcpPower" => r = CASE data.error # Nil -> data
                                      [] data.error = Nil /\ Len(data.value) # 1 -> NotAvailable
                                      [] OTHER -> Ok(data.value[1])
          /\ q \in {"mgcpCurrent", "mgcpVoltage"} => r = data
      BY <3>1, ReadIs DEF MgcpPower, MgcpCurrentPerPhase, MgcpVoltagePerPhase, ScopeOf
    <3>3. /\ data.error # Nil => data.value = Nil
          /\ data.error = Nil =>
               /\ data.value \in Seq(Nat) /\ E.ec # Nil
               /\ \E d \in E.m.descs, i \in E.m.data : Of(d, i)
               /\ data.value # <<>> => \E d \in E.m.descs, i \in E.m.data : Of(d, i) /\ i.value \in Nat
      BY <1>1, PhasedSound
    <3> HIDE DEF r, E, Present, data, direction, phases
    <3>4. data.error = Nil => Present
      BY <2>2, <3>3
    <3>5. data.error = Nil /\ data.value # <<>> => Match(e, q, c)
      <4>1. data.error = Nil /\ data.value # <<>> => \E d \in E.m.descs, i \in E.m.data : MeasuredAs(q, d, i)
        BY <3>3, NilIs DEF MeasuredAs
      <4> QED
        BY <2>3, <4>1
    <3>6. CASE q = "mgcpPower"
      <4>1. r = data \/ r = NotAvailable \/ (data.error = Nil /\ Len(data.value) = 1 /\ r = Ok(data.value[1]))
        BY <3>2, <3>6
      <4>2. CASE r = data /\ data.error # Nil
        BY <3>3, <4>2 DEF Typed, NothingToRead, r, E, Present
      <4>3. CASE r = NotAvailable
        BY <4>3, Answers DEF Typed, NothingToRead, r, E, Present
      <4>4. CASE data.error = Nil /\ Len(data.value) = 1 /\ r = Ok(data.value[1])
        <5>1. data.value[1] \in Nat /\ data.value # <<>>
          BY <3>3, <4>4
        <5>2. Typed(r)
          BY <4>4, <5>1, NilIs, Answers DEF Typed
        <5> QED
          BY <3>4, <3>5, <4>4, <5>1, <5>2 DEF r, E, Present
      <4> QED
        BY <3>2, <3>6, <4>1, <4>2, <4>3, <4>4
    <3>7. CASE q \in {"mgcpCurrent", "mgcpVoltage"}
      <4>1. Typed(data)
        BY <3>3, NilIs DEF Typed
      <4>2. ~NothingToRead(q, data) => Match(e, q, c)
        BY <3>5, <3>7 DEF NothingToRead
      <4> QED
        BY <3>2, <3>4, <3>7, <4>1, <4>2 DEF r, E, Present
    <3> QED
      BY <3>1, <3>6, <3>7
  <2> QED
    BY <2>4, <2>5
<1>5. CASE q \in DOMAIN KeyOf
  <2>1. DescOf[ValuePart(q)] = "keyDescs" /\ ValuePart(q) = "keyValues"
    BY <1>5, ValuesAre DEF DescOf
  <2>2. (\E d \in E.dc.descs, i \in E.dc.data : TRUE) => Present
    BY <1>2, <1>3, <2>1, DataIs
  <2>3. (\E d \in E.dc.descs, i \in E.dc.data : KeyedAs(q, d, i)) => Match(e, q, c)
    BY <1>5, <2>1, TellsKey, DataIs DEF Match
  <2> DEFINE type == IF q \in Durations THEN "duration" ELSE "scaledNumber"
             found == GetKeyValueDataForFilter(E.dc, [keyName |-> KeyOf[q], valueType |-> type])
  <2>4. r = IF \A i \in found : i.value = Nil THEN NotAvailable ELSE Ok(First(found, "keyId").value)
    BY <1>5, ReadIs DEF ScaledKey, DurationKeyRead, KeyOf, Durations
  <2>5. q = "vapdPeak" => type = "scaledNumber"
    BY DEF Durations
  <2> HIDE DEF r, E, Present, type
  <2>6. /\ Typed(r)
        /\ r.error = Nil => \E d \in E.dc.descs, i \in E.dc.data :
             d.keyName = KeyOf[q] /\ d.valueType = type /\ i.keyId = d.keyId
    BY <1>1, <2>4, KeySound
  <2>7. r.error = Nil => \E d \in E.dc.descs, i \in E.dc.data : KeyedAs(q, d, i)
    BY <2>5, <2>6 DEF KeyedAs
  <2>8. r.error = Nil => Present /\ Match(e, q, c)
    BY <2>2, <2>3, <2>7
  <2> QED
    BY <2>6, <2>8 DEF NothingToRead, r, E, Present
<1>6. CASE q \in DOMAIN DirectionOf
  <2> DEFINE desc == DescOf[ValuePart(q)]
  <2>1. desc \in DOMAIN LimitOf /\ Direction[desc] = DirectionOf[q] /\ LimitOf[desc] = ValuePart(q)
    BY <1>6 DEF DescOf, ValuePart, DirectionOf, LimitOf, Direction
  <2>2. r = LimitRead(E, Direction[desc])
    BY <1>6, <2>1, ReadIs
  <2> HIDE DEF r, desc
  <2>3. /\ Typed(r)
        /\ r.error = Nil => \E d \in ItemsOf(e, c, desc), i \in ItemsOf(e, c, LimitOf[desc]) :
             /\ d.limitDirection = Direction[desc] /\ d.scopeType = "activePowerLimit"
             /\ i.limitId = d.limitId /\ i.value # Nil
    BY <2>1, <2>2, LimitSound
  <2>4. r.error = Nil => \E d \in ItemsOf(e, c, desc), i \in ItemsOf(e, c, ValuePart(q)) : LimitedAs(q, d, i)
    BY <2>1, <2>3 DEF LimitedAs
  <2>5. r.error = Nil => Present
    <3>1. desc \in Parts /\ desc \notin ValueParts
      BY <2>1, PartsAre DEF LimitOf, ValueParts
    <3>2. r.error = Nil => c[desc] # Nil /\ c[ValuePart(q)] # Nil
      BY <2>4 DEF ItemsOf
    <3> QED
      BY <3>1, <3>2 DEF VersionsOf, desc
  <2>6. ItemsOf(e, c, desc) \subseteq E.lc.descs
    BY <2>1, DataIs DEF LimitOf
  <2> HIDE DEF E, Present
  <2>7. r.error = Nil => Match(e, q, c)
    <3>1. r.error = Nil => \E d \in E.lc.descs, i \in ItemsOf(e, c, ValuePart(q)) : LimitedAs(q, d, i)
      BY <2>4, <2>6
    <3> QED
      BY <1>6, <3>1, TellsLimit DEF Match, E
  <2> QED
    BY <2>3, <2>5, <2>7 DEF NothingToRead, r, E, Present
<1> QED
  BY <1>4, <1>5, <1>6, ValuesAre

\* A feature that an entity has is not Nil.
LEMMA ConnectionIsNotNil ==
    ASSUME NEW e \in Entities, NEW c, VersionsOf(e, c), "ElectricalConnection" \in e.features
    PROVE  DataOf(e, c).ec # Nil
<1> DEFINE ecParts == {"ecDescs", "ecParams", "ecChars"}
           lists == {{}} \union {e.data[p][1] : p \in ecParts}
<1>1. \A p \in ecParts : p \in Parts /\ p \notin ValueParts
  BY PartsAre DEF ValueParts
<1>2. \A p \in ecParts : ItemsOf(e, c, p) \in lists
  BY <1>1 DEF VersionsOf, ItemsOf
<1>3. Nil \notin [descs : lists, params : lists, chars : lists]
  BY RemoteDataAssumption
<1> HIDE DEF lists
<1>4. DataOf(e, c).ec = [descs |-> ItemsOf(e, c, "ecDescs"), params |-> ItemsOf(e, c, "ecParams"),
                         chars |-> ItemsOf(e, c, "ecChars")]
  BY DEF DataOf
<1> QED
  BY <1>2, <1>3, <1>4

\* Nothing but the descriptions and values of its part matters for a reading, and the
\* lists of the electrical connection for a directed one.
LEMMA ReadDepends ==
    ASSUME NEW e \in Entities, NEW c, VersionsOf(e, c), NEW o, VersionsOf(e, o),
           NEW uc \in UseCases, NEW q \in Values[uc] \ Heartbeats,
           c[DescOf[ValuePart(q)]] = o[DescOf[ValuePart(q)]], c[ValuePart(q)] = o[ValuePart(q)],
           q \in Directed /\ "ElectricalConnection" \in e.features =>
               c["ecDescs"] = o["ecDescs"] /\ c["ecParams"] = o["ecParams"]
    PROVE  Read(q, DataOf(e, c)) = Read(q, DataOf(e, o))
<1> DEFINE E == DataOf(e, c)
           F == DataOf(e, o)
<1>1. \A p : c[p] = o[p] => ItemsOf(e, c, p) = ItemsOf(e, o, p)
  BY DEF ItemsOf
<1>2. CASE q \in DOMAIN ScopeOf
  <2>1. E.m = F.m
    <3>1. ItemsOf(e, c, "mDescs") = ItemsOf(e, o, "mDescs") /\ ItemsOf(e, c, "mData") = ItemsOf(e, o, "mData")
      BY <1>1, <1>2, ValuesAre DEF DescOf
    <3> QED
      BY <3>1 DEF DataOf
  <2>2. q \in Directed =>
           /\ E.ec = Nil <=> F.ec = Nil
           /\ E.ec # Nil => E.ec.descs = F.ec.descs /\ E.ec.params = F.ec.params
    <3>1. CASE "ElectricalConnection" \notin e.features
      BY <3>1 DEF DataOf
    <3>2. CASE "ElectricalConnection" \in e.features /\ q \in Directed
      <4>1. ItemsOf(e, c, "ecDescs") = ItemsOf(e, o, "ecDescs")
            /\ ItemsOf(e, c, "ecParams") = ItemsOf(e, o, "ecParams")
        BY <1>1, <3>2
      <4>2. E.ec = [descs |-> ItemsOf(e, c, "ecDescs"), params |-> ItemsOf(e, c, "ecParams"),
                    chars |-> ItemsOf(e, c, "ecChars")]
            /\ F.ec = [descs |-> ItemsOf(e, o, "ecDescs"), params |-> ItemsOf(e, o, "ecParams"),
                       chars |-> ItemsOf(e, o, "ecChars")]
        BY <3>2 DEF DataOf
      <4>3. E.ec # Nil /\ F.ec # Nil
        BY <3>2, ConnectionIsNotNil
      <4> QED
        BY <4>1, <4>2, <4>3
    <3> QED
      BY <3>1, <3>2
  <2> HIDE DEF E, F
  <2>3. CASE q \in Directed
    <3>1. \A filter, direction, phases :
             MeasurementPhaseSpecificDataForFilter(E, filter, direction, phases) =
             MeasurementPhaseSpecificDataForFilter(F, filter, direction, phases)
      BY <2>1, <2>2, <2>3, PhasedDepends
    <3>2. MgcpPower(E) = MgcpPower(F) /\ MgcpCurrentPerPhase(E) = MgcpCurrentPerPhase(F)
          /\ MgcpVoltagePerPhase(E) = MgcpVoltagePerPhase(F)
      BY <3>1 DEF MgcpPower, MgcpCurrentPerPhase, MgcpVoltagePerPhase
    <3> QED
      BY <2>3, <3>2, ReadIs DEF Directed, E, F
  <2>4. CASE q \notin Directed
    <3>1. \A s : MgcpValue(E, s) = MgcpValue(F, s)
      BY <2>1 DEF MgcpValue
    <3>2. \A filter : VabdGetValuesFoFilter(E, filter) = VabdGetValuesFoFilter(F, filter)
      BY <2>1 DEF VabdGetValuesFoFilter
    <3>3. CASE q \in {"mgcpFeedIn", "mgcpConsumed", "mgcpFrequency"}
      BY <3>1, <3>3, ReadIs DEF E, F
    <3>4. CASE q \notin {"mgcpFeedIn", "mgcpConsumed", "mgcpFrequency"}
      <4>1. q \in DOMAIN ScopeOf \ ({"mgcpFeedIn", "mgcpConsumed", "mgcpFrequency"} \union Directed)
        BY <1>2, <2>4, <3>4
      <4>2. Read(q, E) = VabdGetValuesFoFilter(E, [scopeType |-> ScopeOf[q]])
        BY <4>1, ReadIs
      <4>3. Read(q, F) = VabdGetValuesFoFilter(F, [scopeType |-> ScopeOf[q]])
        BY <4>1, ReadIs
      <4> QED
        BY <3>2, <4>2, <4>3 DEF E, F
    <3> QED
      BY <3>3, <3>4
  <2> QED
    BY <2>3, <2>4
<1>3. CASE q \in DOMAIN KeyOf
  <2>1. E.dc = F.dc
    <3>1. ItemsOf(e, c, "keyDescs") = ItemsOf(e, o, "keyDescs")
          /\ ItemsOf(e, c, "keyValues") = ItemsOf(e, o, "keyValues")
      BY <1>1, <1>3, ValuesAre DEF DescOf
    <3> QED
      BY <3>1 DEF DataOf
  <2> HIDE DEF E, F
  <2>2. DurationKeyRead(E) = DurationKeyRead(F) /\ \A key : ScaledKey(E, key) = ScaledKey(F, key)
    BY <2>1 DEF DurationKeyRead, ScaledKey
  <2>3. CASE q \in Durations
    BY <2>2, <2>3, ReadIs DEF E, F
  <2>4. CASE q \notin Durations
    BY <1>3, <2>2, <2>4, ReadIs DEF E, F
  <2> QED
    BY <2>3, <2>4
<1>4. CASE q \in DOMAIN DirectionOf
  <2> DEFINE desc == DescOf[ValuePart(q)]
  <2>1. desc \in DOMAIN LimitOf /\ Direction[desc] = DirectionOf[q] /\ LimitOf[desc] = ValuePart(q)
    BY <1>4 DEF DescOf, ValuePart, DirectionOf, LimitOf, Direction
  <2>2. ItemsOf(e, c, desc) = ItemsOf(e, o, desc)
        /\ ItemsOf(e, c, LimitOf[desc]) = ItemsOf(e, o, LimitOf[desc])
    BY <1>1, <2>1
  <2>3. Read(q, E) = LimitRead(E, Direction[desc]) /\ Read(q, F) = LimitRead(F, Direction[desc])
    BY <1>4, <2>1, ReadIs
  <2> HIDE DEF desc
  <2>4. OwnDescs(e, c, desc) = OwnDescs(e, o, desc)
    BY <2>2 DEF OwnDescs
  <2>5. LimitRead(E, Direction[desc]) = LimitFrom(OwnDescs(e, c, desc), ItemsOf(e, c, LimitOf[desc]))
        /\ LimitRead(F, Direction[desc]) = LimitFrom(OwnDescs(e, o, desc), ItemsOf(e, o, LimitOf[desc]))
    BY <2>1, LimitReadIs
  <2> QED
    BY <2>2, <2>3, <2>4, <2>5
<1> QED
  BY <1>2, <1>3, <1>4, ValuesAre

\* An item that was published with a value has one as long as the device publishes it.
LEMMA ItemStays ==
    ASSUME NEW e \in Entities, NEW p \in ValueParts \ {"heartbeat"}, NEW v \in 1..MaxVersion,
           NEW w \in 1..MaxVersion, v <= w, NEW i \in e.data[p][v]
    PROVE  \E j \in e.data[p][w] : j[IdOf(p)] = i[IdOf(p)] /\ (i.value # Nil => j.value # Nil)
BY EntitiesAssumption DEF Kept

\* Who is told of a quantity by data that were published matches the data that are held.
LEMMA ToldMatches ==
    ASSUME NEW e \in Entities, NEW c, VersionsOf(e, c), NEW uc \in UseCases, NEW q \in Values[uc] \ Heartbeats,
           NEW parts, parts \subseteq ListOf(ValuePart(q)), \A p \in parts : c[p] # Nil,
           NEW payload, \A i \in payload : \E p \in parts : \E v \in 1..c[p] : i \in e.data[p][v],
           Tells(q, DataOf(e, c), payload)
    PROVE  Match(e, q, c)
<1> DEFINE E == DataOf(e, c)
<1>1. MaxVersion \in Nat
  BY RemoteDataAssumption
<1>2. /\ ListOf("keyValues") = {"keyValues"} /\ ListOf("mData") = {"mData"}
      /\ ListOf("consumeLimit") = {"consumeLimit", "produceLimit"}
      /\ ListOf("produceLimit") = {"consumeLimit", "produceLimit"}
  BY OneList DEF Lists
<1>3. \A p \in parts : p \in ValueParts \ {"heartbeat"} /\ p \in Parts
  <2>1. ValuePart(q) \in {"keyValues", "mData", "consumeLimit", "produceLimit"}
    BY ValuesAre
  <2>2. \A p \in parts : p \in {"keyValues", "mData", "consumeLimit", "produceLimit"}
    BY <1>2, <2>1
  <2> QED
    BY <2>2, PartsAre DEF ValueParts
<1>4. ASSUME NEW p \in parts, NEW v \in 1..c[p], NEW i \in e.data[p][v]
      PROVE  \E j \in ItemsOf(e, c, p) : j[IdOf(p)] = i[IdOf(p)] /\ (i.value # Nil => j.value # Nil)
  <2>1. c[p] \in 1..MaxVersion
    BY <1>3 DEF VersionsOf
  <2>2. v \in 1..MaxVersion /\ v <= c[p]
    BY <1>1, <2>1
  <2>3. ItemsOf(e, c, p) = e.data[p][c[p]]
    BY DEF ItemsOf
  <2> QED
    BY <1>3, <2>1, <2>2, <2>3, ItemStays
<1>5. CASE q \in DOMAIN ScopeOf
  <2>1. PICK d \in E.m.descs, i \in payload : MeasuredAs(q, d, i)
    BY <1>5, TellsMeasured
  <2>2. ValuePart(q) = "mData"
    BY <1>5, ValuesAre
  <2>3. PICK j \in ItemsOf(e, c, "mData") : j[IdOf("mData")] = i[IdOf("mData")]
                                             /\ (i.value # Nil => j.value # Nil)
    BY <1>2, <1>4, <2>2
  <2>4. MeasuredAs(q, d, j)
    BY <2>1, <2>3 DEF MeasuredAs, IdOf
  <2>5. Tells(q, E, ItemsOf(e, c, "mData"))
    BY <1>5, <2>4, TellsMeasured
  <2> QED
    BY <2>2, <2>5 DEF Match
<1>6. CASE q \in DOMAIN KeyOf
  <2>1. PICK d \in E.dc.descs, i \in payload : KeyedAs(q, d, i)
    BY <1>6, TellsKey
  <2>2. ValuePart(q) = "keyValues"
    BY <1>6, ValuesAre
  <2>3. PICK j \in ItemsOf(e, c, "keyValues") : j[IdOf("keyValues")] = i[IdOf("keyValues")]
                                             /\ (i.value # Nil => j.value # Nil)
    BY <1>2, <1>4, <2>2
  <2>4. KeyedAs(q, d, j)
    BY <2>1, <2>3 DEF KeyedAs, IdOf
  <2>5. Tells(q, E, ItemsOf(e, c, "keyValues"))
    BY <1>6, <2>4, TellsKey
  <2> QED
    BY <2>2, <2>5 DEF Match
<1>7. CASE q \in DOMAIN DirectionOf
  <2> DEFINE desc == DescOf[ValuePart(q)]
  <2>1. desc \in DOMAIN LimitOf /\ Direction[desc] = DirectionOf[q] /\ LimitOf[desc] = ValuePart(q)
    BY <1>7 DEF DescOf, ValuePart, DirectionOf, LimitOf, Direction
  <2> HIDE DEF desc
  <2>2. PICK d \in E.lc.descs, i \in payload : LimitedAs(q, d, i)
    BY <1>7, TellsLimit
  <2>3. d.limitDirection = Direction[desc] /\ i.limitId = d.limitId /\ i.value # Nil
    BY <2>1, <2>2 DEF LimitedAs
  <2>4. PICK p \in parts : \E v \in 1..c[p] : i \in e.data[p][v]
    OBVIOUS
  <2>5. PICK v \in 1..c[p] : i \in e.data[p][v]
    BY <2>4
  <2>6. p = ValuePart(q)
    <3>1. PICK other \in DOMAIN LimitOf : p = LimitOf[other]
      <4>1. p \in {"consumeLimit", "produceLimit"}
        BY <1>2, <1>7, <2>1 DEF LimitOf
      <4> QED
        BY <4>1 DEF LimitOf
    <3>2. v \in 1..MaxVersion
      <4>1. c[p] \in 1..MaxVersion
        BY <1>3 DEF VersionsOf
      <4> QED
        BY <1>1, <4>1
    <3>3. other = desc
      BY <2>1, <2>3, <2>5, <3>1, <3>2, LimitOwn
    <3> QED
      BY <2>1, <3>1, <3>3
  <2>7. PICK j \in ItemsOf(e, c, p) : j[IdOf(p)] = i[IdOf(p)] /\ (i.value # Nil => j.value # Nil)
    BY <1>4, <2>5
  <2>8. LimitedAs(q, d, j)
    <3>1. IdOf(p) = "limitId"
      BY <2>1, <2>6 DEF IdOf, LimitOf
    <3> QED
      BY <2>2, <2>7, <3>1 DEF LimitedAs
  <2>9. Tells(q, E, ItemsOf(e, c, p))
    BY <1>7, <2>8, TellsLimit
  <2> QED
    BY <2>6, <2>9 DEF Match
<1> QED
  BY <1>5, <1>6, <1>7, ValuesAre

\* Data that hold what matches tell of it.
LEMMA MatchTold ==
    ASSUME NEW e \in Entities, NEW c, NEW uc \in UseCases, NEW q \in Values[uc] \ Heartbeats, Match(e, q, c),
           NEW o, NEW payload, ItemsOf(e, c, ValuePart(q)) \subseteq payload,
           DataOf(e, c).m.descs \subseteq DataOf(e, o).m.descs,
           DataOf(e, c).dc.descs \subseteq DataOf(e, o).dc.descs,
           DataOf(e, c).lc.descs \subseteq DataOf(e, o).lc.descs
    PROVE  Tells(q, DataOf(e, o), payload)
<1> DEFINE E == DataOf(e, c)
           F == DataOf(e, o)
           own == ItemsOf(e, c, ValuePart(q))
<1>1. Tells(q, E, own) /\ own \subseteq payload
  BY DEF Match
<1> HIDE DEF E, F, own
<1>2. CASE q \in DOMAIN ScopeOf
  <2>1. PICK d \in E.m.descs, i \in own : MeasuredAs(q, d, i)
    BY <1>1, <1>2, TellsMeasured
  <2>2. d \in F.m.descs /\ i \in payload
    BY <1>1 DEF E, F
  <2>3. Tells(q, F, payload)
    BY <1>2, <2>1, <2>2, TellsMeasured
  <2> QED
    BY <2>3 DEF F
<1>3. CASE q \in DOMAIN KeyOf
  <2>1. PICK d \in E.dc.descs, i \in own : KeyedAs(q, d, i)
    BY <1>1, <1>3, TellsKey
  <2>2. d \in F.dc.descs /\ i \in payload
    BY <1>1 DEF E, F
  <2>3. Tells(q, F, payload)
    BY <1>3, <2>1, <2>2, TellsKey
  <2> QED
    BY <2>3 DEF F
<1>4. CASE q \in DOMAIN DirectionOf
  <2>1. PICK d \in E.lc.descs, i \in own : LimitedAs(q, d, i)
    BY <1>1, <1>4, TellsLimit
  <2>2. d \in F.lc.descs /\ i \in payload
    BY <1>1 DEF E, F
  <2>3. Tells(q, F, payload)
    BY <1>4, <2>1, <2>2, TellsLimit
  <2> QED
    BY <2>3 DEF F
<1> QED
  BY <1>2, <1>3, <1>4, ValuesAre

\* Later versions match if the ones before did.
LEMMA MatchGrows ==
    ASSUME NEW e \in Entities, NEW c, VersionsOf(e, c), NEW o, VersionsOf(e, o),
           \A p \in Parts : c[p] # Nil => o[p] # Nil /\ c[p] <= o[p],
           NEW uc \in UseCases, NEW q \in Values[uc] \ Heartbeats, Match(e, q, c)
    PROVE  Match(e, q, o)
<1> DEFINE P == ValuePart(q)
           payload == ItemsOf(e, c, P)
<1>1. \A p \in {"mDescs", "keyDescs", "consumeDesc", "produceDesc"} : ItemsOf(e, c, p) \subseteq ItemsOf(e, o, p)
  <2>1. \A p \in {"mDescs", "keyDescs", "consumeDesc", "produceDesc"} : p \in Parts /\ p \notin ValueParts
    BY PartsAre DEF ValueParts
  <2>2. \A p \in {"mDescs", "keyDescs", "consumeDesc", "produceDesc"} : c[p] # Nil => c[p] = 1 /\ o[p] = 1
    BY <2>1 DEF VersionsOf
  <2> QED
    BY <2>2, NilIs DEF ItemsOf
<1>2. /\ DataOf(e, c).m.descs \subseteq DataOf(e, o).m.descs
      /\ DataOf(e, c).dc.descs \subseteq DataOf(e, o).dc.descs
      /\ DataOf(e, c).lc.descs \subseteq DataOf(e, o).lc.descs
  BY <1>1, DataIs
<1>3. Tells(q, DataOf(e, o), payload)
  BY <1>2, MatchTold
<1>4. P \in Parts /\ P \in ListOf(P)
  BY ValuesAre, PartsAre, ListIs
<1>5. CASE c[P] = Nil
  <2>1. payload = {}
    BY <1>5 DEF ItemsOf
  <2> HIDE DEF payload
  <2>2. {} \subseteq ListOf(ValuePart(q)) /\ (\A p \in {} : o[p] # Nil)
        /\ \A i \in payload : \E p \in {} : \E v \in 1..o[p] : i \in e.data[p][v]
    BY <2>1
  <2> QED
    BY <1>3, <2>2, ToldMatches
<1>6. CASE c[P] # Nil
  <2>1. c[P] \in 1..MaxVersion /\ o[P] # Nil /\ o[P] \in Nat /\ c[P] <= o[P] /\ MaxVersion \in Nat
    BY <1>4, <1>6, RemoteDataAssumption DEF VersionsOf
  <2>2. c[P] \in 1..o[P] /\ payload = e.data[P][c[P]]
    BY <1>6, <2>1 DEF ItemsOf
  <2>3. \A i \in payload : \E p \in {P} : \E v \in 1..o[p] : i \in e.data[p][v]
    BY <2>2
  <2>4. {P} \subseteq ListOf(ValuePart(q)) /\ \A p \in {P} : o[p] # Nil
    BY <1>4, <2>1
  <2> HIDE DEF payload
  <2> QED
    BY <1>3, <2>3, <2>4, ToldMatches
<1> QED
  BY <1>5, <1>6

-----------------------------------------------------------------------------
(* The entity, and what the actions do to messages and handlers.           *)

\* What is known of the entity.
LEMMA EntityIs ==
    ASSUME entity \in Entities
    PROVE  /\ entity.useCases \subseteq UseCases /\ entity.partial \in BOOLEAN
           /\ entity.features \subseteq Features /\ entity.changing \subseteq ValueParts
           /\ \A p \in Parts : p \in entity.readable => ListOf(p) \subseteq entity.readable
           /\ \A uc \in entity.useCases : \A p \in Needs[uc] :
                FeatureOf(p) \in entity.features => p \in entity.readable
<1>1. \A p \in Parts : p \in entity.readable => ListOf(p) \subseteq entity.readable
  BY RemoteDataAssumption, ListIs
<1> QED
  BY <1>1, RemoteDataAssumption, EntitiesAssumption DEF Features

\* The data of the entity.
LEMMA EntityDataIs ==
    \A c : EntityData(c) = DataOf(entity, c) /\ \A p : Items(c, p) = ItemsOf(entity, c, p)
BY DEF EntityData, Items, DataOf, ItemsOf

\* A message that subscribes or binds to feature f, or reads of it.
LinkTo(m, f) == m \in MessageType /\ m.kind \in {"subscribe", "bind"} /\ m.feature = f /\ m.parts = {}
ReadOf(m, f) ==
    /\ m \in MessageType /\ m.kind = "read" /\ m.feature = f
    /\ Together(m.parts) /\ m.parts \subseteq entity.readable
    /\ \A p \in m.parts : FeatureOf(p) = f

\* A request asks for the parts, if they may be read.
LEMMA RequestIs ==
    ASSUME entity \in Entities, NEW parts, Together(parts), NEW f, \A p \in parts : FeatureOf(p) = f
    PROVE  /\ RequestData(parts) \in Seq(MessageType)
           /\ \A k \in DOMAIN RequestData(parts) : ReadOf(RequestData(parts)[k], f)
           /\ \A k \in DOMAIN RequestData(parts) : parts \subseteq RequestData(parts)[k].parts
           /\ parts \subseteq entity.readable =>
                1 \in DOMAIN RequestData(parts) /\ parts \subseteq RequestData(parts)[1].parts
<1> DEFINE part == CHOOSE p \in parts : TRUE
           asked == IF entity.partial THEN parts ELSE ListOf(part)
           m == Message("read", FeatureOf(part), asked)
<1>1. RequestData(parts) = IF ~(parts \subseteq entity.readable) THEN <<>> ELSE <<m>>
  BY DEF RequestData
<1>2. part \in parts /\ part \in Parts /\ FeatureOf(part) = f /\ parts \subseteq Parts /\ parts \subseteq ListOf(part)
  <2>1. part \in parts
    BY TogetherFeature
  <2> HIDE DEF part
  <2> QED
    BY <2>1, TogetherFeature
<1> HIDE DEF part
<1>3. parts \subseteq asked /\ Together(asked) /\ asked \subseteq Parts /\ \A p \in asked : FeatureOf(p) = f
  <2>1. Together(ListOf(part)) /\ ListOf(part) \subseteq Parts
    BY <1>2, TogetherIs, ListIs
  <2>2. \A p \in ListOf(part) : FeatureOf(p) = f
    BY <1>2, <2>1, ListIs, TogetherFeature
  <2> QED
    BY <1>2, <2>1, <2>2
<1>4. parts \subseteq entity.readable => asked \subseteq entity.readable
  BY <1>2, EntityIs
<1> HIDE DEF asked
<1>5. m \in MessageType /\ m.kind = "read" /\ m.feature = f /\ m.parts = asked
  BY <1>2, <1>3 DEF MessageType, Message, Features
<1> HIDE DEF m
<1>6. CASE parts \subseteq entity.readable
  BY <1>1, <1>3, <1>4, <1>5, <1>6 DEF ReadOf
<1>7. CASE ~(parts \subseteq entity.readable)
  BY <1>1, <1>7
<1> QED
  BY <1>6, <1>7

\* What is sent for a feature of an added entity.
Rest(h) == [h EXCEPT !.todo = Tail(@)]
Connects(h, t) ==
    LET ask == h.todo[1]
    IN /\ outbox' = outbox \o t
       /\ \A k \in DOMAIN t : LinkTo(t[k], ask.feature) \/ ReadOf(t[k], ask.feature)
       /\ ask.feature \notin entity.features => t = <<>> /\ links' = links
       /\ ask.feature \in entity.features =>
            /\ <<"subscribe", ask.feature>> \in links'
            /\ links' \subseteq links \union {<<"subscribe", ask.feature>>, <<"bind", ask.feature>>}
            /\ <<"subscribe", ask.feature>> \notin links => 1 \in DOMAIN t /\ t[1].kind = "subscribe"
            /\ \A i \in DOMAIN ask.reads : ask.reads[i] \in entity.readable =>
                 \E k \in DOMAIN t : t[k].kind = "read" /\ ask.reads[i] \in t[k].parts

\* One or two lists of messages that read of f.
LEMMA ReadsFlat ==
    ASSUME entity \in Entities, NEW reads \in Seq(Parts), Len(reads) \in {1, 2}, NEW f,
           \A k \in DOMAIN reads : FeatureOf(reads[k]) = f
    PROVE  LET R == FlattenSeq([k \in DOMAIN reads |-> RequestData({reads[k]})])
           IN  /\ R \in Seq(MessageType)
               /\ \A k \in DOMAIN R : ReadOf(R[k], f)
               /\ \A i \in DOMAIN reads : reads[i] \in entity.readable =>
                    \E k \in DOMAIN R : R[k].kind = "read" /\ reads[i] \in R[k].parts
<1> DEFINE r(i) == RequestData({reads[i]})
           all == [k \in DOMAIN reads |-> RequestData({reads[k]})]
           R == FlattenSeq(all)
<1>1. ASSUME NEW i \in DOMAIN reads
      PROVE  /\ r(i) \in Seq(MessageType)
             /\ \A k \in DOMAIN r(i) : ReadOf(r(i)[k], f)
             /\ reads[i] \in entity.readable => \E k \in DOMAIN r(i) : r(i)[k].kind = "read" /\ reads[i] \in r(i)[k].parts
  <2> DEFINE parts == {reads[i]}
  <2>1. reads[i] \in Parts
    OBVIOUS
  <2>2. Together(parts) /\ \A p \in parts : FeatureOf(p) = f
    BY <2>1, TogetherIs
  <2>3. reads[i] \in parts /\ (parts \subseteq entity.readable <=> reads[i] \in entity.readable)
    OBVIOUS
  <2> HIDE DEF parts
  <2>4. /\ RequestData(parts) \in Seq(MessageType)
        /\ \A k \in DOMAIN RequestData(parts) : ReadOf(RequestData(parts)[k], f)
        /\ parts \subseteq entity.readable =>
             1 \in DOMAIN RequestData(parts) /\ parts \subseteq RequestData(parts)[1].parts
    BY <2>2, RequestIs
  <2>5. r(i) = RequestData(parts)
    BY DEF parts
  <2> QED
    BY <2>3, <2>4, <2>5 DEF ReadOf
<1>2. CASE Len(reads) = 1
  <2>1. all = <<r(1)>> /\ DOMAIN reads = 1..1
    BY <1>2
  <2>2. R = r(1)
    <3>1. r(1) \in Seq(MessageType)
      BY <1>1, <2>1
    <3> HIDE DEF r, all
    <3> QED
      BY <2>1, <3>1, FlattenOne
  <2> HIDE DEF r, R
  <2>3. 1 \in DOMAIN reads /\ \A i \in DOMAIN reads : i = 1
    BY <2>1
  <2>4. /\ R \in Seq(MessageType)
        /\ \A k \in DOMAIN R : ReadOf(R[k], f)
        /\ \A i \in DOMAIN reads : reads[i] \in entity.readable =>
             \E k \in DOMAIN R : R[k].kind = "read" /\ reads[i] \in R[k].parts
    BY <1>1, <2>2, <2>3
  <2> QED
    BY <2>4 DEF R
<1>3. CASE Len(reads) = 2
  <2>1. all = <<r(1), r(2)>> /\ DOMAIN reads = 1..2
    BY <1>3
  <2>2. 1 \in DOMAIN reads /\ 2 \in DOMAIN reads /\ \A i \in DOMAIN reads : i = 1 \/ i = 2
    BY <2>1
  <2>3. R = r(1) \o r(2)
    <3>1. r(1) \in Seq(MessageType) /\ r(2) \in Seq(MessageType)
      BY <1>1, <2>2
    <3> HIDE DEF r, all
    <3> QED
      BY <2>1, <3>1, FlattenTwo
  <2> HIDE DEF r, R
  <2>4. r(1) \in Seq(MessageType) /\ r(2) \in Seq(MessageType)
    BY <1>1, <2>2
  <2>5. /\ R \in Seq(MessageType) /\ Len(r(1)) \in Nat
        /\ \A k \in DOMAIN r(1) : k \in DOMAIN R /\ R[k] = r(1)[k]
        /\ \A k \in DOMAIN r(2) : Len(r(1)) + k \in DOMAIN R /\ R[Len(r(1)) + k] = r(2)[k]
        /\ \A k \in DOMAIN R : k \in DOMAIN r(1) \/ (k > Len(r(1)) /\ k - Len(r(1)) \in DOMAIN r(2))
    BY <2>3, <2>4, ConcatIs
  <2>6. ASSUME NEW k \in DOMAIN R PROVE ReadOf(R[k], f)
    <3>1. CASE k \in DOMAIN r(1)
      BY <1>1, <2>2, <2>5, <3>1
    <3>2. CASE k > Len(r(1)) /\ k - Len(r(1)) \in DOMAIN r(2)
      <4>1. R[Len(r(1)) + (k - Len(r(1)))] = r(2)[k - Len(r(1))]
        BY <2>5, <3>2
      <4>2. k \in Nat
        BY <2>5
      <4>3. Len(r(1)) + (k - Len(r(1))) = k
        BY <2>5, <4>2
      <4> QED
        BY <1>1, <2>2, <3>2, <4>1, <4>3
    <3> QED
      BY <2>5, <3>1, <3>2
  <2>7. ASSUME NEW i \in DOMAIN reads, reads[i] \in entity.readable
        PROVE  \E k \in DOMAIN R : R[k].kind = "read" /\ reads[i] \in R[k].parts
    <3>1. PICK k \in DOMAIN r(i) : r(i)[k].kind = "read" /\ reads[i] \in r(i)[k].parts
      BY <1>1, <2>7
    <3>2. CASE i = 1
      BY <2>5, <3>1, <3>2
    <3>3. CASE i = 2
      BY <2>5, <3>1, <3>3
    <3> QED
      BY <2>2, <3>2, <3>3
  <2> QED
    BY <2>5, <2>6, <2>7 DEF R
<1> QED
  BY <1>2, <1>3

\* The messages for one feature: links first, then what is read.
LEMMA ConnectSends ==
    ASSUME TypeInv, NEW h \in DOMAIN handlers, ConnectFeature(h)
    PROVE  \E t \in Seq(MessageType) : Connects(h, t)
<1> DEFINE ask == h.todo[1]
           f == ask.feature
           kinds == IF ask.binds THEN <<"subscribe", "bind">> ELSE <<"subscribe">>
           l(k) == Link(kinds[k], f)
           links1 == [k \in DOMAIN kinds |-> Link(kinds[k], f)]
           L == FlattenSeq(links1)
           R == FlattenSeq([k \in DOMAIN ask.reads |-> RequestData({ask.reads[k]})])
<1>1. /\ Connecting(h) /\ h.event = "added" /\ entity \in Entities
  BY DEF TypeInv, VersionInv, HandlersInv, ConnectFeature, Updating
<1>2. /\ Head(h.todo) = ask /\ 1 \in DOMAIN h.todo /\ ask \in AskType
      /\ Len(ask.reads) \in {1, 2} /\ \A k \in DOMAIN ask.reads : FeatureOf(ask.reads[k]) = f
  BY <1>1 DEF Connecting
<1>3. f \in Features /\ ask.binds \in BOOLEAN /\ ask.reads \in Seq(Parts)
  BY <1>2 DEF AskType
<1>4. IF f \notin entity.features THEN outbox' = outbox /\ links' = links
      ELSE /\ links' = links \union {<<kinds[k], f>> : k \in DOMAIN kinds}
           /\ outbox' = outbox \o L \o R
  BY <1>2 DEF ConnectFeature
<1>5. /\ R \in Seq(MessageType)
      /\ \A k \in DOMAIN R : ReadOf(R[k], f)
      /\ \A i \in DOMAIN ask.reads : ask.reads[i] \in entity.readable =>
           \E k \in DOMAIN R : R[k].kind = "read" /\ ask.reads[i] \in R[k].parts
  BY <1>1, <1>2, <1>3, ReadsFlat
<1>6. ASSUME NEW kind \in {"subscribe", "bind"}
      PROVE  /\ Link(kind, f) \in Seq(MessageType)
             /\ \A k \in DOMAIN Link(kind, f) : LinkTo(Link(kind, f)[k], f)
             /\ <<kind, f>> \notin links => Link(kind, f) = <<Message(kind, f, {})>>
  <2>1. Message(kind, f, {}) \in MessageType
    BY <1>3 DEF Message, MessageType
  <2>2. LinkTo(Message(kind, f, {}), f)
    BY <2>1 DEF LinkTo, Message
  <2> QED
    BY <2>1, <2>2 DEF Link
<1> HIDE DEF R, f, ask
<1>7. /\ L \in Seq(MessageType)
      /\ \A k \in DOMAIN L : LinkTo(L[k], f)
      /\ <<"subscribe", f>> \notin links => 1 \in DOMAIN L /\ L[1].kind = "subscribe"
      /\ {<<kinds[k], f>> : k \in DOMAIN kinds} \subseteq {<<"subscribe", f>>, <<"bind", f>>}
      /\ <<"subscribe", f>> \in {<<kinds[k], f>> : k \in DOMAIN kinds}
  <2> DEFINE a == Link("subscribe", f)
             b == Link("bind", f)
  <2>1. a \in Seq(MessageType) /\ b \in Seq(MessageType)
        /\ (\A k \in DOMAIN a : LinkTo(a[k], f)) /\ (\A k \in DOMAIN b : LinkTo(b[k], f))
        /\ (<<"subscribe", f>> \notin links => a = <<Message("subscribe", f, {})>>)
    BY <1>6
  <2>2. CASE ask.binds
    <3>1. links1 = <<a, b>> /\ kinds = <<"subscribe", "bind">>
      BY <2>2
    <3>2. L = a \o b
      <4> HIDE DEF links1, a, b
      <4> QED
        BY <2>1, <3>1, FlattenTwo
    <3>3. {<<kinds[k], f>> : k \in DOMAIN kinds} = {<<"subscribe", f>>, <<"bind", f>>}
      BY <3>1
    <3> HIDE DEF a, b, L
    <3>4. /\ L \in Seq(MessageType) /\ Len(a) \in Nat
          /\ \A k \in DOMAIN a : k \in DOMAIN L /\ L[k] = a[k]
          /\ \A k \in DOMAIN b : Len(a) + k \in DOMAIN L /\ L[Len(a) + k] = b[k]
          /\ \A k \in DOMAIN L : k \in DOMAIN a \/ (k > Len(a) /\ k - Len(a) \in DOMAIN b)
      BY <2>1, <3>2, ConcatIs
    <3>5. ASSUME NEW k \in DOMAIN L PROVE LinkTo(L[k], f)
      <4>1. CASE k \in DOMAIN a
        BY <2>1, <3>4, <4>1
      <4>2. CASE k > Len(a) /\ k - Len(a) \in DOMAIN b
        <5>1. L[Len(a) + (k - Len(a))] = b[k - Len(a)] /\ k \in Nat
          BY <3>4, <4>2
        <5>2. Len(a) + (k - Len(a)) = k
          BY <3>4, <5>1
        <5> QED
          BY <2>1, <4>2, <5>1, <5>2
      <4> QED
        BY <3>4, <4>1, <4>2
    <3>6. <<"subscribe", f>> \notin links => 1 \in DOMAIN L /\ L[1].kind = "subscribe"
      BY <2>1, <3>4 DEF Message
    <3> HIDE DEF kinds
    <3> QED
      BY <3>3, <3>4, <3>5, <3>6 DEF L
  <2>3. CASE ~ask.binds
    <3>1. links1 = <<a>> /\ kinds = <<"subscribe">>
      BY <2>3
    <3>2. L = a
      <4> HIDE DEF links1, a
      <4> QED
        BY <2>1, <3>1, FlattenOne
    <3>3. {<<kinds[k], f>> : k \in DOMAIN kinds} = {<<"subscribe", f>>}
      BY <3>1
    <3> HIDE DEF a, b, L
    <3>4. <<"subscribe", f>> \notin links => 1 \in DOMAIN L /\ L[1].kind = "subscribe"
      BY <2>1, <3>2 DEF Message
    <3> HIDE DEF kinds
    <3> QED
      BY <2>1, <3>2, <3>3, <3>4 DEF L
  <2> QED
    BY <1>3, <2>2, <2>3
<1> HIDE DEF L, kinds
<1>8. CASE f \notin entity.features
  <2> DEFINE t == <<>>
  <2>1. t \in Seq(MessageType) /\ outbox' = outbox \o t /\ links' = links
    BY <1>4, <1>8 DEF TypeInv, OutboxInv
  <2>2. Connects(h, t)
    BY <1>8, <2>1 DEF Connects, f, ask
  <2> QED
    BY <2>1, <2>2
<1>9. CASE f \in entity.features
  <2> DEFINE t == L \o R
  <2>1. t \in Seq(MessageType) /\ outbox' = outbox \o t
    <3>1. outbox \in Seq(MessageType)
      BY DEF TypeInv, OutboxInv
    <3>2. L \in Seq(MessageType) /\ R \in Seq(MessageType)
      BY <1>5, <1>7
    <3>3. (outbox \o L) \o R = outbox \o (L \o R)
      <4> HIDE DEF t
      <4>1. \A x, y, z \in Seq(MessageType) : (x \o y) \o z = x \o (y \o z)
        BY ConcatAssociative
      <4> QED
        BY <3>1, <3>2, <4>1
    <3> QED
      BY <1>4, <1>5, <1>7, <1>9, <3>3
  <2>2. /\ Len(L) \in Nat
        /\ \A k \in DOMAIN L : k \in DOMAIN t /\ t[k] = L[k]
        /\ \A k \in DOMAIN R : Len(L) + k \in DOMAIN t /\ t[Len(L) + k] = R[k]
        /\ \A k \in DOMAIN t : k \in DOMAIN L \/ (k > Len(L) /\ k - Len(L) \in DOMAIN R)
    BY <1>5, <1>7, ConcatIs
  <2> HIDE DEF t
  <2>3. ASSUME NEW k \in DOMAIN t PROVE LinkTo(t[k], f) \/ ReadOf(t[k], f)
    <3>1. CASE k \in DOMAIN L
      BY <1>7, <2>2, <3>1
    <3>2. CASE k > Len(L) /\ k - Len(L) \in DOMAIN R
      <4>1. t[Len(L) + (k - Len(L))] = R[k - Len(L)] /\ k \in Nat
        BY <2>1, <2>2, <3>2
      <4>2. Len(L) + (k - Len(L)) = k
        BY <2>2, <4>1
      <4> QED
        BY <1>5, <3>2, <4>1, <4>2
    <3> QED
      BY <2>2, <3>1, <3>2
  <2>4. <<"subscribe", f>> \notin links => 1 \in DOMAIN t /\ t[1].kind = "subscribe"
    BY <1>7, <2>2
  <2>5. ASSUME NEW i \in DOMAIN ask.reads, ask.reads[i] \in entity.readable
        PROVE  \E k \in DOMAIN t : t[k].kind = "read" /\ ask.reads[i] \in t[k].parts
    <3>1. PICK k \in DOMAIN R : R[k].kind = "read" /\ ask.reads[i] \in R[k].parts
      BY <1>5, <2>5
    <3>2. Len(L) + k \in DOMAIN t /\ t[Len(L) + k] = R[k]
      BY <2>2
    <3> QED
      BY <3>1, <3>2
  <2>6. /\ <<"subscribe", f>> \in links'
        /\ links' \subseteq links \union {<<"subscribe", f>>, <<"bind", f>>}
    BY <1>4, <1>7, <1>9
  <2>7. Connects(h, t)
    BY <1>9, <2>1, <2>3, <2>4, <2>5, <2>6 DEF Connects, f, ask
  <2> QED
    BY <2>1, <2>7
<1> QED
  BY <1>8, <1>9

\* The handler of an added entity goes on with the next feature.
LEMMA ConnectHandlers ==
    ASSUME TypeInv, NEW h \in DOMAIN handlers, ConnectFeature(h)
    PROVE  /\ IsABag(handlers')
           /\ h.event = "added" /\ Connecting(h)
           /\ \A x \in DOMAIN handlers : x = h \/ x \in DOMAIN handlers'
           /\ Rest(h).todo # <<>> => Rest(h) \in DOMAIN handlers'
           /\ \A x \in DOMAIN handlers' : x \in DOMAIN handlers \/ (x = Rest(h) /\ Rest(h).todo # <<>>)
           /\ Rest(h) = [useCase |-> h.useCase, event |-> h.event, todo |-> Tail(h.todo),
                         parts |-> h.parts, payload |-> h.payload]
           /\ UNCHANGED <<entity, version, served, cache, inbox, view>>
<1> DEFINE less == handlers (-) SetToBag({h})
<1>1. Connecting(h) /\ h.event = "added" /\ IsABag(handlers)
  BY DEF TypeInv, HandlersInv, ConnectFeature, Updating
<1>2. Rest(h) = [useCase |-> h.useCase, event |-> h.event, todo |-> Tail(h.todo),
                 parts |-> h.parts, payload |-> h.payload]
  <2>1. h = [useCase |-> h.useCase, event |-> h.event, todo |-> h.todo, parts |-> h.parts,
             payload |-> h.payload]
    BY DEF TypeInv, HandlersInv
  <2>2. \A t : [h EXCEPT !.todo = t] = [useCase |-> h.useCase, event |-> h.event, todo |-> t,
                                        parts |-> h.parts, payload |-> h.payload]
    BY <2>1
  <2>3. Rest(h) = [h EXCEPT !.todo = Tail(h.todo)]
    BY Zenon DEF Rest
  <2> QED
    BY <2>2, <2>3, Zenon
<1>3. handlers' = less (+) (IF Rest(h).todo = <<>> THEN EmptyBag ELSE SetToBag({Rest(h)}))
  BY DEF ConnectFeature, Rest
<1>4. /\ IsABag(less) /\ DOMAIN less \subseteq DOMAIN handlers
      /\ \A y \in DOMAIN handlers : y # h => y \in DOMAIN less
  BY <1>1, Removed
<1>5. UNCHANGED <<entity, version, served, cache, inbox, view>>
  BY DEF ConnectFeature
<1> HIDE DEF less
<1>6. CASE Rest(h).todo = <<>>
  <2>1. handlers' = less (+) EmptyBag
    BY <1>3, <1>6
  <2>2. IsABag(handlers') /\ DOMAIN handlers' = DOMAIN less
    BY <1>4, <2>1, AddedNone
  <2> QED
    BY <1>1, <1>2, <1>4, <1>5, <1>6, <2>2
<1>7. CASE Rest(h).todo # <<>>
  <2>1. handlers' = less (+) SetToBag({Rest(h)})
    BY <1>3, <1>7
  <2>2. IsABag(handlers') /\ DOMAIN handlers' = DOMAIN less \union {Rest(h)}
    BY <1>4, <2>1, Added
  <2> QED
    BY <1>1, <1>2, <1>4, <1>5, <1>7, <2>2
<1> QED
  BY <1>6, <1>7

\* An event that was handled is gone.
LEMMA HandledGone ==
    ASSUME TypeInv, NEW h \in DOMAIN handlers, handlers' = handlers (-) SetToBag({h})
    PROVE  /\ IsABag(handlers') /\ DOMAIN handlers' \subseteq DOMAIN handlers
           /\ \A x \in DOMAIN handlers : x = h \/ x \in DOMAIN handlers'
<1>1. IsABag(handlers)
  BY DEF TypeInv, HandlersInv
<1> QED
  BY <1>1, Removed

-----------------------------------------------------------------------------
(* Types and the order of messages are kept.                               *)

\* Messages that follow those not answered yet.
Behind(t) ==
    /\ outbox' \in Seq(MessageType)
    /\ \A k \in DOMAIN outbox : k \in DOMAIN outbox' /\ outbox'[k] = outbox[k]
    /\ \A k \in DOMAIN t : Len(outbox) + k \in DOMAIN outbox' /\ outbox'[Len(outbox) + k] = t[k]
    /\ \A k \in DOMAIN outbox' :
         \/ k \in DOMAIN outbox
         \/ k - Len(outbox) \in DOMAIN t /\ outbox'[k] = t[k - Len(outbox)]
            /\ \A j \in DOMAIN outbox : j < k

\* What is sent comes last.
LEMMA SentBehind ==
    ASSUME TypeInv, NEW t \in Seq(MessageType), outbox' = outbox \o t
    PROVE  Behind(t) /\ Len(outbox) \in Nat
<1>1. outbox \in Seq(MessageType)
  BY DEF TypeInv, OutboxInv
<1>2. /\ outbox' \in Seq(MessageType) /\ Len(outbox) \in Nat
      /\ DOMAIN outbox = 1..Len(outbox) /\ DOMAIN outbox' \subseteq Nat
      /\ \A k \in DOMAIN outbox : k \in DOMAIN outbox' /\ outbox'[k] = outbox[k]
      /\ \A k \in DOMAIN t : Len(outbox) + k \in DOMAIN outbox' /\ outbox'[Len(outbox) + k] = t[k]
      /\ \A k \in DOMAIN outbox' : k \in DOMAIN outbox \/ (k > Len(outbox) /\ k - Len(outbox) \in DOMAIN t)
  BY <1>1, ConcatIs
<1>3. ASSUME NEW k \in DOMAIN outbox', k \notin DOMAIN outbox
      PROVE  k - Len(outbox) \in DOMAIN t /\ outbox'[k] = t[k - Len(outbox)] /\ \A j \in DOMAIN outbox : j < k
  <2>1. k > Len(outbox) /\ k - Len(outbox) \in DOMAIN t /\ k \in Nat
    BY <1>2, <1>3
  <2>2. Len(outbox) + (k - Len(outbox)) = k
    BY <1>2, <2>1
  <2>3. \A j \in DOMAIN outbox : j < k
    BY <1>2, <2>1
  <2> QED
    BY <1>2, <2>1, <2>2, <2>3
<1> QED
  BY <1>2, <1>3 DEF Behind

\* What is asked for then has been asked for.
LEMMA BehindAsks ==
    ASSUME NEW t, Behind(t), NEW p, NEW k \in DOMAIN t, ReadAt(t, p, k)
    PROVE  Asked(p)'
<1>1. Len(outbox) + k \in DOMAIN outbox' /\ outbox'[Len(outbox) + k] = t[k]
  BY DEF Behind
<1> QED
  BY <1>1 DEF ReadAt, Asked

\* Requests are sent after the subscription to their feature.
LEMMA SentKeeps ==
    ASSUME TypeInv, UNCHANGED <<entity, version, served, cache, inbox>>,
           NEW f \in entity.features, NEW t \in Seq(MessageType), outbox' = outbox \o t,
           \A k \in DOMAIN t : LinkTo(t[k], f) \/ ReadOf(t[k], f),
           links \subseteq links', \A g : <<"subscribe", g>> \in links' => <<"subscribe", g>> \in links \/ g = f,
           f \in served \/ <<"subscribe", f>> \in links \/ (1 \in DOMAIN t /\ t[1].kind = "subscribe")
    PROVE  OutboxInv' /\ LinksInv' /\ Behind(t) /\ Len(outbox) \in Nat
<1>1. Behind(t) /\ Len(outbox) \in Nat
  BY SentBehind
<1>2. OutboxInv /\ LinksInv
  BY DEF TypeInv
<1>3. OutboxInv'
  <2>1. ASSUME NEW m, LinkTo(m, f) \/ ReadOf(m, f)
        PROVE  /\ m.feature \in entity.features /\ m.parts \subseteq entity.readable
               /\ m.kind = "read" => Together(m.parts) /\ \A p \in m.parts : FeatureOf(p) = m.feature
    BY <2>1 DEF LinkTo, ReadOf
  <2>2. ASSUME NEW k \in DOMAIN outbox'
        PROVE  /\ outbox'[k].feature \in entity.features /\ outbox'[k].parts \subseteq entity.readable
               /\ outbox'[k].kind = "read" =>
                    Together(outbox'[k].parts) /\ \A p \in outbox'[k].parts : FeatureOf(p) = outbox'[k].feature
    <3>1. CASE k \in DOMAIN outbox
      <4>1. outbox'[k] = outbox[k]
        BY <1>1, <3>1 DEF Behind
      <4> QED
        BY <1>2, <3>1, <4>1 DEF OutboxInv
    <3>2. CASE k - Len(outbox) \in DOMAIN t /\ outbox'[k] = t[k - Len(outbox)]
      BY <2>1, <3>2
    <3> QED
      BY <1>1, <3>1, <3>2 DEF Behind
  <2>3. outbox' \in Seq(MessageType) /\ entity' = entity
    BY <1>1 DEF Behind
  <2> QED
    BY <2>2, <2>3 DEF OutboxInv
<1>4. \/ f \in served \/ <<"subscribe", f>> \in links
      \/ Len(outbox) + 1 \in DOMAIN outbox' /\ Subscribes(outbox', f, Len(outbox) + 1)
  BY <1>1 DEF Behind, Subscribes, LinkTo, ReadOf
<1>5. \A g, k : k \in DOMAIN outbox /\ Subscribes(outbox, g, k) => k \in DOMAIN outbox' /\ Subscribes(outbox', g, k)
  BY <1>1 DEF Behind, Subscribes
<1>6. ASSUME NEW g \in entity.features, <<"subscribe", g>> \in links'
      PROVE  g \in served \/ \E k \in DOMAIN outbox' : Subscribes(outbox', g, k)
  <2>1. CASE <<"subscribe", g>> \in links
    BY <1>2, <1>5, <2>1 DEF LinksInv
  <2>2. CASE g = f /\ <<"subscribe", g>> \notin links
    BY <1>4, <2>2
  <2> QED
    BY <1>6, <2>1, <2>2
<1>7. ASSUME NEW k \in DOMAIN outbox', outbox'[k].kind = "read"
      PROVE  \/ outbox'[k].feature \in served
             \/ \E j \in DOMAIN outbox' : j < k /\ Subscribes(outbox', outbox'[k].feature, j)
  <2>1. CASE k \in DOMAIN outbox
    <3>1. outbox'[k] = outbox[k]
      BY <1>1, <2>1 DEF Behind
    <3>2. \/ outbox[k].feature \in served
          \/ \E j \in DOMAIN outbox : j < k /\ Subscribes(outbox, outbox[k].feature, j)
      BY <1>2, <1>7, <2>1, <3>1 DEF LinksInv
    <3> QED
      BY <1>5, <3>1, <3>2
  <2>2. CASE k \notin DOMAIN outbox
    <3>1. /\ k - Len(outbox) \in DOMAIN t /\ outbox'[k] = t[k - Len(outbox)]
          /\ \A j \in DOMAIN outbox : j < k
      BY <1>1, <2>2 DEF Behind
    <3>2. outbox'[k].feature = f
      BY <3>1 DEF LinkTo, ReadOf
    <3>3. CASE f \in served
      BY <3>2, <3>3
    <3>4. CASE <<"subscribe", f>> \in links
      <4>1. f \in served \/ \E j \in DOMAIN outbox : Subscribes(outbox, f, j)
        BY <1>2, <3>4 DEF LinksInv
      <4> QED
        BY <1>5, <3>1, <3>2, <4>1
    <3>5. CASE 1 \in DOMAIN t /\ t[1].kind = "subscribe"
      <4>1. k - Len(outbox) # 1
        BY <1>7, <3>1, <3>5
      <4>2. k - Len(outbox) \in Nat \ {0} /\ k \in Nat
        BY <1>1, <3>1 DEF Behind
      <4>3. Len(outbox) + 1 < k
        BY <1>1, <4>1, <4>2
      <4>4. Len(outbox) + 1 \in DOMAIN outbox' /\ Subscribes(outbox', f, Len(outbox) + 1)
        BY <1>1, <3>5 DEF Behind, Subscribes, LinkTo, ReadOf
      <4> QED
        BY <3>2, <4>3, <4>4
    <3> QED
      BY <3>3, <3>4, <3>5
  <2> QED
    BY <2>1, <2>2
<1>8. LinksInv'
  <2>1. served' \subseteq entity'.features
    BY <1>2 DEF LinksInv
  <2>2. \A p \in Parts : Underway(p)' \/ cache'[p] # Nil => FeatureOf(p) \in served'
    BY <1>2 DEF LinksInv, Underway, SentAt
  <2>3. \A g \in entity'.features : <<"subscribe", g>> \in links' =>
           g \in served' \/ \E k \in DOMAIN outbox' : Subscribes(outbox', g, k)
    BY <1>6
  <2>4. \A k \in DOMAIN outbox' : outbox'[k].kind = "read" =>
           \/ outbox'[k].feature \in served'
           \/ \E j \in DOMAIN outbox' : j < k /\ Subscribes(outbox', outbox'[k].feature, j)
    BY <1>7
  <2> QED
    BY <2>1, <2>2, <2>3, <2>4 DEF LinksInv
<1> QED
  BY <1>1, <1>3, <1>8

\* What does not depend on messages to the device and on handlers.
LEMMA DataKept ==
    ASSUME TypeInv, UNCHANGED <<entity, version, cache, inbox>>
    PROVE  VersionInv' /\ CacheInv' /\ InboxInv' /\ OrderInv'
BY DEF TypeInv, VersionInv, CacheInv, InboxInv, OrderInv

\* A handler that stays while nothing is received stays as it is.
LEMMA HandlersKept ==
    ASSUME TypeInv, UNCHANGED <<entity, cache>>, IsABag(handlers'),
           \A x \in DOMAIN handlers' : x \in DOMAIN handlers
               \/ (/\ x = [useCase |-> x.useCase, event |-> x.event, todo |-> x.todo, parts |-> x.parts,
                           payload |-> x.payload]
                   /\ x.useCase \in entity.useCases /\ Connecting(x))
    PROVE  HandlersInv'
<1>1. HandlersInv
  BY DEF TypeInv
<1>2. \A x : Updating(x)' <=> Updating(x)
  BY DEF Updating
<1> QED
  BY <1>1, <1>2 DEF HandlersInv

\* One feature of an added entity.
LEMMA TypeConnect ==
    ASSUME TypeInv, NEW h \in DOMAIN handlers, ConnectFeature(h)
    PROVE  TypeInv'
<1>1. PICK t \in Seq(MessageType) : Connects(h, t)
  BY ConnectSends
<1>2. /\ IsABag(handlers') /\ h.event = "added" /\ Connecting(h)
      /\ \A x \in DOMAIN handlers' : x \in DOMAIN handlers \/ (x = Rest(h) /\ Rest(h).todo # <<>>)
      /\ Rest(h) = [useCase |-> h.useCase, event |-> h.event, todo |-> Tail(h.todo),
                    parts |-> h.parts, payload |-> h.payload]
      /\ UNCHANGED <<entity, version, served, cache, inbox, view>>
  BY ConnectHandlers
<1>3. VersionInv' /\ CacheInv' /\ InboxInv' /\ OrderInv'
  BY <1>2, DataKept
<1>4. Rest(h).todo # <<>> => /\ Connecting(Rest(h)) /\ Rest(h).useCase \in entity.useCases
                             /\ Rest(h) = [useCase |-> Rest(h).useCase, event |-> Rest(h).event,
                                           todo |-> Rest(h).todo, parts |-> Rest(h).parts,
                                           payload |-> Rest(h).payload]
  <2>1. /\ Rest(h).todo = Tail(h.todo) /\ Rest(h).event = "added" /\ Rest(h).useCase = h.useCase
        /\ Rest(h).parts = h.parts /\ Rest(h).payload = h.payload
    BY <1>2
  <2>2. h.todo \in Seq(AskType) /\ h.todo # <<>>
    BY <1>2 DEF Connecting
  <2>3. /\ Tail(h.todo) \in Seq(AskType)
        /\ \A k \in DOMAIN Tail(h.todo) : k + 1 \in DOMAIN h.todo /\ Tail(h.todo)[k] = h.todo[k + 1]
    BY <2>2, TailIs
  <2>4. h.useCase \in entity.useCases
    BY DEF TypeInv, HandlersInv
  <2> QED
    BY <1>2, <2>1, <2>3, <2>4 DEF Connecting
<1>5. HandlersInv'
  BY <1>2, <1>4, HandlersKept
<1>6. OutboxInv' /\ LinksInv'
  <2> DEFINE f == h.todo[1].feature
  <2>1. CASE f \in entity.features
    <3>1. /\ outbox' = outbox \o t
          /\ \A k \in DOMAIN t : LinkTo(t[k], f) \/ ReadOf(t[k], f)
          /\ links' \subseteq links \union {<<"subscribe", f>>, <<"bind", f>>}
          /\ <<"subscribe", f>> \notin links => 1 \in DOMAIN t /\ t[1].kind = "subscribe"
      BY <1>1, <2>1 DEF Connects
    <3>2. links \subseteq links'
      BY DEF ConnectFeature
    <3>3. \A g : <<"subscribe", g>> \in links' => <<"subscribe", g>> \in links \/ g = f
      BY <3>1
    <3> HIDE DEF f
    <3> QED
      BY <1>2, <2>1, <3>1, <3>2, <3>3, SentKeeps
  <2>2. CASE f \notin entity.features
    <3>1. outbox' = outbox \o <<>> /\ links' = links
      BY <1>1, <2>2 DEF Connects
    <3>2. outbox' = outbox
      BY <3>1 DEF TypeInv, OutboxInv
    <3> QED
      BY <1>2, <3>1, <3>2 DEF TypeInv, OutboxInv, LinksInv, Subscribes, Underway, SentAt
  <2> QED
    BY <2>1, <2>2
<1> QED
  BY <1>3, <1>5, <1>6 DEF TypeInv

\* A feature of an entity that was added.
LEMMA TypeInit ==
    ASSUME Init
    PROVE  TypeInv
<1> USE DEF Init
<1>1. entity \in Entities /\ entity.useCases \subseteq UseCases /\ Nil \notin Nat /\ MaxVersion \in Nat \ {0}
  BY EntityIs, NilIs, RemoteDataAssumption
<1>2. VersionInv /\ CacheInv
  BY <1>1 DEF VersionInv, CacheInv, VersionsOf
<1>3. OutboxInv /\ InboxInv /\ LinksInv /\ OrderInv
  BY DEF OutboxInv, InboxInv, LinksInv, OrderInv, Underway
<1>4. ASSUME NEW uc \in UseCases PROVE Connecting(EntityAdded(uc))
  <2> DEFINE todo == Connected[uc]
  <2>1. todo \in {GridConnected, VabdInverterConnected, VapdInverterConnected, EgLpcConnected, EgLppConnected}
    BY DEF UseCases, Connected
  <2>2. /\ GridConnected \in Seq(AskType) /\ VabdInverterConnected \in Seq(AskType)
        /\ VapdInverterConnected \in Seq(AskType) /\ EgLpcConnected \in Seq(AskType)
        /\ EgLppConnected \in Seq(AskType)
    <3>1. /\ "DeviceConfiguration" \in Features /\ "ElectricalConnection" \in Features
          /\ "Measurement" \in Features /\ "LoadControl" \in Features /\ "DeviceDiagnosis" \in Features
      <4>1. /\ FeatureOf("keyDescs") = "DeviceConfiguration" /\ FeatureOf("ecDescs") = "ElectricalConnection"
            /\ FeatureOf("mDescs") = "Measurement" /\ FeatureOf("consumeDesc") = "LoadControl"
            /\ FeatureOf("heartbeat") = "DeviceDiagnosis"
        BY DEF FeatureOf
      <4> QED
        BY <4>1, PartsAre DEF Features
    <3>2. /\ Ask("DeviceConfiguration", FALSE, <<"keyDescs">>) \in AskType
          /\ Ask("DeviceConfiguration", TRUE, <<"keyDescs">>) \in AskType
          /\ Ask("Measurement", FALSE, <<"mDescs", "mConstraints">>) \in AskType
          /\ Ask("ElectricalConnection", FALSE, <<"ecDescs", "ecParams">>) \in AskType
          /\ Ask("LoadControl", TRUE, <<"consumeDesc">>) \in AskType
          /\ Ask("LoadControl", TRUE, <<"produceDesc">>) \in AskType
          /\ Ask("DeviceDiagnosis", FALSE, <<"heartbeat">>) \in AskType
      BY <3>1, PartsAre DEF Ask, AskType
    <3>3. \A a, b, c \in AskType : <<a, b>> \in Seq(AskType) /\ <<a, b, c>> \in Seq(AskType)
      OBVIOUS
    <3> QED
      BY ONLY <3>2, <3>3, Zenon DEF GridConnected, VabdInverterConnected, VapdInverterConnected, EgLpcConnected,
                                 EgLppConnected
  <2>3. todo # <<>> /\ \A i \in DOMAIN todo :
           /\ Len(todo[i].reads) \in {1, 2}
           /\ \A k \in DOMAIN todo[i].reads : FeatureOf(todo[i].reads[k]) = todo[i].feature
    BY <2>1 DEF Ask, FeatureOf, GridConnected, VabdInverterConnected, VapdInverterConnected, EgLpcConnected,
                EgLppConnected
  <2> QED
    BY <2>1, <2>2, <2>3 DEF Connecting, EntityAdded
<1>5. HandlersInv
  <2> DEFINE S == {EntityAdded(uc) : uc \in entity.useCases}
  <2>1. IsABag(SetToBag(S)) /\ DOMAIN SetToBag(S) = S
    <3> HIDE DEF S
    <3> QED
      BY DEF IsABag, SetToBag
  <2>2. \A h \in S : /\ h = [useCase |-> h.useCase, event |-> h.event, todo |-> h.todo, parts |-> h.parts,
                              payload |-> h.payload]
                     /\ h.useCase \in entity.useCases /\ Connecting(h)
    BY <1>1, <1>4 DEF EntityAdded
  <2> QED
    BY <2>1, <2>2 DEF HandlersInv
<1> QED
  BY <1>2, <1>3, <1>5 DEF TypeInv

\* What a use case asks for when descriptions arrived.
LEMMA RequestFor ==
    ASSUME TypeInv, NEW h \in DOMAIN handlers, h.event = "data", h.parts \intersect ValueParts = {}
    PROVE  /\ h.useCase \in entity.useCases /\ h.useCase \in UseCases /\ Updating(h)
           /\ \E f \in entity.features :
                /\ f \in served
                /\ Together(DataToRequest(h.useCase, h.parts))
                /\ \A p \in DataToRequest(h.useCase, h.parts) : FeatureOf(p) = f
                /\ DataToRequest(h.useCase, h.parts) \subseteq ValueParts
           /\ \A p \in ValuesNeeded(h.useCase) : DescOf[p] \in h.parts => p \in DataToRequest(h.useCase, h.parts)
<1> DEFINE uc == h.useCase
           req == DataToRequest(uc, h.parts)
<1>1. /\ Updating(h) /\ uc \in entity.useCases /\ uc \in UseCases
  BY EntityIs DEF TypeInv, HandlersInv, VersionInv, Connecting
<1>2. PICK d \in h.parts : cache[d] # Nil
  BY <1>1 DEF Updating, Together
<1>3. /\ h.parts \subseteq Parts /\ \A p \in h.parts : FeatureOf(p) = FeatureOf(d)
      /\ FeatureOf(d) \in served /\ FeatureOf(d) \in entity.features
  <2>1. h.parts \subseteq Parts /\ \A p \in h.parts : FeatureOf(p) = FeatureOf(d)
    BY <1>1, TogetherFeature DEF Updating
  <2> QED
    BY <1>2, <2>1 DEF TypeInv, LinksInv
<1>4. h.parts = {"keyDescs"} \/ h.parts = {"mDescs"} \/ h.parts \subseteq {"consumeDesc", "produceDesc"}
  <2>1. h.parts \subseteq {"keyDescs", "mDescs", "consumeDesc", "produceDesc"}
    BY <1>1 DEF Updating, Handled, MgcpHandled, VabdHandled, VapdHandled, EgLpcHandled, EgLppHandled, UseCases,
                ValueParts
  <2> QED
    BY <1>1, <1>2, <2>1, Alone DEF Updating
<1>5. /\ Together({"keyValues"}) /\ Together({"mData"}) /\ Together({"consumeLimit"})
      /\ Together({"produceLimit"}) /\ Together({"consumeLimit", "produceLimit"})
  BY PartsAre, TogetherIs
<1>6. /\ "keyDescs" \in Handled[uc] /\ h.parts = {"keyDescs"} => uc # "vabd"
      /\ "mDescs" \in Handled[uc] => uc \in {"mgcp", "vabd", "vapd"}
      /\ "consumeDesc" \in Handled[uc] \/ "produceDesc" \in Handled[uc] => uc \in {"egLpc", "egLpp"}
      /\ uc \in {"mgcp", "vabd", "vapd", "egLpc", "egLpp"}
  BY <1>1 DEF Handled, MgcpHandled, VabdHandled, VapdHandled, EgLpcHandled, EgLppHandled, UseCases
<1>7. h.parts \subseteq Handled[uc]
  BY <1>1 DEF Updating
<1>8. CASE h.parts = {"keyDescs"}
  <2>1. req = {"keyValues"}
    BY <1>6, <1>7, <1>8 DEF DataToRequest, MgcpDataToRequest, VapdDataToRequest, EgLpcDataToRequest, EgLppDataToRequest
  <2>2. FeatureOf("keyValues") = FeatureOf("keyDescs") /\ d = "keyDescs"
    BY <1>2, <1>8 DEF FeatureOf
  <2>3. \A p \in ValuesNeeded(uc) : DescOf[p] \in h.parts => p \in req
    BY <1>8, <2>1 DEF ValuesNeeded, DescOf
  <2> QED
    BY <1>1, <1>3, <1>5, <2>1, <2>2, <2>3 DEF ValueParts
<1>9. CASE h.parts = {"mDescs"}
  <2>1. req = {"mData"}
    BY <1>6, <1>7, <1>9 DEF DataToRequest, MgcpDataToRequest, VabdDataToRequest, VapdDataToRequest
  <2>2. FeatureOf("mData") = FeatureOf("mDescs") /\ d = "mDescs"
    BY <1>2, <1>9 DEF FeatureOf
  <2>3. \A p \in ValuesNeeded(uc) : DescOf[p] \in h.parts => p \in req
    BY <1>9, <2>1 DEF ValuesNeeded, DescOf
  <2> QED
    BY <1>1, <1>3, <1>5, <2>1, <2>2, <2>3 DEF ValueParts
<1>10. CASE h.parts \subseteq {"consumeDesc", "produceDesc"}
  <2>1. uc \in {"egLpc", "egLpp"}
    BY <1>2, <1>6, <1>7, <1>10
  <2>2. /\ req \in {{"consumeLimit"}, {"produceLimit"}, {"consumeLimit", "produceLimit"}}
        /\ uc = "egLpc" => "consumeLimit" \in req
        /\ uc = "egLpp" => "produceLimit" \in req
    BY <1>2, <1>10, <2>1 DEF DataToRequest, EgLpcDataToRequest, EgLppDataToRequest
  <2>3. /\ FeatureOf("consumeLimit") = FeatureOf(d) /\ FeatureOf("produceLimit") = FeatureOf(d)
    BY <1>2, <1>10 DEF FeatureOf
  <2>4. \A p \in ValuesNeeded(uc) : DescOf[p] \in h.parts => p \in req
    BY <1>10, <2>1, <2>2 DEF ValuesNeeded, DescOf, Needs
  <2> QED
    BY <1>1, <1>3, <1>5, <2>2, <2>3, <2>4 DEF ValueParts
<1> QED
  BY <1>4, <1>8, <1>9, <1>10

\* The values that belong to descriptions are asked for.
LEMMA TypeDescription ==
    ASSUME TypeInv, NEW h \in DOMAIN handlers, DescriptionDataUpdate(h)
    PROVE  /\ TypeInv' /\ \E t \in Seq(MessageType) :
                /\ outbox' = outbox \o t /\ Behind(t)
                /\ \A k \in DOMAIN t : t[k].kind = "read" /\ t[k].parts \subseteq ValueParts
                /\ \A p \in ValuesNeeded(h.useCase) : DescOf[p] \in h.parts /\ p \in entity.readable =>
                      \E k \in DOMAIN t : ReadAt(t, p, k)
<1> DEFINE req == DataToRequest(h.useCase, h.parts)
           t == RequestData(req)
<1>1. h.event = "data" /\ h.parts \intersect ValueParts = {} /\ handlers' = handlers (-) SetToBag({h})
      /\ outbox' = outbox \o t /\ UNCHANGED <<entity, version, served, cache, links, inbox, view>>
  BY DEF DescriptionDataUpdate
<1>2. PICK f \in entity.features : f \in served /\ Together(req) /\ req \subseteq ValueParts /\ \A p \in req : FeatureOf(p) = f
  BY <1>1, RequestFor
<1>3. \A p \in ValuesNeeded(h.useCase) : DescOf[p] \in h.parts => p \in req
  BY <1>1, RequestFor
<1>4. entity \in Entities
  BY DEF TypeInv, VersionInv
<1> HIDE DEF req
<1>5. /\ t \in Seq(MessageType) /\ \A k \in DOMAIN t : ReadOf(t[k], f) /\ req \subseteq t[k].parts
      /\ req \subseteq entity.readable => 1 \in DOMAIN t /\ req \subseteq t[1].parts
  BY <1>2, <1>4, RequestIs
<1>6. ASSUME NEW p \in ValuesNeeded(h.useCase), DescOf[p] \in h.parts, p \in entity.readable
      PROVE  \E k \in DOMAIN t : ReadAt(t, p, k)
  <2>1. p \in req /\ p \in Parts /\ req \subseteq ListOf(p)
    BY <1>2, <1>3, <1>6, TogetherFeature
  <2>2. req \subseteq entity.readable
    BY <1>4, <1>6, <2>1, EntityIs
  <2> QED
    BY <1>5, <2>1, <2>2 DEF ReadAt, ReadOf
<1> HIDE DEF t
<1>7. OutboxInv' /\ LinksInv' /\ Behind(t)
  BY <1>1, <1>2, <1>5, SentKeeps
<1>8. HandlersInv'
  BY <1>1, HandledGone, HandlersKept
<1>9. VersionInv' /\ CacheInv' /\ InboxInv' /\ OrderInv'
  BY <1>1, DataKept
<1>10. TypeInv'
  BY <1>7, <1>8, <1>9 DEF TypeInv
<1>11. \A k \in DOMAIN t : t[k].kind = "read" /\ t[k].parts \subseteq ValueParts
  <2>1. ASSUME NEW k \in DOMAIN t PROVE t[k].kind = "read" /\ t[k].parts \subseteq ValueParts
    <3>1. Together(t[k].parts) /\ t[k].kind = "read" /\ req \subseteq t[k].parts
      BY <1>5 DEF ReadOf
    <3>2. req # {}
      BY <1>2 DEF Together
    <3> QED
      BY <1>2, <3>1, <3>2, ValuesAlone
  <2> QED
    BY <2>1
<1> QED
  BY <1>1, <1>5, <1>6, <1>7, <1>10, <1>11

\* The application is told.
LEMMA TypeData ==
    ASSUME TypeInv, NEW h \in DOMAIN handlers, DataUpdate(h)
    PROVE  TypeInv'
<1>1. /\ handlers' = handlers (-) SetToBag({h})
      /\ UNCHANGED <<entity, version, served, cache, links, outbox, inbox>>
  BY DEF DataUpdate
<1>2. HandlersInv'
  BY <1>1, HandledGone, HandlersKept
<1>3. VersionInv' /\ CacheInv' /\ InboxInv' /\ OrderInv'
  BY <1>1, DataKept
<1>4. OutboxInv' /\ LinksInv'
  BY <1>1 DEF TypeInv, OutboxInv, LinksInv, Subscribes, Underway, SentAt
<1> QED
  BY <1>2, <1>3, <1>4 DEF TypeInv

\* What was received, the events it raises, and what is known then.
Event(uc, m) ==
    [useCase |-> uc, event |-> "data", todo |-> <<>>, parts |-> DOMAIN m.data,
     payload |-> UNION {ItemsOf(entity, m.data, p) : p \in DOMAIN m.data}]
Informs(uc, m) ==
    /\ uc \in entity.useCases /\ DOMAIN m.data \subseteq Handled[uc]
    /\ DOMAIN m.data = {"heartbeat"} => m.kind = "notify"
Arrived ==
    /\ 1 \in DOMAIN inbox
    /\ \A k \in DOMAIN inbox' : k + 1 \in DOMAIN inbox /\ inbox'[k] = inbox[k + 1]
    /\ \A k \in DOMAIN inbox : k = 1 \/ (k - 1 \in DOMAIN inbox' /\ inbox'[k - 1] = inbox[k])
    /\ cache' \in [Parts -> Nat \union {Nil}]
    /\ \A p \in Parts : /\ SentAt(inbox, p, 1) => cache'[p] = inbox[1].data[p]
                        /\ ~SentAt(inbox, p, 1) => cache'[p] = cache[p]
                        /\ cache[p] # Nil => cache'[p] # Nil /\ cache[p] <= cache'[p]
    /\ \A x : x \in DOMAIN handlers' <=>
                 x \in DOMAIN handlers \/ \E uc : Informs(uc, inbox[1]) /\ x = Event(uc, inbox[1])
    /\ UNCHANGED <<entity, version, served, links, outbox, view>>

\* The first message is received.
LEMMA ReceiveIs ==
    ASSUME TypeInv, Receive
    PROVE  Arrived /\ IsABag(handlers') /\ inbox' \in Seq([kind : {"reply", "notify"}, data : DataType])
<1> DEFINE M == [kind : {"reply", "notify"}, data : DataType]
           m == inbox[1]
<1>1. inbox \in Seq(M) /\ inbox # <<>> /\ inbox' = Tail(inbox)
  BY DEF TypeInv, InboxInv, Receive
<1> HIDE DEF M
<1>2. /\ inbox' \in Seq(M) /\ Head(inbox) = m /\ 1 \in DOMAIN inbox
      /\ \A k \in DOMAIN inbox' : k + 1 \in DOMAIN inbox /\ inbox'[k] = inbox[k + 1]
      /\ \A k \in DOMAIN inbox : k = 1 \/ (k - 1 \in DOMAIN inbox' /\ inbox'[k - 1] = inbox[k])
  BY <1>1, TailIs
<1>3. /\ DOMAIN m.data \subseteq Parts
      /\ \A p \in DOMAIN m.data : version[p] # Nil /\ m.data[p] \in 1..version[p]
      /\ \A p \in DOMAIN m.data : cache[p] # Nil => cache[p] <= m.data[p]
  BY <1>2, TogetherFeature DEF TypeInv, InboxInv, OrderInv
<1>4. /\ cache \in [Parts -> Nat \union {Nil}] /\ version \in [Parts -> Nat \union {Nil}] /\ Nil \notin Nat
  BY NilIs DEF TypeInv, CacheInv, VersionInv, VersionsOf
<1>5. cache' = [p \in Parts |-> IF p \in DOMAIN m.data THEN m.data[p] ELSE cache[p]]
  BY <1>2 DEF Receive
<1> HIDE DEF m
<1>6. /\ DOMAIN cache' = Parts
      /\ \A p \in Parts : cache'[p] = IF p \in DOMAIN m.data THEN m.data[p] ELSE cache[p]
  BY <1>5
<1>7. \A p \in Parts : cache[p] # Nil => cache'[p] # Nil /\ cache[p] <= cache'[p]
  BY <1>3, <1>4, <1>6
<1>8. cache' \in [Parts -> Nat \union {Nil}]
  BY <1>3, <1>4, <1>5
<1> DEFINE U == {u \in entity.useCases : /\ DOMAIN m.data \subseteq Handled[u]
                                         /\ DOMAIN m.data = {"heartbeat"} => IsHeartbeat(m)}
           New == {Event(uc, m) : uc \in U}
<1>9. handlers' = handlers (+) SetToBag(New)
  <2>1. UNION {Items(m.data, p) : p \in DOMAIN m.data} = UNION {ItemsOf(entity, m.data, p) : p \in DOMAIN m.data}
    BY DEF Items, ItemsOf
  <2> DEFINE Raised(x) ==
               {[useCase |-> uc, event |-> "data", todo |-> <<>>, parts |-> DOMAIN x.data,
                 payload |-> UNION {Items(x.data, p) : p \in DOMAIN x.data}] :
                   uc \in {u \in entity.useCases : /\ DOMAIN x.data \subseteq Handled[u]
                                                   /\ DOMAIN x.data = {"heartbeat"} => IsHeartbeat(x)}}
  <2>2. handlers' = handlers (+) SetToBag(Raised(Head(inbox)))
    BY Zenon DEF Receive
  <2>3. Raised(Head(inbox)) = Raised(m)
    <3> HIDE DEF Raised
    <3> QED
      BY <1>2
  <2>4. Raised(m) = New
    BY <2>1, Zenon DEF Event
  <2> HIDE DEF Raised, New
  <2> QED
    BY <2>2, <2>3, <2>4, Zenon
<1>10. \A u : u \in U <=> Informs(u, m)
  BY DEF Informs, IsHeartbeat
<1>11. IsABag(handlers)
  BY DEF TypeInv, HandlersInv
<1>12. \A x : x \in New <=> \E uc : Informs(uc, m) /\ x = Event(uc, m)
  BY <1>10
<1> HIDE DEF New
<1>13. IsABag(handlers') /\ DOMAIN handlers' = DOMAIN handlers \union New
  BY <1>9, <1>11, Added
<1>14. UNCHANGED <<entity, version, served, links, outbox, view>>
  BY DEF Receive
<1> QED
  BY <1>2, <1>6, <1>7, <1>8, <1>12, <1>13, <1>14 DEF Arrived, SentAt, m, M

\* Data arrive.
LEMMA TypeReceive ==
    ASSUME TypeInv, Receive
    PROVE  TypeInv'
<1> DEFINE m == inbox[1]
           M == [kind : {"reply", "notify"}, data : DataType]
<1>1. Arrived /\ IsABag(handlers') /\ inbox' \in Seq(M)
  BY ReceiveIs
<1>2. VersionInv' /\ OutboxInv'
  BY <1>1 DEF TypeInv, VersionInv, OutboxInv, Arrived
<1>3. entity \in Entities /\ Nil \notin Nat /\ Together(DOMAIN m.data) /\ DOMAIN m.data \subseteq Parts
      /\ cache \in [Parts -> Nat \union {Nil}] /\ version \in [Parts -> Nat \union {Nil}]
      /\ \A p \in DOMAIN m.data : version[p] # Nil /\ m.data[p] \in 1..version[p]
  BY <1>1, NilIs, TogetherFeature DEF TypeInv, VersionInv, VersionsOf, CacheInv, InboxInv, Arrived
<1>4. ASSUME NEW p \in Parts, cache'[p] # Nil
      PROVE  /\ version[p] # Nil /\ cache'[p] <= version[p] /\ cache'[p] \in 1..MaxVersion
             /\ FeatureOf(p) \in entity.features
             /\ p \notin ValueParts => cache'[p] = 1
  <2>1. /\ version[p] # Nil => version[p] \in 1..MaxVersion /\ FeatureOf(p) \in entity.features
        /\ version[p] # Nil /\ p \notin ValueParts => version[p] = 1
    BY DEF TypeInv, VersionInv, VersionsOf
  <2>2. MaxVersion \in Nat
    BY RemoteDataAssumption
  <2>3. CASE SentAt(inbox, p, 1)
    <3>1. cache'[p] = m.data[p] /\ version[p] # Nil /\ cache'[p] \in 1..version[p]
      BY <1>1, <1>3, <2>3 DEF Arrived, SentAt
    <3>2. version[p] \in Nat /\ version[p] <= MaxVersion
      BY <2>1, <2>2, <3>1
    <3>3. cache'[p] \in 1..MaxVersion /\ cache'[p] <= version[p] /\ (version[p] = 1 => cache'[p] = 1)
      BY <2>2, <3>1, <3>2
    <3> QED
      BY <2>1, <3>1, <3>3
  <2>4. CASE ~SentAt(inbox, p, 1)
    <3>1. cache'[p] = cache[p]
      BY <1>1, <2>4 DEF Arrived
    <3> QED
      BY <1>4, <3>1 DEF TypeInv, CacheInv, VersionsOf
  <2> QED
    BY <2>3, <2>4
<1>5. CacheInv'
  <2>1. cache' \in [Parts -> Nat \union {Nil}] /\ UNCHANGED <<entity, version>>
    BY <1>1 DEF Arrived
  <2>2. VersionsOf(entity, cache')
    BY <1>4, <2>1 DEF VersionsOf
  <2>3. \A p \in Parts : cache'[p] # Nil => version'[p] # Nil /\ cache'[p] <= version'[p]
    BY <1>4, <2>1
  <2>4. VersionsOf(entity', cache')
    BY <2>1, <2>2, Zenon
  <2> QED
    BY <2>3, <2>4 DEF CacheInv
<1>6. InboxInv'
  BY <1>1 DEF TypeInv, InboxInv, Arrived
<1>7. ASSUME NEW x \in DOMAIN handlers'
      PROVE  /\ x = [useCase |-> x.useCase, event |-> x.event, todo |-> x.todo, parts |-> x.parts,
                     payload |-> x.payload]
             /\ x.useCase \in entity.useCases /\ (Connecting(x) \/ Updating(x)')
  <2>1. CASE x \in DOMAIN handlers
    <3>1. /\ x = [useCase |-> x.useCase, event |-> x.event, todo |-> x.todo, parts |-> x.parts,
                  payload |-> x.payload]
          /\ x.useCase \in entity.useCases /\ (Connecting(x) \/ Updating(x))
      BY <2>1 DEF TypeInv, HandlersInv
    <3>2. ASSUME Updating(x) PROVE Updating(x)'
      <4>1. \A p \in x.parts : p \in Parts /\ cache[p] # Nil
        BY <3>2, TogetherFeature DEF Updating
      <4>2. \A p \in x.parts : cache'[p] # Nil /\ \A v \in 1..cache[p] : v \in 1..cache'[p]
        <5>1. \A p \in x.parts : cache[p] \in Nat /\ cache'[p] \in Nat /\ cache'[p] # Nil /\ cache[p] <= cache'[p]
          BY <1>1, <1>3, <4>1 DEF Arrived
        <5> QED
          BY <5>1
      <4>3. entity' = entity
        BY <1>1 DEF Arrived
      <4> QED
        BY <3>2, <4>2, <4>3 DEF Updating
    <3> QED
      BY <3>1, <3>2
  <2>2. CASE \E uc : Informs(uc, m) /\ x = Event(uc, m)
    <3>1. PICK uc : Informs(uc, m) /\ x = Event(uc, m)
      BY <2>2
    <3>2. /\ x.useCase = uc /\ x.event = "data" /\ x.todo = <<>> /\ x.parts = DOMAIN m.data
          /\ x.payload = UNION {ItemsOf(entity, m.data, p) : p \in DOMAIN m.data}
      BY <3>1 DEF Event
    <3>3. x = [useCase |-> x.useCase, event |-> x.event, todo |-> x.todo, parts |-> x.parts,
               payload |-> x.payload]
      BY <3>1, <3>2 DEF Event
    <3>4. uc \in entity.useCases /\ DOMAIN m.data \subseteq Handled[uc]
      BY <3>1 DEF Informs
    <3>5. \A p \in DOMAIN m.data : cache'[p] = m.data[p] /\ cache'[p] # Nil /\ m.data[p] \in 1..cache'[p]
      <4>1. \A p \in DOMAIN m.data : cache'[p] = m.data[p]
        BY <1>1, <1>3 DEF Arrived, SentAt
      <4>2. \A p \in DOMAIN m.data : version[p] \in Nat /\ m.data[p] \in Nat /\ 1 <= m.data[p]
        BY <1>3
      <4> QED
        BY <1>3, <4>1, <4>2
    <3>6. \A i \in x.payload : \E p \in x.parts : \E v \in 1..cache'[p] : i \in entity.data[p][v]
      <4>1. ASSUME NEW i \in x.payload PROVE \E p \in x.parts : \E v \in 1..cache'[p] : i \in entity.data[p][v]
        <5>1. PICK p \in DOMAIN m.data : i \in ItemsOf(entity, m.data, p)
          BY <3>2, <4>1
        <5>2. i \in entity.data[p][m.data[p]]
          BY <5>1 DEF ItemsOf
        <5> QED
          BY <3>2, <3>5, <5>2
      <4> QED
        BY <4>1
    <3>7. entity' = entity
      BY <1>1 DEF Arrived
    <3> QED
      BY <1>3, <3>2, <3>3, <3>4, <3>5, <3>6, <3>7 DEF Updating
  <2> QED
    BY <1>1, <2>1, <2>2 DEF Arrived
<1>8. HandlersInv'
  <2>1. entity' = entity
    BY <1>1 DEF Arrived
  <2> QED
    BY <1>1, <1>7, <2>1 DEF HandlersInv, Connecting
<1>9. LinksInv'
  <2>1. ASSUME NEW p \in Parts, Underway(p)' \/ cache'[p] # Nil
        PROVE  Underway(p) \/ cache[p] # Nil
    BY <1>1, <2>1 DEF Arrived, Underway, SentAt
  <2>2. UNCHANGED <<entity, served, links, outbox>>
    BY <1>1 DEF Arrived
  <2> QED
    BY <2>1, <2>2 DEF TypeInv, LinksInv, Subscribes
<1>10. OrderInv'
  <2>1. \A i, j \in DOMAIN inbox' : i < j => \A p \in DOMAIN inbox'[i].data \intersect DOMAIN inbox'[j].data :
           inbox'[i].data[p] <= inbox'[j].data[p]
    <3>1. \A i \in DOMAIN inbox' : i \in Nat
      BY <1>1
    <3> QED
      BY <1>1, <3>1 DEF TypeInv, OrderInv, Arrived
  <2>2. ASSUME NEW i \in DOMAIN inbox', NEW p \in DOMAIN inbox'[i].data, cache'[p] # Nil
        PROVE  cache'[p] <= inbox'[i].data[p]
    <3>1. /\ i + 1 \in DOMAIN inbox /\ inbox'[i] = inbox[i + 1] /\ i \in Nat /\ 1 < i + 1 /\ 1 \in DOMAIN inbox
      BY <1>1 DEF Arrived
    <3>2. p \in Parts
      BY <3>1, TogetherFeature DEF TypeInv, InboxInv
    <3>3. CASE SentAt(inbox, p, 1)
      <4>1. cache'[p] = m.data[p] /\ p \in DOMAIN m.data
        BY <1>1, <3>2, <3>3 DEF Arrived, SentAt
      <4> QED
        BY <3>1, <4>1 DEF TypeInv, OrderInv
    <3>4. CASE ~SentAt(inbox, p, 1)
      <4>1. cache'[p] = cache[p]
        BY <1>1, <3>2, <3>4 DEF Arrived
      <4> QED
        BY <2>2, <3>1, <4>1 DEF TypeInv, OrderInv
    <3> QED
      BY <3>3, <3>4
  <2> QED
    BY <2>1, <2>2 DEF OrderInv
<1> QED
  BY <1>2, <1>5, <1>6, <1>8, <1>9, <1>10 DEF TypeInv

\* A message follows those that are on their way.
Later(m, n) ==
    /\ n \in DOMAIN inbox' /\ inbox'[n] = m /\ n \in Nat
    /\ \A k \in DOMAIN inbox : k \in DOMAIN inbox' /\ inbox'[k] = inbox[k] /\ k < n /\ k \in Nat
    /\ \A k \in DOMAIN inbox' : k \in DOMAIN inbox \/ k = n

\* One message more keeps the order when its data are the last.
LEMMA MessageKeeps ==
    ASSUME TypeInv, NEW m \in [kind : {"reply", "notify"}, data : DataType], Together(DOMAIN m.data),
           inbox' = Append(inbox, m), UNCHANGED <<entity, cache>>,
           \A p \in Parts : version[p] # Nil => version'[p] \in Nat /\ version'[p] # Nil /\ version[p] <= version'[p],
           \A p \in DOMAIN m.data : version'[p] # Nil /\ version'[p] \in Nat \ {0} /\ m.data[p] = version'[p]
    PROVE  InboxInv' /\ OrderInv' /\ \E n : Later(m, n)
<1> DEFINE M == [kind : {"reply", "notify"}, data : DataType]
<1>1. inbox \in Seq(M) /\ m \in M
  BY DEF TypeInv, InboxInv
<1> HIDE DEF M
<1>2. inbox' \in Seq(M) /\ Later(m, Len(inbox) + 1)
  <2>1. /\ Append(inbox, m) \in Seq(M)
        /\ DOMAIN Append(inbox, m) = 1..Len(inbox) + 1 /\ DOMAIN inbox = 1..Len(inbox)
        /\ Append(inbox, m)[Len(inbox) + 1] = m
        /\ \A k \in DOMAIN inbox : Append(inbox, m)[k] = inbox[k]
    BY <1>1, AppendIs
  <2>2. Len(inbox) \in Nat
    BY <1>1
  <2> QED
    BY <2>1, <2>2 DEF Later
<1>3. PICK n : Later(m, n)
  BY <1>2
<1>4. /\ \A p \in Parts : version[p] # Nil => version[p] \in Nat
      /\ \A p \in Parts : cache[p] # Nil => cache[p] \in Nat /\ version[p] # Nil /\ cache[p] <= version[p]
  BY DEF TypeInv, VersionInv, CacheInv, VersionsOf
<1>5. ASSUME NEW k \in DOMAIN inbox
      PROVE  /\ Together(DOMAIN inbox[k].data) /\ DOMAIN inbox[k].data \subseteq Parts
             /\ \A p \in DOMAIN inbox[k].data :
                  version[p] # Nil /\ inbox[k].data[p] \in 1..version[p] /\ version[p] \in Nat
  BY <1>4, TogetherFeature DEF TypeInv, InboxInv
<1>6. DOMAIN m.data \subseteq Parts
  BY TogetherFeature
<1>7. InboxInv'
  <2>1. ASSUME NEW k \in DOMAIN inbox'
        PROVE  /\ Together(DOMAIN inbox'[k].data)
               /\ \A p \in DOMAIN inbox'[k].data : version'[p] # Nil /\ inbox'[k].data[p] \in 1..version'[p]
    <3>1. CASE k \in DOMAIN inbox
      <4>1. inbox'[k] = inbox[k]
        BY <1>3, <3>1 DEF Later
      <4>2. \A p \in DOMAIN inbox[k].data : version'[p] # Nil /\ version'[p] \in Nat /\ version[p] <= version'[p]
        BY <1>5, <3>1
      <4>3. \A p \in DOMAIN inbox[k].data : inbox[k].data[p] \in 1..version'[p]
        BY <1>5, <3>1, <4>2
      <4> QED
        BY <1>5, <3>1, <4>1, <4>2, <4>3
    <3>2. CASE k = n
      <4>1. inbox'[k] = m
        BY <1>3, <3>2 DEF Later
      <4>2. \A p \in DOMAIN m.data : version'[p] # Nil /\ m.data[p] \in 1..version'[p]
        OBVIOUS
      <4> QED
        BY <4>1, <4>2
    <3> QED
      BY <1>3, <3>1, <3>2 DEF Later
  <2> QED
    BY <1>2, <2>1 DEF InboxInv, M
<1>8. OrderInv'
  <2>1. ASSUME NEW i \in DOMAIN inbox', NEW j \in DOMAIN inbox', i < j,
               NEW p \in DOMAIN inbox'[i].data \intersect DOMAIN inbox'[j].data
        PROVE  inbox'[i].data[p] <= inbox'[j].data[p]
    <3>1. i \in DOMAIN inbox /\ inbox'[i] = inbox[i]
      <4>1. i # n
        BY <1>3, <2>1 DEF Later
      <4> QED
        BY <1>3, <4>1 DEF Later
    <3>2. CASE j \in DOMAIN inbox
      <4>1. inbox'[j] = inbox[j]
        BY <1>3, <3>2 DEF Later
      <4> QED
        BY <2>1, <3>1, <3>2, <4>1 DEF TypeInv, OrderInv
    <3>3. CASE j = n
      <4>1. inbox'[j] = m /\ p \in DOMAIN m.data /\ p \in DOMAIN inbox[i].data
        BY <1>3, <3>1, <3>3 DEF Later
      <4>2. /\ inbox[i].data[p] \in 1..version[p] /\ version[p] \in Nat /\ version'[p] \in Nat
            /\ version[p] <= version'[p] /\ m.data[p] = version'[p]
        BY <1>5, <3>1, <4>1
      <4>3. inbox[i].data[p] <= m.data[p]
        BY <4>2
      <4> QED
        BY <3>1, <4>1, <4>3
    <3> QED
      BY <1>3, <3>2, <3>3 DEF Later
  <2>2. ASSUME NEW i \in DOMAIN inbox', NEW p \in DOMAIN inbox'[i].data, cache[p] # Nil
        PROVE  cache[p] <= inbox'[i].data[p]
    <3>1. CASE i \in DOMAIN inbox
      <4>1. inbox'[i] = inbox[i]
        BY <1>3, <3>1 DEF Later
      <4> QED
        BY <2>2, <3>1, <4>1 DEF TypeInv, OrderInv
    <3>2. CASE i = n
      <4>1. inbox'[i] = m /\ p \in DOMAIN m.data
        BY <1>3, <3>2 DEF Later
      <4>2. /\ cache[p] \in Nat /\ cache[p] <= version[p] /\ version[p] \in Nat /\ version'[p] \in Nat
            /\ version[p] <= version'[p] /\ m.data[p] = version'[p]
        BY <1>4, <1>6, <2>2, <4>1
      <4>3. cache[p] <= m.data[p]
        BY <4>2
      <4> QED
        BY <4>1, <4>3
    <3> QED
      BY <1>3, <3>1, <3>2 DEF Later
  <2> QED
    BY <2>1, <2>2 DEF OrderInv
<1> QED
  BY <1>3, <1>7, <1>8

\* The remote device serves a message: what it sends, and what it still has to serve.
Answered ==
    /\ 1 \in DOMAIN outbox
    /\ \A k \in DOMAIN outbox' : k + 1 \in DOMAIN outbox /\ outbox'[k] = outbox[k + 1] /\ k \in Nat
    /\ \A k \in DOMAIN outbox : k = 1 \/ (k - 1 \in DOMAIN outbox' /\ outbox'[k - 1] = outbox[k])
    /\ outbox[1].kind = "read" => \E n : Later(Data("reply", outbox[1].parts), n)
    /\ outbox[1].kind # "read" => inbox' = inbox
    /\ UNCHANGED <<entity, version, cache, links, handlers, view>>

\* The remote device answers.
LEMMA TypeAnswer ==
    ASSUME TypeInv, RemoteAnswers
    PROVE  TypeInv' /\ Answered
<1> DEFINE m == outbox[1]
           d == Data("reply", m.parts)
<1>1. outbox \in Seq(MessageType) /\ outbox # <<>> /\ outbox' = Tail(outbox)
      /\ UNCHANGED <<entity, version, cache, links, handlers, view>>
  BY DEF TypeInv, OutboxInv, RemoteAnswers
<1>2. /\ outbox' \in Seq(MessageType) /\ Head(outbox) = m /\ 1 \in DOMAIN outbox
      /\ \A k \in DOMAIN outbox' : k + 1 \in DOMAIN outbox /\ outbox'[k] = outbox[k + 1]
      /\ \A k \in DOMAIN outbox : k = 1 \/ (k - 1 \in DOMAIN outbox' /\ outbox'[k - 1] = outbox[k])
  BY <1>1, TailIs
<1>3. /\ served' = IF m.kind = "subscribe" THEN served \union {m.feature} ELSE served
      /\ inbox' = IF m.kind = "read" THEN Append(inbox, d) ELSE inbox
  BY <1>2 DEF RemoteAnswers
<1>4. /\ m.feature \in entity.features /\ m.kind \in {"subscribe", "bind", "read"}
      /\ m.kind = "read" => /\ Together(m.parts) /\ m.feature \in served
                            /\ \A p \in m.parts : FeatureOf(p) = m.feature
  <2>1. m \in MessageType
    BY <1>1, <1>2
  <2>2. m.kind = "read" => m.feature \in served
    <3>1. \A j \in DOMAIN outbox : ~(j < 1)
      BY <1>1
    <3> QED
      BY <1>2, <3>1 DEF TypeInv, LinksInv
  <2> QED
    BY <1>2, <2>1, <2>2 DEF TypeInv, OutboxInv, MessageType
<1>5. \A k \in DOMAIN outbox' : k \in Nat
  BY <1>2
<1>6. ASSUME m.kind = "read"
      PROVE  /\ InboxInv' /\ OrderInv' /\ \E n : Later(d, n)
             /\ \A p \in Parts : Underway(p)' => Underway(p) \/ FeatureOf(p) \in served
  <2>1. /\ d.kind = "reply" /\ DOMAIN d.data = m.parts /\ m.parts \subseteq Parts
        /\ \A p \in m.parts : d.data[p] = version[p]
    BY <1>4, <1>6, TogetherFeature DEF Data
  <2>2. \A p \in m.parts : version[p] # Nil /\ version[p] \in Nat \ {0}
    BY <1>4, <1>6, <2>1 DEF TypeInv, VersionInv, VersionsOf
  <2>3. d \in [kind : {"reply", "notify"}, data : DataType]
    <3>1. [p \in m.parts |-> version[p]] \in [m.parts -> Nat]
      BY <2>2
    <3>2. [p \in m.parts |-> version[p]] \in DataType
      BY <2>1, <3>1 DEF DataType
    <3> QED
      BY <3>2 DEF Data
  <2>4. \A p \in Parts : version[p] # Nil => version'[p] \in Nat /\ version'[p] # Nil /\ version[p] <= version'[p]
    BY <1>1 DEF TypeInv, VersionInv, VersionsOf
  <2>5. \A p \in DOMAIN d.data : version'[p] # Nil /\ version'[p] \in Nat \ {0} /\ d.data[p] = version'[p]
    BY <1>1, <2>1, <2>2
  <2>6. Together(DOMAIN d.data) /\ inbox' = Append(inbox, d)
    BY <1>3, <1>4, <1>6, <2>1
  <2> HIDE DEF d, m
  <2>7. InboxInv' /\ OrderInv' /\ \E n : Later(d, n)
    BY <1>1, <2>3, <2>4, <2>5, <2>6, MessageKeeps
  <2>8. \A p \in Parts : Underway(p)' => Underway(p) \/ FeatureOf(p) \in served
    <3>1. PICK n : Later(d, n)
      BY <2>7
    <3> QED
      BY <1>4, <1>6, <2>1, <3>1 DEF Underway, SentAt, Later
  <2> QED
    BY <2>7, <2>8
<1>7. ASSUME m.kind # "read"
      PROVE  InboxInv' /\ OrderInv' /\ inbox' = inbox
  <2>1. inbox' = inbox
    BY <1>3, <1>7
  <2>2. InboxInv' /\ OrderInv'
    BY <1>1, <2>1 DEF TypeInv, InboxInv, OrderInv
  <2> QED
    BY <2>1, <2>2
<1> HIDE DEF m, d
<1>8. InboxInv' /\ OrderInv' /\ \A p \in Parts : Underway(p)' => Underway(p) \/ FeatureOf(p) \in served
  BY <1>6, <1>7 DEF Underway, SentAt
<1>9. LinksInv'
  <2>1. served \subseteq served' /\ served' \subseteq entity.features
    BY <1>3, <1>4 DEF TypeInv, LinksInv
  <2>2. ASSUME NEW f \in entity.features, NEW k \in DOMAIN outbox, Subscribes(outbox, f, k)
        PROVE  f \in served' \/ (k - 1 \in DOMAIN outbox' /\ Subscribes(outbox', f, k - 1))
    <3>1. CASE k = 1
      BY <1>3, <2>2, <3>1 DEF Subscribes, m
    <3>2. CASE k # 1
      BY <1>2, <2>2, <3>2 DEF Subscribes
    <3> QED
      BY <3>1, <3>2
  <2>3. ASSUME NEW f \in entity.features, <<"subscribe", f>> \in links
        PROVE  f \in served' \/ \E k \in DOMAIN outbox' : Subscribes(outbox', f, k)
    <3>1. f \in served \/ \E k \in DOMAIN outbox : Subscribes(outbox, f, k)
      BY <2>3 DEF TypeInv, LinksInv
    <3> QED
      BY <2>1, <2>2, <3>1
  <2>4. ASSUME NEW k \in DOMAIN outbox', outbox'[k].kind = "read"
        PROVE  \/ outbox'[k].feature \in served'
               \/ \E j \in DOMAIN outbox' : j < k /\ Subscribes(outbox', outbox'[k].feature, j)
    <3>1. k + 1 \in DOMAIN outbox /\ outbox'[k] = outbox[k + 1] /\ k \in Nat
      BY <1>2, <1>5
    <3>2. \/ outbox'[k].feature \in served
          \/ \E j \in DOMAIN outbox : j < k + 1 /\ Subscribes(outbox, outbox'[k].feature, j)
      BY <2>4, <3>1 DEF TypeInv, LinksInv
    <3>3. ASSUME NEW j \in DOMAIN outbox, j < k + 1, Subscribes(outbox, outbox'[k].feature, j)
          PROVE  \/ outbox'[k].feature \in served'
                 \/ \E i \in DOMAIN outbox' : i < k /\ Subscribes(outbox', outbox'[k].feature, i)
      <4>1. j - 1 < k
        <5>1. j \in Nat
          BY <1>1
        <5> QED
          BY <3>1, <3>3, <5>1
      <4>2. outbox'[k].feature \in entity.features
        BY <3>1 DEF TypeInv, OutboxInv
      <4> QED
        BY <2>2, <3>3, <4>1, <4>2
    <3> QED
      BY <2>1, <3>2, <3>3
  <2>5. \A p \in Parts : Underway(p)' \/ cache'[p] # Nil => FeatureOf(p) \in served'
    BY <1>1, <1>8, <2>1 DEF TypeInv, LinksInv
  <2>6. entity' = entity /\ links' = links
    BY <1>1
  <2> QED
    BY <2>1, <2>3, <2>4, <2>5, <2>6 DEF LinksInv
<1>10. OutboxInv'
  BY <1>1, <1>2 DEF TypeInv, OutboxInv
<1>11. VersionInv' /\ CacheInv' /\ HandlersInv'
  BY <1>1 DEF TypeInv, VersionInv, CacheInv, HandlersInv, Updating
<1>12. Answered
  BY <1>1, <1>2, <1>3, <1>5, <1>6 DEF Answered, m, d
<1> QED
  BY <1>8, <1>9, <1>10, <1>11, <1>12 DEF TypeInv

\* The remote device changes a part: what it publishes, and whom it tells.
Notice(part) == [kind |-> "notify", data |-> [p \in {part} |-> version[part] + 1]]
Changed(part) ==
    /\ part \in ValueParts /\ version[part] # Nil /\ version[part] \in Nat
    /\ version' \in [Parts -> Nat \union {Nil}] /\ version'[part] = version[part] + 1
    /\ \A p \in Parts : p # part => version'[p] = version[p]
    /\ FeatureOf(part) \in served => \E n : Later(Notice(part), n)
    /\ FeatureOf(part) \notin served => inbox' = inbox
    /\ UNCHANGED <<entity, served, cache, links, outbox, handlers, view>>

\* The remote device changes a value.
LEMMA TypeChange ==
    ASSUME TypeInv, NEW part \in entity.changing, RemoteChanges(part)
    PROVE  TypeInv' /\ Changed(part)
<1> DEFINE d == Notice(part)
<1>1. /\ version[part] # Nil /\ version[part] < MaxVersion /\ version' = [version EXCEPT ![part] = @ + 1]
      /\ inbox' = IF FeatureOf(part) \in served THEN Append(inbox, d) ELSE inbox
      /\ UNCHANGED <<entity, served, cache, links, outbox, handlers, view>>
  BY DEF RemoteChanges, Notice
<1>2. entity \in Entities /\ part \in ValueParts /\ part \in Parts /\ MaxVersion \in Nat /\ Nil \notin Nat
  BY EntityIs, PartsAre, NilIs, RemoteDataAssumption DEF TypeInv, VersionInv, ValueParts
<1>3. /\ version \in [Parts -> Nat \union {Nil}]
      /\ \A p \in Parts : version[p] # Nil =>
           /\ FeatureOf(p) \in entity.features
           /\ version[p] \in 1..MaxVersion
           /\ p \notin ValueParts => version[p] = 1
      /\ \A p \in Parts : FeatureOf(p) \in entity.features => version[p] # Nil
  BY DEF TypeInv, VersionInv, VersionsOf
<1>4. version[part] \in Nat /\ version[part] + 1 \in 1..MaxVersion /\ version[part] + 1 \in Nat \ {0}
  BY <1>1, <1>2, <1>3
<1>5. /\ version' \in [Parts -> Nat \union {Nil}] /\ version'[part] = version[part] + 1
      /\ \A p \in Parts : p # part => version'[p] = version[p]
  BY <1>1, <1>2, <1>3, <1>4
<1>6. \A p \in Parts : version[p] # Nil => version'[p] \in Nat /\ version'[p] # Nil /\ version[p] <= version'[p]
  <2>1. ASSUME NEW p \in Parts, version[p] # Nil
        PROVE  version'[p] \in Nat /\ version'[p] # Nil /\ version[p] <= version'[p]
    <3>1. CASE p = part
      BY <1>2, <1>4, <1>5, <3>1
    <3>2. CASE p # part
      BY <1>3, <1>5, <2>1, <3>2
    <3> QED
      BY <3>1, <3>2
  <2> QED
    BY <2>1
<1>7. VersionInv'
  <2>1. ASSUME NEW p \in Parts, version'[p] # Nil
        PROVE  /\ FeatureOf(p) \in entity.features /\ version'[p] \in 1..MaxVersion
               /\ p \notin ValueParts => version'[p] = 1
    <3>1. CASE p = part
      BY <1>1, <1>2, <1>3, <1>4, <1>5, <3>1
    <3>2. CASE p # part
      BY <1>3, <1>5, <2>1, <3>2
    <3> QED
      BY <3>1, <3>2
  <2>2. VersionsOf(entity, version')
    BY <1>5, <2>1 DEF VersionsOf
  <2>3. entity' = entity
    BY <1>1
  <2>4. VersionsOf(entity', version')
    BY <2>2, <2>3, Zenon
  <2>5. \A p \in Parts : FeatureOf(p) \in entity'.features => version'[p] # Nil
    BY <1>3, <1>6, <2>3
  <2> QED
    BY <1>2, <2>3, <2>4, <2>5 DEF VersionInv
<1>8. CacheInv'
  <2>1. ASSUME NEW p \in Parts, cache[p] # Nil PROVE version'[p] # Nil /\ cache[p] <= version'[p]
    <3>1. cache[p] \in Nat /\ version[p] # Nil /\ version[p] \in Nat /\ cache[p] <= version[p]
      BY <1>3, <2>1 DEF TypeInv, CacheInv, VersionsOf
    <3> QED
      BY <1>6, <3>1
  <2>2. entity' = entity /\ cache' = cache
    BY <1>1
  <2>3. VersionsOf(entity', cache')
    BY <2>2 DEF TypeInv, CacheInv
  <2> QED
    BY <2>1, <2>2, <2>3 DEF CacheInv
<1>9. ASSUME FeatureOf(part) \in served
      PROVE  /\ InboxInv' /\ OrderInv' /\ \E n : Later(d, n)
             /\ \A p \in Parts : Underway(p)' => Underway(p) \/ FeatureOf(p) \in served
  <2>1. d.kind = "notify" /\ DOMAIN d.data = {part} /\ d.data[part] = version[part] + 1
    BY DEF Notice
  <2>2. d \in [kind : {"reply", "notify"}, data : DataType]
    <3>1. [p \in {part} |-> version[part] + 1] \in [{part} -> Nat]
      BY <1>4
    <3>2. [p \in {part} |-> version[part] + 1] \in DataType
      BY <1>2, <3>1 DEF DataType
    <3> QED
      BY <3>2 DEF Notice
  <2>3. Together(DOMAIN d.data) /\ inbox' = Append(inbox, d)
    BY <1>1, <1>2, <1>9, <2>1, TogetherIs
  <2>4. \A p \in DOMAIN d.data : version'[p] # Nil /\ version'[p] \in Nat \ {0} /\ d.data[p] = version'[p]
    BY <1>2, <1>4, <1>5, <2>1
  <2> HIDE DEF d
  <2>5. InboxInv' /\ OrderInv' /\ \E n : Later(d, n)
    BY <1>1, <1>6, <2>2, <2>3, <2>4, MessageKeeps
  <2>6. \A p \in Parts : Underway(p)' => Underway(p) \/ FeatureOf(p) \in served
    <3>1. PICK n : Later(d, n)
      BY <2>5
    <3> QED
      BY <1>9, <2>1, <3>1 DEF Underway, SentAt, Later
  <2> QED
    BY <2>5, <2>6
<1>10. ASSUME FeatureOf(part) \notin served
       PROVE  InboxInv' /\ OrderInv' /\ inbox' = inbox
  <2>1. inbox' = inbox /\ cache' = cache
    BY <1>1, <1>10
  <2>2. OrderInv'
    BY <2>1 DEF TypeInv, OrderInv
  <2>3. ASSUME NEW k \in DOMAIN inbox, NEW p \in DOMAIN inbox[k].data
        PROVE  version'[p] # Nil /\ inbox[k].data[p] \in 1..version'[p]
    <3>1. p \in Parts /\ version[p] # Nil /\ inbox[k].data[p] \in 1..version[p]
      BY TogetherFeature DEF TypeInv, InboxInv
    <3>2. version[p] \in Nat /\ version'[p] \in Nat /\ version'[p] # Nil /\ version[p] <= version'[p]
      BY <1>3, <1>6, <3>1
    <3> QED
      BY <3>1, <3>2
  <2>4. InboxInv'
    BY <2>1, <2>3 DEF TypeInv, InboxInv
  <2> QED
    BY <2>1, <2>2, <2>4
<1> HIDE DEF d
<1>11. LinksInv'
  <2>1. \A p \in Parts : Underway(p)' => Underway(p) \/ FeatureOf(p) \in served
    BY <1>9, <1>10 DEF Underway, SentAt
  <2> QED
    BY <1>1, <2>1 DEF TypeInv, LinksInv, Subscribes
<1>12. OutboxInv' /\ HandlersInv'
  BY <1>1 DEF TypeInv, OutboxInv, HandlersInv, Updating
<1>13. InboxInv' /\ OrderInv'
  BY <1>9, <1>10
<1>14. Changed(part)
  BY <1>1, <1>2, <1>4, <1>5, <1>9, <1>10 DEF Changed, d
<1> QED
  BY <1>7, <1>8, <1>11, <1>12, <1>13, <1>14 DEF TypeInv

\* Types and the order of messages hold.
LEMMA TypeStep ==
    ASSUME TypeInv, [Next]_vars
    PROVE  TypeInv'
<1>1. CASE \E h \in DOMAIN handlers : Handle(h)
  BY <1>1, TypeConnect, TypeDescription, TypeData DEF Handle
<1>2. CASE Receive
  BY <1>2, TypeReceive
<1>3. CASE RemoteAnswers
  BY <1>3, TypeAnswer
<1>4. CASE \E part \in entity.changing : RemoteChanges(part)
  BY <1>4, TypeChange
<1>5. CASE UNCHANGED vars
  BY <1>5 DEF vars, TypeInv, VersionInv, CacheInv, OutboxInv, InboxInv, HandlersInv, Updating, LinksInv, Subscribes,
              Underway, SentAt, OrderInv
<1> QED
  BY <1>1, <1>2, <1>3, <1>4, <1>5 DEF Next

-----------------------------------------------------------------------------
(* What the application is told of.                                        *)

Told(h) == UNION {ValuesUpdated(h.useCase, p, EntityData(cache), h.payload) : p \in h.parts}
Tell(h) ==
    /\ Updating(h) /\ h.useCase \in entity.useCases /\ h.useCase \in UseCases
    /\ h.parts \subseteq ValueParts /\ h.parts \subseteq Handled[h.useCase]
    /\ DOMAIN view' = DOMAIN view /\ DOMAIN view = ValuesOf(entity.useCases)
    /\ view' = [q \in ValuesOf(entity.useCases) |-> view'[q]]
    /\ \A q \in DOMAIN view : /\ q \in Told(h) => view'[q] = Read(q, DataOf(entity, cache))
                              /\ q \notin Told(h) => view'[q] = view[q]
    /\ Told(h) \subseteq Values[h.useCase]
    /\ \A q \in Values[h.useCase] \ Heartbeats :
         q \in Told(h) <=> /\ \E p \in h.parts : ListOf(p) = ListOf(ValuePart(q))
                           /\ Tells(q, DataOf(entity, cache), h.payload)
    /\ \A q \in Values[h.useCase] \intersect Heartbeats : q \in Told(h) <=> "heartbeat" \in h.parts
    /\ DOMAIN handlers' \subseteq DOMAIN handlers
    /\ \A x \in DOMAIN handlers : x = h \/ x \in DOMAIN handlers'
    /\ UNCHANGED <<entity, version, served, cache, links, outbox, inbox>>

\* The application reads what it is told of.
LEMMA TellIs ==
    ASSUME TypeInv, ViewInv, NEW h \in DOMAIN handlers, DataUpdate(h)
    PROVE  Tell(h)
<1> DEFINE uc == h.useCase
           E == DataOf(entity, cache)
<1>1. /\ h.event = "data" /\ h.parts \subseteq ValueParts /\ handlers' = handlers (-) SetToBag({h})
      /\ UNCHANGED <<entity, version, served, cache, links, outbox, inbox>>
  BY DEF DataUpdate
<1>2. view' = [q \in DOMAIN view |-> IF q \in Told(h) THEN Read(q, E) ELSE view[q]]
  BY EntityDataIs DEF DataUpdate, Told
<1>3. /\ Updating(h) /\ uc \in entity.useCases /\ uc \in UseCases /\ h.parts \subseteq Handled[uc]
  BY <1>1, EntityIs DEF TypeInv, HandlersInv, VersionInv, Connecting, Updating
<1>4. DOMAIN view = ValuesOf(entity.useCases)
  BY DEF ViewInv
<1>5. \A p \in h.parts : p \in Handled[uc] \intersect ValueParts
  BY <1>1, <1>3
<1>6. Told(h) = UNION {ValuesUpdated(uc, p, E, h.payload) : p \in h.parts}
  BY EntityDataIs DEF Told
<1> HIDE DEF E
<1>7. ASSUME NEW q \in Values[uc] \ Heartbeats
      PROVE  q \in Told(h) <=> /\ \E p \in h.parts : ListOf(p) = ListOf(ValuePart(q))
                               /\ Tells(q, E, h.payload)
  <2>1. \A p \in h.parts : q \in ValuesUpdated(uc, p, E, h.payload) <=>
            ListOf(p) = ListOf(ValuePart(q)) /\ Tells(q, E, h.payload)
    BY <1>3, <1>5, ToldIs
  <2> QED
    BY <1>6, <2>1
<1>8. ASSUME NEW q \in Values[uc] \intersect Heartbeats
      PROVE  q \in Told(h) <=> "heartbeat" \in h.parts
  <2>1. \A p \in h.parts : q \in ValuesUpdated(uc, p, E, h.payload) <=> p = "heartbeat"
    BY <1>3, <1>5, ToldIs
  <2> QED
    BY <1>6, <2>1
<1>9. Told(h) \subseteq Values[uc]
  BY <1>3, <1>5, <1>6, ToldIs
<1>10. /\ DOMAIN handlers' \subseteq DOMAIN handlers
       /\ \A x \in DOMAIN handlers : x = h \/ x \in DOMAIN handlers'
  BY <1>1, HandledGone
<1>11. /\ DOMAIN view' = DOMAIN view
       /\ \A q \in DOMAIN view : /\ q \in Told(h) => view'[q] = Read(q, E)
                                 /\ q \notin Told(h) => view'[q] = view[q]
       /\ view' = [q \in ValuesOf(entity.useCases) |-> view'[q]]
  BY <1>2, <1>4
<1> QED
  BY <1>1, <1>3, <1>4, <1>7, <1>8, <1>9, <1>10, <1>11 DEF Tell, E

\* A value belongs to one use case.
LEMMA OneUseCase ==
    ASSUME NEW uc \in UseCases, NEW other \in UseCases, NEW q \in Values[uc], q \in Values[other]
    PROVE  uc = other
BY DEF UseCases, Values

\* What is read has a value or an error.
LEMMA ReadTyped ==
    ASSUME NEW e \in Entities, NEW c, VersionsOf(e, c), NEW uc \in UseCases, NEW q \in Values[uc]
    PROVE  Typed(Read(q, DataOf(e, c)))
<1>1. CASE q \in Heartbeats
  <2>1. Read(q, DataOf(e, c)) = IF c["heartbeat"] = Nil THEN NotAvailable ELSE Ok(c["heartbeat"])
    BY <1>1, ReadIs, DataIs
  <2> QED
    BY <2>1, Answers DEF Typed
<1>2. CASE q \notin Heartbeats
  BY <1>2, ReadSound
<1> QED
  BY <1>1, <1>2

\* The application holds readings that have a value or an error.
LEMMA ViewStep ==
    ASSUME TypeInv, ViewInv, [Next]_vars
    PROVE  ViewInv'
<1>1. ASSUME NEW h \in DOMAIN handlers, DataUpdate(h) PROVE ViewInv'
  <2>1. Tell(h)
    BY <1>1, TellIs
  <2>2. entity \in Entities /\ VersionsOf(entity, cache) /\ entity' = entity
    BY <2>1 DEF TypeInv, VersionInv, CacheInv, Tell
  <2>3. ASSUME NEW q \in DOMAIN view, view'[q] # Nil PROVE Typed(view'[q])
    <3>1. CASE q \in Told(h)
      <4>1. q \in Values[h.useCase] /\ h.useCase \in UseCases /\ view'[q] = Read(q, DataOf(entity, cache))
        BY <2>1, <3>1 DEF Tell
      <4> QED
        BY <2>2, <4>1, ReadTyped
    <3>2. CASE q \notin Told(h)
      BY <2>1, <2>3, <3>2 DEF Tell, ViewInv, Typed
    <3> QED
      BY <3>1, <3>2
  <2>4. DOMAIN view' = DOMAIN view /\ view' = [q \in ValuesOf(entity'.useCases) |-> view'[q]]
    BY <2>1, <2>2 DEF Tell
  <2> QED
    BY <2>3, <2>4 DEF ViewInv, Typed
<1>2. ASSUME UNCHANGED <<entity, view>> PROVE ViewInv'
  BY <1>2 DEF ViewInv
<1> QED
  BY <1>1, <1>2 DEF Next, Handle, ConnectFeature, DescriptionDataUpdate, Receive, RemoteAnswers, RemoteChanges, vars

\* Nothing was read at first.
LEMMA ViewInit ==
    ASSUME Init
    PROVE  ViewInv
BY DEF Init, ViewInv

\* Types: only data that the device published are held, only what it serves is
\* asked for, and a value is read only where there is one (HandleEvent and the
\* getters of the client use cases).
THEOREM TypeCorrect == Spec => []TypeOK
<1>1. Init => TypeInv /\ ViewInv
  BY TypeInit, ViewInit
<1>2. TypeInv /\ ViewInv /\ [Next]_vars => (TypeInv /\ ViewInv)'
  BY TypeStep, ViewStep
<1>3. TypeInv /\ ViewInv => TypeOK
  BY DEF TypeInv, ViewInv, VersionInv, CacheInv, OutboxInv, HandlersInv, LinksInv, TypeOK
<1> QED
  BY <1>1, <1>2, <1>3, PTL DEF Spec

-----------------------------------------------------------------------------
(* What is known when.                                                     *)

\* Where parts go when the device serves a message, and when data arrive.
LEMMA AnswerMoves ==
    ASSUME TypeInv, Answered, NEW p
    PROVE  /\ Asked(p) => Asked(p)' \/ Underway(p)'
           /\ Underway(p) => Underway(p)'
           /\ ReadAt(outbox, p, 1) => Underway(p)'
<1>1. ASSUME ReadAt(outbox, p, 1) PROVE Underway(p)'
  <2>1. PICK n : Later(Data("reply", outbox[1].parts), n)
    BY <1>1 DEF Answered, ReadAt
  <2>2. p \in DOMAIN Data("reply", outbox[1].parts).data
    BY <1>1 DEF Data, ReadAt
  <2> QED
    BY <2>1, <2>2 DEF Underway, SentAt, Later
<1>2. ASSUME NEW k \in DOMAIN outbox, ReadAt(outbox, p, k) PROVE Asked(p)' \/ Underway(p)'
  <2>1. CASE k = 1
    BY <1>1, <1>2, <2>1
  <2>2. CASE k # 1
    BY <1>2, <2>2 DEF Answered, Asked, ReadAt
  <2> QED
    BY <2>1, <2>2
<1>3. Underway(p) => Underway(p)'
  <2>1. CASE outbox[1].kind = "read"
    BY <2>1 DEF Answered, Later, Underway, SentAt
  <2>2. CASE outbox[1].kind # "read"
    BY <2>2 DEF Answered, Underway, SentAt
  <2> QED
    BY <2>1, <2>2
<1> QED
  BY <1>1, <1>2, <1>3 DEF Asked
\* What is on its way stays there or is received.
LEMMA ReceiveMoves ==
    ASSUME TypeInv, Arrived, NEW p \in Parts
    PROVE  /\ Underway(p) => SentAt(inbox, p, 1) \/ Underway(p)'
           /\ SentAt(inbox, p, 1) => cache'[p] # Nil
           /\ cache'[p] # Nil => cache[p] # Nil \/ SentAt(inbox, p, 1)
           /\ Asked(p)' <=> Asked(p)
<1>1. ASSUME SentAt(inbox, p, 1) PROVE cache'[p] # Nil
  <2>1. cache'[p] = inbox[1].data[p] /\ version[p] # Nil /\ inbox[1].data[p] \in 1..version[p]
    BY <1>1 DEF Arrived, TypeInv, InboxInv, SentAt
  <2>2. version[p] \in Nat /\ Nil \notin Nat
    BY <2>1, NilIs DEF TypeInv, VersionInv, VersionsOf
  <2> QED
    BY <2>1, <2>2
<1>2. Underway(p) => SentAt(inbox, p, 1) \/ Underway(p)'
  BY DEF Arrived, Underway, SentAt
<1> QED
  BY <1>1, <1>2 DEF Arrived, Asked, ReadAt
\* What is on its way stays there when the remote device changes something.
LEMMA ChangeMoves ==
    ASSUME TypeInv, NEW part, Changed(part), NEW p
    PROVE  Underway(p) => Underway(p)'
<1>1. CASE FeatureOf(part) \in served
  BY <1>1 DEF Changed, Later, Underway, SentAt
<1>2. CASE FeatureOf(part) \notin served
  BY <1>2 DEF Changed, Underway, SentAt
<1> QED
  BY <1>1, <1>2

\* The parts that come first may be read, and are of another feature.
LEMMA AheadIs ==
    ASSUME TypeInv, "mgcp" \in entity.useCases, "ElectricalConnection" \in entity.features, NEW p \in Ahead
    PROVE  /\ p \in entity.readable /\ p \in Parts /\ FeatureOf(p) = "ElectricalConnection"
           /\ FeatureOf("mDescs") = "Measurement" /\ "mDescs" \in Parts /\ "mDescs" \notin ValueParts
           /\ p \notin ValueParts
<1>1. p \in Needs["mgcp"] /\ FeatureOf(p) = "ElectricalConnection" /\ p \notin ValueParts
  BY DEF Ahead, Needs, FeatureOf, ValueParts
<1>2. entity \in Entities
  BY DEF TypeInv, VersionInv
<1> QED
  BY <1>1, <1>2, EntityIs, PartsAre DEF Ahead, FeatureOf, ValueParts

\* At first the use case has still to ask for the electrical connection.
LEMMA DirectionInit ==
    ASSUME Init
    PROVE  DirectionInv
<1>1. ASSUME NEW p \in Ahead PROVE MeasuredAfter(p)
  <2>1. p \in {"ecDescs", "ecParams"} /\ "mDescs" \in Parts
    BY PartsAre DEF Ahead
  <2>2. ASSUME NEW uc \in UseCases, Measures(EntityAdded(uc)) PROVE AsksFirst(EntityAdded(uc), p)
    <3> DEFINE h == EntityAdded(uc)
    <3>1. h.todo = Connected[uc]
      BY DEF EntityAdded
    <3>2. CASE uc \in {"mgcp", "vapd"}
      <4> DEFINE a == Ask("DeviceConfiguration", FALSE, <<"keyDescs">>)
                 b == Ask("ElectricalConnection", FALSE, <<"ecDescs", "ecParams">>)
                 c == Ask("Measurement", FALSE, <<"mDescs", "mConstraints">>)
      <4>1. h.todo = <<a, b, c>>
        <5>1. GridConnected = <<a, b, c>> /\ VapdInverterConnected = <<a, b, c>>
          BY Zenon DEF GridConnected, VapdInverterConnected
        <5>2. Connected["mgcp"] = GridConnected /\ Connected["vapd"] = VapdInverterConnected
          BY DEF Connected
        <5> QED
          BY <3>1, <3>2, <5>1, <5>2
      <4>2. /\ b.reads = <<"ecDescs", "ecParams">>
            /\ a.feature # "Measurement" /\ b.feature # "Measurement"
        BY DEF Ask
      <4> HIDE DEF a, b, c, h
      <4>3. /\ DOMAIN h.todo = 1..3 /\ h.todo[2].reads = <<"ecDescs", "ecParams">>
            /\ h.todo[1].feature # "Measurement" /\ h.todo[2].feature # "Measurement"
        BY <4>1, <4>2
      <4>4. \E k \in DOMAIN h.todo[2].reads : h.todo[2].reads[k] = p
        BY <2>1, <4>3
      <4>5. \A j \in DOMAIN h.todo : h.todo[j].feature = "Measurement" => 2 < j
        BY <4>3
      <4>6. AsksFirst(h, p)
        BY <4>3, <4>4, <4>5 DEF AsksFirst
      <4> QED
        BY <4>6 DEF h
    <3>3. CASE uc = "vabd"
      <4>1. /\ DOMAIN h.todo = 1..2 /\ h.todo[1].reads = <<"ecDescs", "ecParams">>
            /\ h.todo[1].feature # "Measurement"
        BY <3>1, <3>3 DEF Connected, VabdInverterConnected, Ask
      <4>2. \E k \in DOMAIN h.todo[1].reads : h.todo[1].reads[k] = p
        BY <2>1, <4>1
      <4>3. \A j \in DOMAIN h.todo : h.todo[j].feature = "Measurement" => 1 < j
        BY <4>1
      <4> HIDE DEF h
      <4>4. AsksFirst(h, p)
        BY <4>1, <4>2, <4>3 DEF AsksFirst
      <4> QED
        BY <4>4 DEF h
    <3>4. CASE uc \in {"egLpc", "egLpp"}
      BY <2>2, <3>1, <3>4 DEF Measures, Connected, EgLpcConnected, EgLppConnected, Ask
    <3> QED
      BY <3>2, <3>3, <3>4 DEF UseCases
  <2>3. \A h \in DOMAIN handlers : \E uc \in UseCases : h = EntityAdded(uc)
    <3> DEFINE S == {EntityAdded(uc) : uc \in entity.useCases}
    <3>1. DOMAIN SetToBag(S) = S
      <4> HIDE DEF S
      <4> QED
        BY DEF SetToBag
    <3>2. entity.useCases \subseteq UseCases
      BY EntityIs DEF Init
    <3> QED
      BY <3>1, <3>2 DEF Init
  <2>4. \A h \in DOMAIN handlers : Measures(h) => AsksFirst(h, p)
    BY <2>2, <2>3
  <2> QED
    BY <2>1, <2>4 DEF MeasuredAfter, Init
<1> QED
  BY <1>1 DEF DirectionInv

\* The descriptions of measurements come after the electrical connection.
LEMMA DirectionStep ==
    ASSUME TypeInv, DirectionInv, [Next]_vars
    PROVE  DirectionInv'
<1>1. entity' = entity
  BY DEF Next, Handle, ConnectFeature, DescriptionDataUpdate, DataUpdate, Receive, RemoteAnswers, RemoteChanges, vars
<1>2. SUFFICES ASSUME "mgcp" \in entity.useCases, "ElectricalConnection" \in entity.features, NEW p \in Ahead,
                      MeasuredAfter(p)
               PROVE  MeasuredAfter(p)'
  BY <1>1 DEF DirectionInv
<1> DEFINE D == "mDescs"
<1>3. /\ p \in entity.readable /\ p \in Parts /\ FeatureOf(p) = "ElectricalConnection"
      /\ FeatureOf(D) = "Measurement" /\ D \in Parts /\ D \notin ValueParts /\ p \notin ValueParts
  BY <1>2, AheadIs
<1> HIDE DEF D
<1>4. /\ cache[D] # Nil => cache[p] # Nil
      /\ \A k \in DOMAIN inbox : SentAt(inbox, D, k) =>
           cache[p] # Nil \/ \E j \in DOMAIN inbox : j < k /\ SentAt(inbox, p, j)
      /\ \A k \in DOMAIN outbox : ReadAt(outbox, D, k) =>
           cache[p] # Nil \/ Underway(p) \/ \E j \in DOMAIN outbox : j < k /\ ReadAt(outbox, p, j)
      /\ \A h \in DOMAIN handlers : h.event = "added" /\ Measures(h) =>
           cache[p] # Nil \/ Underway(p) \/ Asked(p) \/ AsksFirst(h, p)
  BY <1>2 DEF MeasuredAfter, D
<1>5. ASSUME
      /\ cache'[D] # Nil => cache'[p] # Nil
      /\ \A k \in DOMAIN inbox' : SentAt(inbox', D, k) =>
           cache'[p] # Nil \/ \E j \in DOMAIN inbox' : j < k /\ SentAt(inbox', p, j)
      /\ \A k \in DOMAIN outbox' : ReadAt(outbox', D, k) =>
           cache'[p] # Nil \/ Underway(p)' \/ \E j \in DOMAIN outbox' : j < k /\ ReadAt(outbox', p, j)
      /\ \A h \in DOMAIN handlers' : h.event = "added" /\ Measures(h) =>
           cache'[p] # Nil \/ Underway(p)' \/ Asked(p)' \/ AsksFirst(h, p)
      PROVE MeasuredAfter(p)'
  BY <1>5 DEF MeasuredAfter, D, Measures, AsksFirst
<1>6. outbox \in Seq(MessageType) /\ \A k \in DOMAIN outbox : k \in Nat \ {0}
  BY DEF TypeInv, OutboxInv
<1>7. \A k \in DOMAIN inbox : k \in Nat \ {0}
  BY DEF TypeInv, InboxInv
<1>8. ASSUME NEW h \in DOMAIN handlers, ConnectFeature(h) PROVE MeasuredAfter(p)'
  <2>1. PICK t \in Seq(MessageType) : Connects(h, t)
    BY <1>8, ConnectSends
  <2>2. /\ Connecting(h) /\ h.event = "added" /\ UNCHANGED <<cache, inbox>>
        /\ \A x \in DOMAIN handlers' : x \in DOMAIN handlers \/ x = Rest(h)
        /\ Rest(h) = [useCase |-> h.useCase, event |-> h.event, todo |-> Tail(h.todo), parts |-> h.parts,
                      payload |-> h.payload]
    BY <1>8, ConnectHandlers
  <2>3. Rest(h).todo = Tail(h.todo) /\ Rest(h).event = "added"
    BY <2>2
  <2>4. /\ h.todo \in Seq(AskType) /\ h.todo # <<>> /\ 1 \in DOMAIN h.todo
        /\ \A k \in DOMAIN Tail(h.todo) : k + 1 \in DOMAIN h.todo /\ Tail(h.todo)[k] = h.todo[k + 1] /\ k \in Nat
        /\ \A k \in DOMAIN h.todo : k = 1 \/ (k - 1 \in DOMAIN Tail(h.todo) /\ Tail(h.todo)[k - 1] = h.todo[k])
        /\ \A k \in DOMAIN h.todo : k \in Nat \ {0}
    <3>1. h.todo \in Seq(AskType) /\ h.todo # <<>>
      BY <2>2 DEF Connecting
    <3>2. /\ Tail(h.todo) \in Seq(AskType) /\ 1 \in DOMAIN h.todo
          /\ \A k \in DOMAIN Tail(h.todo) : k + 1 \in DOMAIN h.todo /\ Tail(h.todo)[k] = h.todo[k + 1]
          /\ \A k \in DOMAIN h.todo : k = 1 \/ (k - 1 \in DOMAIN Tail(h.todo) /\ Tail(h.todo)[k - 1] = h.todo[k])
      BY <3>1, TailIs
    <3> QED
      BY <3>1, <3>2
  <2>5. outbox' = outbox \o t /\ \A k \in DOMAIN t : LinkTo(t[k], h.todo[1].feature) \/ ReadOf(t[k], h.todo[1].feature)
    BY <2>1 DEF Connects
  <2>6. Behind(t) /\ Len(outbox) \in Nat
    BY <2>5, SentBehind
  <2>7. ASSUME NEW k \in DOMAIN outbox', ReadAt(outbox', D, k)
        PROVE  cache[p] # Nil \/ Underway(p) \/ \E j \in DOMAIN outbox' : j < k /\ ReadAt(outbox', p, j)
    <3>1. CASE k \in DOMAIN outbox
      <4>1. ReadAt(outbox, D, k)
        BY <2>6, <2>7, <3>1 DEF Behind, ReadAt
      <4> QED
        BY <1>4, <2>6, <3>1, <4>1 DEF Behind, ReadAt
    <3>2. CASE k \notin DOMAIN outbox
      <4>1. /\ k - Len(outbox) \in DOMAIN t /\ outbox'[k] = t[k - Len(outbox)]
            /\ \A j \in DOMAIN outbox : j < k
        BY <2>6, <3>2 DEF Behind
      <4>2. h.todo[1].feature = "Measurement"
        BY <1>3, <2>5, <2>7, <4>1 DEF ReadAt, LinkTo, ReadOf
      <4>3. Measures(h) /\ ~AsksFirst(h, p)
        BY <2>4, <4>2 DEF Measures, AsksFirst
      <4>4. cache[p] # Nil \/ Underway(p) \/ Asked(p)
        BY <1>4, <2>2, <4>3
      <4> QED
        BY <2>6, <4>1, <4>4 DEF Asked, ReadAt, Behind
    <3> QED
      BY <3>1, <3>2
  <2>8. Asked(p) => Asked(p)'
    BY <2>6 DEF Asked, ReadAt, Behind
  <2>9. ASSUME Measures(Rest(h)) PROVE cache[p] # Nil \/ Underway(p) \/ Asked(p)' \/ AsksFirst(Rest(h), p)
    <3>1. Measures(h)
      BY <2>3, <2>4, <2>9 DEF Measures
    <3>2. ASSUME AsksFirst(h, p) PROVE Asked(p)' \/ AsksFirst(Rest(h), p)
      <4>1. PICK i \in DOMAIN h.todo :
               /\ \E k \in DOMAIN h.todo[i].reads : h.todo[i].reads[k] = p
               /\ \A j \in DOMAIN h.todo : h.todo[j].feature = "Measurement" => i < j
        BY <3>2 DEF AsksFirst
      <4>2. CASE i = 1
        <5>1. h.todo[1].feature \in entity.features
          BY <1>2, <1>3, <2>2, <4>1, <4>2 DEF Connecting
        <5>2. \E k \in DOMAIN t : t[k].kind = "read" /\ p \in t[k].parts
          BY <1>3, <2>1, <4>1, <4>2, <5>1 DEF Connects
        <5> QED
          BY <2>6, <5>2 DEF Behind, Asked, ReadAt
      <4>3. CASE i # 1
        <5>1. i - 1 \in DOMAIN Tail(h.todo) /\ Tail(h.todo)[i - 1] = h.todo[i] /\ i \in Nat
          BY <2>4, <4>3
        <5>2. \A j \in DOMAIN Tail(h.todo) : Tail(h.todo)[j].feature = "Measurement" => i - 1 < j
          BY <2>4, <4>1, <5>1
        <5> QED
          BY <2>3, <4>1, <5>1, <5>2 DEF AsksFirst
      <4> QED
        BY <4>2, <4>3
    <3> QED
      BY <1>4, <2>2, <2>8, <3>1, <3>2
  <2>10. Underway(p)' <=> Underway(p)
    BY <2>2 DEF Underway, SentAt
  <2> QED
    BY <1>4, <1>5, <2>2, <2>3, <2>7, <2>8, <2>9, <2>10
<1>9. ASSUME NEW h \in DOMAIN handlers, DescriptionDataUpdate(h) PROVE MeasuredAfter(p)'
  <2>1. PICK t \in Seq(MessageType) :
           outbox' = outbox \o t /\ Behind(t) /\ \A k \in DOMAIN t : t[k].parts \subseteq ValueParts
    BY <1>9, TypeDescription
  <2>2. UNCHANGED <<cache, inbox>> /\ DOMAIN handlers' \subseteq DOMAIN handlers
    BY <1>9, HandledGone DEF DescriptionDataUpdate
  <2>3. ASSUME NEW k \in DOMAIN outbox', ReadAt(outbox', D, k)
        PROVE  cache[p] # Nil \/ Underway(p) \/ \E j \in DOMAIN outbox' : j < k /\ ReadAt(outbox', p, j)
    <3>1. k \in DOMAIN outbox /\ ReadAt(outbox, D, k)
      BY <1>3, <2>1, <2>3 DEF Behind, ReadAt
    <3> QED
      BY <1>4, <2>1, <3>1 DEF Behind, ReadAt
  <2>4. Asked(p) => Asked(p)'
    BY <2>1 DEF Asked, ReadAt, Behind
  <2>5. Underway(p)' <=> Underway(p)
    BY <2>2 DEF Underway, SentAt
  <2> QED
    BY <1>4, <1>5, <2>2, <2>3, <2>4, <2>5
<1>10. ASSUME UNCHANGED <<cache, outbox, inbox>>, DOMAIN handlers' \subseteq DOMAIN handlers PROVE MeasuredAfter(p)'
  <2>1. (Underway(p)' <=> Underway(p)) /\ (Asked(p)' <=> Asked(p))
    BY <1>10 DEF Underway, SentAt, Asked, ReadAt
  <2> QED
    BY <1>4, <1>5, <1>10, <2>1
<1>11. ASSUME NEW h \in DOMAIN handlers, DataUpdate(h) PROVE MeasuredAfter(p)'
  BY <1>10, <1>11, HandledGone DEF DataUpdate
<1>12. ASSUME Receive PROVE MeasuredAfter(p)'
  <2>1. Arrived
    BY <1>12, ReceiveIs
  <2>2. /\ Underway(p) => cache'[p] # Nil \/ Underway(p)'
        /\ cache[p] # Nil => cache'[p] # Nil
        /\ SentAt(inbox, p, 1) => cache'[p] # Nil
        /\ cache'[D] # Nil => cache[D] # Nil \/ SentAt(inbox, D, 1)
        /\ Asked(p)' <=> Asked(p)
    BY <1>3, <2>1, ReceiveMoves DEF Arrived
  <2>3. 1 \in DOMAIN inbox /\ \A j \in DOMAIN inbox : ~(j < 1)
    BY <1>7, <2>1 DEF Arrived
  <2>4. cache'[D] # Nil => cache'[p] # Nil
    BY <1>4, <2>2, <2>3
  <2>5. ASSUME NEW k \in DOMAIN inbox', SentAt(inbox', D, k)
        PROVE  cache'[p] # Nil \/ \E j \in DOMAIN inbox' : j < k /\ SentAt(inbox', p, j)
    <3>1. k + 1 \in DOMAIN inbox /\ SentAt(inbox, D, k + 1)
      BY <2>1, <2>5 DEF Arrived, SentAt
    <3>2. ASSUME NEW j \in DOMAIN inbox, j < k + 1, SentAt(inbox, p, j)
          PROVE  cache'[p] # Nil \/ \E i \in DOMAIN inbox' : i < k /\ SentAt(inbox', p, i)
      <4>1. CASE j = 1
        BY <2>2, <3>2, <4>1
      <4>2. CASE j # 1
        <5>1. j - 1 \in DOMAIN inbox' /\ SentAt(inbox', p, j - 1)
          BY <2>1, <3>2, <4>2 DEF Arrived, SentAt
        <5>2. k \in Int
          <6>1. inbox' \in Seq([kind : {"reply", "notify"}, data : DataType])
            BY <1>12, ReceiveIs
          <6> QED
            BY <6>1
        <5>3. j - 1 < k
          BY <1>7, <3>2, <5>2
        <5> QED
          BY <5>1, <5>3
      <4> QED
        BY <4>1, <4>2
    <3> QED
      BY <1>4, <2>2, <3>1, <3>2
  <2>6. outbox' = outbox /\ \A x \in DOMAIN handlers' : x \in DOMAIN handlers \/ x.event = "data"
    BY <2>1 DEF Arrived, Event
  <2> QED
    BY <1>4, <1>5, <2>2, <2>4, <2>5, <2>6
<1>13. ASSUME RemoteAnswers PROVE MeasuredAfter(p)'
  <2>1. Answered
    BY <1>13, TypeAnswer
  <2>2. /\ Asked(p) => Asked(p)' \/ Underway(p)'
        /\ Underway(p) => Underway(p)'
        /\ ReadAt(outbox, p, 1) => Underway(p)'
    BY <2>1, AnswerMoves
  <2>3. 1 \in DOMAIN outbox /\ \A j \in DOMAIN outbox : ~(j < 1)
    BY <1>6, <2>1 DEF Answered
  <2>4. ASSUME NEW k \in DOMAIN inbox', SentAt(inbox', D, k)
        PROVE  cache[p] # Nil \/ \E j \in DOMAIN inbox' : j < k /\ SentAt(inbox', p, j)
    <3>1. CASE outbox[1].kind = "read"
      <4>1. PICK n : Later(Data("reply", outbox[1].parts), n)
        BY <2>1, <3>1 DEF Answered
      <4>2. CASE k \in DOMAIN inbox
        <5>1. SentAt(inbox, D, k)
          BY <2>4, <4>1, <4>2 DEF Later, SentAt
        <5> QED
          BY <1>4, <4>1, <4>2, <5>1 DEF Later, SentAt
      <4>3. CASE k = n
        <5>1. ReadAt(outbox, D, 1)
          BY <2>4, <3>1, <4>1, <4>3 DEF Later, SentAt, Data, ReadAt
        <5>2. cache[p] # Nil \/ Underway(p)
          BY <1>4, <2>3, <5>1
        <5> QED
          BY <4>1, <4>3, <5>2 DEF Underway, Later, SentAt
      <4> QED
        BY <4>1, <4>2, <4>3 DEF Later
    <3>2. CASE outbox[1].kind # "read"
      BY <1>4, <2>1, <2>4, <3>2 DEF Answered
    <3> QED
      BY <3>1, <3>2
  <2>5. ASSUME NEW k \in DOMAIN outbox', ReadAt(outbox', D, k)
        PROVE  cache[p] # Nil \/ Underway(p)' \/ \E j \in DOMAIN outbox' : j < k /\ ReadAt(outbox', p, j)
    <3>1. k + 1 \in DOMAIN outbox /\ ReadAt(outbox, D, k + 1) /\ k \in Nat
      BY <2>1, <2>5 DEF Answered, ReadAt
    <3>2. ASSUME NEW j \in DOMAIN outbox, j < k + 1, ReadAt(outbox, p, j)
          PROVE  Underway(p)' \/ \E i \in DOMAIN outbox' : i < k /\ ReadAt(outbox', p, i)
      <4>1. CASE j = 1
        BY <2>2, <3>2, <4>1
      <4>2. CASE j # 1
        <5>1. j - 1 \in DOMAIN outbox' /\ ReadAt(outbox', p, j - 1)
          BY <2>1, <3>2, <4>2 DEF Answered, ReadAt
        <5>2. j - 1 < k
          BY <1>6, <3>1, <3>2
        <5> QED
          BY <5>1, <5>2
      <4> QED
        BY <4>1, <4>2
    <3> QED
      BY <1>4, <2>2, <3>1, <3>2
  <2>6. UNCHANGED <<cache, handlers>>
    BY <2>1 DEF Answered
  <2> QED
    BY <1>4, <1>5, <2>2, <2>4, <2>5, <2>6
<1>14. ASSUME NEW part \in entity.changing, RemoteChanges(part) PROVE MeasuredAfter(p)'
  <2>1. Changed(part)
    BY <1>14, TypeChange
  <2>2. UNCHANGED <<cache, outbox, handlers>> /\ part # D
    BY <1>3, <2>1 DEF Changed
  <2>3. Underway(p) => Underway(p)'
    BY <2>1, ChangeMoves
  <2>4. ASSUME NEW k \in DOMAIN inbox', SentAt(inbox', D, k)
        PROVE  cache[p] # Nil \/ \E j \in DOMAIN inbox' : j < k /\ SentAt(inbox', p, j)
    <3>1. CASE FeatureOf(part) \in served
      <4>1. PICK n : Later(Notice(part), n)
        BY <2>1, <3>1 DEF Changed
      <4>2. k # n
        BY <2>2, <2>4, <4>1 DEF Later, SentAt, Notice
      <4>3. k \in DOMAIN inbox /\ SentAt(inbox, D, k)
        BY <2>4, <4>1, <4>2 DEF Later, SentAt
      <4> QED
        BY <1>4, <4>1, <4>3 DEF Later, SentAt
    <3>2. CASE FeatureOf(part) \notin served
      BY <1>4, <2>1, <2>4, <3>2 DEF Changed
    <3> QED
      BY <3>1, <3>2
  <2>5. Asked(p)' <=> Asked(p)
    BY <2>2 DEF Asked, ReadAt
  <2> QED
    BY <1>4, <1>5, <2>2, <2>3, <2>4, <2>5
<1>15. ASSUME UNCHANGED vars PROVE MeasuredAfter(p)'
  BY <1>10, <1>15 DEF vars
<1> QED
  BY <1>8, <1>9, <1>11, <1>12, <1>13, <1>14, <1>15 DEF Next, Handle

-----------------------------------------------------------------------------
(* What is read was published.                                             *)

\* The values of the connection point that need a direction are read with the
\* electrical connection that is published.
LEMMA DirectedKnown ==
    ASSUME TypeInv, DirectionInv, NEW uc \in entity.useCases, NEW q \in Values[uc], q \in Directed,
           "ElectricalConnection" \in entity.features, cache["mDescs"] # Nil, NEW p \in {"ecDescs", "ecParams"}
    PROVE  cache[p] = 1 /\ version[p] = 1 /\ p \notin ValueParts /\ p \in Parts
<1>1. uc \in UseCases /\ "mgcp" \in UseCases /\ q \in Values["mgcp"]
  BY EntityIs, ValuesAre DEF TypeInv, VersionInv, UseCases
<1>2. "mgcp" \in entity.useCases
  BY <1>1, OneUseCase
<1>3. cache[p] # Nil /\ p \in Parts /\ p \notin ValueParts
  BY <1>2, PartsAre DEF DirectionInv, MeasuredAfter, Ahead, ValueParts
<1> QED
  BY <1>3 DEF TypeInv, CacheInv, VersionInv, VersionsOf

\* Whenever the application asks, it gets an error or a value that the device
\* published for this quantity, never one that was put together from half of the
\* lists (the getters of the client use cases, and the order of the requests in
\* gridConnected).
LEMMA PublishedRead ==
    ASSUME TypeInv, ViewInv, DirectionInv
    PROVE  ReadsPublished
<1> SUFFICES ASSUME NEW q \in DOMAIN view, Read(q, EntityData(cache)).error = Nil
             PROVE  \E v \in 1..version[ValuePart(q)] :
                       Read(q, EntityData(cache)) = Read(q, EntityData([version EXCEPT ![ValuePart(q)] = v]))
  BY Zenon DEF ReadsPublished
<1> DEFINE P == ValuePart(q)
           D == DescOf[P]
           v == cache[P]
           o == [version EXCEPT ![P] = v]
<1>1. entity \in Entities /\ VersionsOf(entity, cache) /\ VersionsOf(entity, version)
  BY DEF TypeInv, VersionInv, CacheInv
<1>2. PICK uc \in entity.useCases : q \in Values[uc]
  BY DEF ViewInv, ValuesOf
<1>3. uc \in UseCases
  BY <1>1, EntityIs
<1>4. Read(q, DataOf(entity, cache)).error = Nil
  BY EntityDataIs
<1>5. P \in Parts /\ P \in ValueParts
  BY PartsAre DEF ValuePart, ValueParts
<1> HIDE DEF P
<1>6. cache[P] # Nil
  <2>1. CASE q \in Heartbeats
    <3>1. P = "heartbeat"
      BY <2>1 DEF P, ValuePart, Heartbeats
    <3>2. Read(q, DataOf(entity, cache)) = IF cache["heartbeat"] = Nil THEN NotAvailable ELSE Ok(cache["heartbeat"])
      <4>1. DataOf(entity, cache).dd = cache["heartbeat"]
        BY <1>1, DataIs
      <4>2. \A E : Read(q, E) = IF E.dd = Nil THEN NotAvailable ELSE Ok(E.dd)
        BY <2>1, ReadIs
      <4> QED
        BY <4>1, <4>2
    <3> QED
      BY <1>4, <3>1, <3>2, Answers
  <2>2. CASE q \notin Heartbeats
    BY <1>1, <1>2, <1>3, <1>4, <2>2, ReadSound DEF P
  <2> QED
    BY <2>1, <2>2
<1>7. v \in 1..version[P] /\ version[P] # Nil /\ version[P] \in 1..MaxVersion /\ v \in Nat /\ v \in 1..MaxVersion
      /\ FeatureOf(P) \in entity.features
  BY <1>1, <1>5, <1>6 DEF TypeInv, CacheInv, VersionsOf
<1>8. /\ o \in [Parts -> Nat \union {Nil}] /\ o[P] = cache[P]
      /\ \A p \in Parts : p # P => o[p] = version[p]
  BY <1>1, <1>5, <1>7 DEF VersionsOf
<1> HIDE DEF o, v
<1>9. VersionsOf(entity, o)
  <2>1. ASSUME NEW p \in Parts, o[p] # Nil
        PROVE  /\ FeatureOf(p) \in entity.features /\ o[p] \in 1..MaxVersion
               /\ p \notin ValueParts => o[p] = 1
    BY <1>1, <1>5, <1>7, <1>8, <2>1 DEF VersionsOf, v
  <2> QED
    BY <1>8, <2>1 DEF VersionsOf
<1>10. Read(q, DataOf(entity, cache)) = Read(q, DataOf(entity, o))
  <2>1. CASE q \in Heartbeats
    <3>1. P = "heartbeat"
      BY <2>1 DEF P, ValuePart, Heartbeats
    <3>2. /\ Read(q, DataOf(entity, cache)) = IF cache["heartbeat"] = Nil THEN NotAvailable ELSE Ok(cache["heartbeat"])
          /\ Read(q, DataOf(entity, o)) = IF o["heartbeat"] = Nil THEN NotAvailable ELSE Ok(o["heartbeat"])
      <4>1. \A c : DataOf(entity, c).dd = c["heartbeat"]
        BY <1>1, DataIs
      <4>2. \A E : Read(q, E) = IF E.dd = Nil THEN NotAvailable ELSE Ok(E.dd)
        BY <2>1, ReadIs
      <4> QED
        BY <4>1, <4>2
    <3> QED
      BY <1>8, <3>1, <3>2
  <2>2. CASE q \notin Heartbeats
    <3>1. cache[D] = 1 /\ D \in Parts /\ D \notin ValueParts
      <4>1. D \in Parts /\ D \notin ValueParts
        <5>1. P \in DOMAIN DescOf
          BY <1>3, <1>2, <2>2, ValuesAre DEF P, DescOf
        <5> QED
          BY <5>1, PartsAre DEF DescOf, ValueParts
      <4> QED
        BY <1>1, <1>2, <1>3, <1>4, <2>2, <4>1, ReadSound DEF P
    <3>2. cache[D] = o[D]
      <4>1. version[D] # Nil
        BY <3>1, NilIs DEF TypeInv, CacheInv
      <4>2. version[D] = 1
        BY <1>1, <3>1, <4>1 DEF VersionsOf
      <4> QED
        BY <1>5, <1>8, <3>1, <4>2
    <3>3. ASSUME q \in Directed, "ElectricalConnection" \in entity.features
          PROVE  cache["ecDescs"] = o["ecDescs"] /\ cache["ecParams"] = o["ecParams"]
      <4>1. D = "mDescs"
        BY <3>3 DEF P, D, ValuePart, DescOf, Directed, Heartbeats
      <4>2. cache["mDescs"] # Nil
        BY <3>1, <4>1, NilIs
      <4>3. \A p \in {"ecDescs", "ecParams"} : cache[p] = 1 /\ version[p] = 1 /\ p \notin ValueParts /\ p \in Parts
        BY <1>2, <3>3, <4>2, DirectedKnown
      <4> QED
        BY <1>5, <1>8, <4>3
    <3> HIDE DEF D
    <3>4. /\ cache[DescOf[ValuePart(q)]] = o[DescOf[ValuePart(q)]]
          /\ cache[ValuePart(q)] = o[ValuePart(q)]
      BY <1>8, <3>2 DEF P, D
    <3> QED
      BY <1>1, <1>2, <1>3, <1>9, <2>2, <3>3, <3>4, ReadDepends
  <2> QED
    BY <2>1, <2>2
<1>11. Read(q, EntityData(cache)) = Read(q, EntityData(o))
  BY <1>10, EntityDataIs
<1>12. v \in 1..version[P] /\ Read(q, EntityData(cache)) = Read(q, EntityData([version EXCEPT ![P] = v]))
  BY <1>7, <1>11 DEF o
<1> QED
  BY <1>12 DEF P

\* Whenever the application asks, it gets an error or a value that the device
\* published for this quantity, never one of another quantity and never one that
\* was put together from half of the lists (the getters, and the order of the
\* requests in gridConnected).
THEOREM ReadsPublishedHolds == Spec => []ReadsPublished
<1> DEFINE I == TypeInv /\ ViewInv /\ DirectionInv
<1>1. Init => I
  BY TypeInit, ViewInit, DirectionInit
<1>2. I /\ [Next]_vars => I'
  BY TypeStep, ViewStep, DirectionStep
<1>3. I => ReadsPublished
  BY PublishedRead
<1> QED
  BY <1>1, <1>2, <1>3, PTL DEF Spec

-----------------------------------------------------------------------------
(* Descriptions and the last values are known or on their way.             *)

\* Values that are needed: they and their descriptions may be read and are handled.
LEMMA NeededIs ==
    ASSUME TypeInv, NEW uc \in entity.useCases, NEW p \in ValuesNeeded(uc), FeatureOf(p) \in entity.features
    PROVE  /\ uc \in UseCases /\ p \in Parts /\ p \in ValueParts /\ p \in entity.readable
           /\ DescOf[p] \in Parts /\ DescOf[p] \notin ValueParts /\ DescOf[p] \in entity.readable
           /\ FeatureOf(DescOf[p]) = FeatureOf(p) /\ version[p] # Nil /\ version[p] \in Nat
           /\ \A parts : Together(parts) /\ DescOf[p] \in parts =>
                parts \subseteq Handled[uc] /\ parts # {"heartbeat"}
           /\ \A parts : Together(parts) /\ p \in parts => parts \subseteq Handled[uc] /\ parts # {"heartbeat"}
<1> DEFINE D == DescOf[p]
<1>1. entity \in Entities /\ uc \in UseCases
  BY EntityIs DEF TypeInv, VersionInv
<1>2. /\ p \in {"keyValues", "mData", "consumeLimit", "produceLimit"} /\ p \in Parts /\ p \in ValueParts
      /\ D \in {"keyDescs", "mDescs", "consumeDesc", "produceDesc"} /\ D \in Parts /\ D \notin ValueParts
  BY PartsAre DEF ValuesNeeded, DescOf, ValueParts
<1>3. FeatureOf(D) = FeatureOf(p)
  BY <1>2 DEF DescOf, FeatureOf
<1>4. p \in Needs[uc] /\ D \in Needs[uc]
  BY <1>1, <1>2 DEF ValuesNeeded, Needs, DescOf, UseCases
<1>5. p \in entity.readable /\ D \in entity.readable
  BY <1>1, <1>3, <1>4, EntityIs
<1>6. version[p] # Nil /\ version[p] \in Nat
  BY <1>2 DEF TypeInv, VersionInv, VersionsOf
<1>7. /\ p \in Handled[uc] /\ D \in Handled[uc]
      /\ D \in {"consumeDesc", "produceDesc"} =>
           {"consumeDesc", "produceDesc", "consumeLimit", "produceLimit"} \subseteq Handled[uc]
  <2>1. CASE uc = "mgcp"
    BY <1>4, <2>1 DEF Needs, Handled, MgcpHandled, DescOf, ValuesNeeded
  <2>2. CASE uc = "vabd"
    BY <1>4, <2>2 DEF Needs, Handled, VabdHandled, DescOf, ValuesNeeded
  <2>3. CASE uc = "vapd"
    BY <1>4, <2>3 DEF Needs, Handled, VapdHandled, DescOf, ValuesNeeded
  <2>4. CASE uc = "egLpc"
    BY <1>4, <2>4 DEF Needs, Handled, EgLpcHandled, DescOf, ValuesNeeded
  <2>5. CASE uc = "egLpp"
    BY <1>4, <2>5 DEF Needs, Handled, EgLppHandled, DescOf, ValuesNeeded
  <2> QED
    BY <1>1, <2>1, <2>2, <2>3, <2>4, <2>5 DEF UseCases
<1>8. D \in {"consumeDesc", "produceDesc"} <=> p \in {"consumeLimit", "produceLimit"}
  BY <1>2 DEF DescOf
<1> HIDE DEF D
<1>9. ASSUME NEW parts, Together(parts), D \in parts PROVE parts \subseteq Handled[uc] /\ parts # {"heartbeat"}
  BY <1>2, <1>7, <1>9, Alone
<1>10. ASSUME NEW parts, Together(parts), p \in parts PROVE parts \subseteq Handled[uc] /\ parts # {"heartbeat"}
  BY <1>2, <1>7, <1>8, <1>10, Alone
<1> QED
  BY <1>1, <1>2, <1>3, <1>5, <1>6, <1>9, <1>10 DEF D

\* Who is informed of data that a use case handles.
LEMMA Informed1 ==
    ASSUME TypeInv, Arrived, NEW uc \in entity.useCases, DOMAIN inbox[1].data \subseteq Handled[uc],
           DOMAIN inbox[1].data = {"heartbeat"} => inbox[1].kind = "notify"
    PROVE  Event(uc, inbox[1]) \in DOMAIN handlers'
BY DEF Arrived, Informs

\* At first every use case has still to ask.
LEMMA KnownInit ==
    ASSUME Init
    PROVE  KnownInv
<1>1. ASSUME NEW uc \in entity.useCases, NEW p \in ValuesNeeded(uc) PROVE WillAsk(uc, DescOf[p])
  <2> DEFINE h == EntityAdded(uc)
             Of(a, d) == \E k \in DOMAIN a.reads : a.reads[k] = d
             Reads(todo, d) == \E i \in DOMAIN todo : \E k \in DOMAIN todo[i].reads : todo[i].reads[k] = d
  <2>1. h.useCase = uc /\ h.event = "added" /\ h.todo = Connected[uc] /\ uc \in UseCases
    BY EntityIs DEF EntityAdded, Init
  <2>2. h \in DOMAIN handlers
    <3> DEFINE S == {EntityAdded(u) : u \in entity.useCases}
    <3>1. h \in S
      OBVIOUS
    <3> HIDE DEF S, h
    <3>2. DOMAIN SetToBag(S) = S
      BY DEF SetToBag
    <3> QED
      BY <3>1, <3>2 DEF Init, S
  <2>3. /\ \A a, b, d : Of(a, d) \/ Of(b, d) => Reads(<<a, b>>, d)
        /\ \A a, b, c, d : Of(a, d) \/ Of(b, d) \/ Of(c, d) => Reads(<<a, b, c>>, d)
    OBVIOUS
  <2>4. \A f, binds, d, e : Of(Ask(f, binds, <<d>>), d) /\ Of(Ask(f, binds, <<d, e>>), d)
    BY DEF Ask
  <2> HIDE DEF h, Reads, Of
  <2>5. /\ Reads(GridConnected, "keyDescs") /\ Reads(GridConnected, "mDescs")
        /\ Reads(VabdInverterConnected, "mDescs")
        /\ Reads(VapdInverterConnected, "keyDescs") /\ Reads(VapdInverterConnected, "mDescs")
        /\ Reads(EgLpcConnected, "keyDescs") /\ Reads(EgLpcConnected, "consumeDesc")
        /\ Reads(EgLppConnected, "keyDescs") /\ Reads(EgLppConnected, "produceDesc")
    <3>1. Reads(GridConnected, "keyDescs") /\ Reads(GridConnected, "mDescs")
      BY <2>3, <2>4, Zenon DEF GridConnected
    <3>2. Reads(VabdInverterConnected, "mDescs")
      BY <2>3, <2>4, Zenon DEF VabdInverterConnected
    <3>3. Reads(VapdInverterConnected, "keyDescs") /\ Reads(VapdInverterConnected, "mDescs")
      BY <2>3, <2>4, Zenon DEF VapdInverterConnected
    <3>4. Reads(EgLpcConnected, "keyDescs") /\ Reads(EgLpcConnected, "consumeDesc")
      BY <2>3, <2>4, Zenon DEF EgLpcConnected
    <3>5. Reads(EgLppConnected, "keyDescs") /\ Reads(EgLppConnected, "produceDesc")
      BY <2>3, <2>4, Zenon DEF EgLppConnected
    <3> QED
      BY <3>1, <3>2, <3>3, <3>4, <3>5
  <2>6. Reads(Connected[uc], DescOf[p])
    BY <2>1, <2>5 DEF UseCases, Connected, ValuesNeeded, Needs, DescOf
  <2> QED
    BY <2>1, <2>2, <2>6 DEF WillAsk, Reads, Of
<1> QED
  BY <1>1 DEF KnownInv, Known, Before

\* Descriptions, and the last values, stay known or on their way.
LEMMA KnownStep ==
    ASSUME TypeInv, KnownInv, [Next]_vars
    PROVE  KnownInv'
<1>1. entity' = entity
  BY DEF Next, Handle, ConnectFeature, DescriptionDataUpdate, DataUpdate, Receive, RemoteAnswers, RemoteChanges, vars
<1>2. SUFFICES ASSUME NEW uc \in entity.useCases, NEW p \in ValuesNeeded(uc), FeatureOf(p) \in entity.features,
                      Known(uc, p)
               PROVE  Known(uc, p)'
  BY <1>1 DEF KnownInv
<1> DEFINE D == DescOf[p]
<1>3. /\ uc \in UseCases /\ p \in Parts /\ p \in ValueParts /\ p \in entity.readable
      /\ D \in Parts /\ D \notin ValueParts /\ D \in entity.readable
      /\ FeatureOf(D) = FeatureOf(p) /\ version[p] # Nil /\ version[p] \in Nat
      /\ \A parts : Together(parts) /\ D \in parts => parts \subseteq Handled[uc] /\ parts # {"heartbeat"}
  BY <1>2, NeededIs
<1>4. /\ Before(uc, D) \/ cache[D] # Nil
      /\ Before(uc, D) \/ Handling(uc, D) \/ Asked(p) \/ LastUnderway(p) \/ cache[p] = version[p]
  BY <1>2 DEF Known
<1>5. ASSUME /\ Before(uc, D) => Before(uc, D)' \/ (Handling(uc, D)' /\ cache'[D] # Nil)
             /\ cache[D] # Nil => cache'[D] # Nil
             /\ Handling(uc, D) => Handling(uc, D)' \/ Asked(p)'
             /\ Asked(p) => Asked(p)' \/ LastUnderway(p)'
             /\ LastUnderway(p) \/ cache[p] = version[p] => LastUnderway(p)' \/ cache'[p] = version'[p]
      PROVE  Known(uc, p)'
  BY <1>4, <1>5 DEF Known
<1> HIDE DEF D
<1>6. ASSUME NEW h \in DOMAIN handlers, ConnectFeature(h) PROVE Known(uc, p)'
  <2>1. PICK t \in Seq(MessageType) : Connects(h, t)
    BY <1>6, ConnectSends
  <2>2. /\ Connecting(h) /\ h.event = "added" /\ UNCHANGED <<version, cache, inbox>>
        /\ \A x \in DOMAIN handlers : x = h \/ x \in DOMAIN handlers'
        /\ Rest(h).todo # <<>> => Rest(h) \in DOMAIN handlers'
        /\ Rest(h) = [useCase |-> h.useCase, event |-> h.event, todo |-> Tail(h.todo), parts |-> h.parts,
                      payload |-> h.payload]
    BY <1>6, ConnectHandlers
  <2>3. Rest(h).todo = Tail(h.todo) /\ Rest(h).event = "added" /\ Rest(h).useCase = h.useCase
    BY <2>2
  <2>4. outbox' = outbox \o t
    BY <2>1 DEF Connects
  <2>5. Behind(t) /\ Len(outbox) \in Nat
    BY <2>4, SentBehind
  <2>6. (Asked(D) => Asked(D)') /\ (Asked(p) => Asked(p)')
    BY <2>5 DEF Asked, ReadAt, Behind
  <2>7. (Underway(D)' <=> Underway(D)) /\ (LastUnderway(p)' <=> LastUnderway(p))
    BY <2>2 DEF Underway, LastUnderway, SentAt
  <2>8. Handling(uc, D) => Handling(uc, D)'
    BY <2>2 DEF Handling
  <2>9. ASSUME WillAsk(uc, D) PROVE WillAsk(uc, D)' \/ Asked(D)'
    <3>1. PICK x \in DOMAIN handlers :
             /\ x.useCase = uc /\ x.event = "added"
             /\ \E i \in DOMAIN x.todo : \E k \in DOMAIN x.todo[i].reads : x.todo[i].reads[k] = D
      BY <2>9 DEF WillAsk
    <3>2. CASE x # h
      BY <2>2, <3>1, <3>2 DEF WillAsk
    <3>3. CASE x = h
      <4>1. PICK i \in DOMAIN h.todo : \E k \in DOMAIN h.todo[i].reads : h.todo[i].reads[k] = D
        BY <3>1, <3>3
      <4>2. CASE i = 1
        <5>1. h.todo[1].feature \in entity.features
          BY <1>2, <1>3, <2>2, <4>1, <4>2 DEF Connecting
        <5>2. \E j \in DOMAIN t : ReadAt(t, D, j)
          BY <1>3, <2>1, <4>1, <4>2, <5>1 DEF Connects, ReadAt
        <5> QED
          BY <2>5, <5>2, BehindAsks
      <4>3. CASE i # 1
        <5>1. h.todo \in Seq(AskType) /\ h.todo # <<>>
          BY <2>2 DEF Connecting
        <5>2. i - 1 \in DOMAIN Tail(h.todo) /\ Tail(h.todo)[i - 1] = h.todo[i]
          BY <4>3, <5>1, TailIs
        <5>3. Tail(h.todo) # <<>>
          BY <5>2
        <5>4. Rest(h) \in DOMAIN handlers'
          BY <2>2, <2>3, <5>3
        <5>5. \E j \in DOMAIN Rest(h).todo : \E k \in DOMAIN Rest(h).todo[j].reads : Rest(h).todo[j].reads[k] = D
          BY <2>3, <4>1, <5>2
        <5>6. Rest(h).useCase = uc /\ Rest(h).event = "added"
          BY <2>3, <3>1, <3>3
        <5> QED
          BY <5>4, <5>5, <5>6 DEF WillAsk
      <4> QED
        BY <4>2, <4>3
    <3> QED
      BY <3>2, <3>3
  <2> QED
    BY <1>5, <2>2, <2>6, <2>7, <2>8, <2>9 DEF Before
<1>7. ASSUME NEW h \in DOMAIN handlers, DescriptionDataUpdate(h) PROVE Known(uc, p)'
  <2>1. PICK t \in Seq(MessageType) :
           /\ outbox' = outbox \o t /\ Behind(t)
           /\ \A r \in ValuesNeeded(h.useCase) : DescOf[r] \in h.parts /\ r \in entity.readable =>
                \E k \in DOMAIN t : ReadAt(t, r, k)
    BY <1>7, TypeDescription
  <2>2. /\ UNCHANGED <<version, cache, inbox>> /\ h.event = "data"
        /\ \A x \in DOMAIN handlers : x = h \/ x \in DOMAIN handlers'
    BY <1>7, HandledGone DEF DescriptionDataUpdate
  <2>3. (Asked(D) => Asked(D)') /\ (Asked(p) => Asked(p)')
    BY <2>1 DEF Asked, ReadAt, Behind
  <2>4. (Underway(D)' <=> Underway(D)) /\ (LastUnderway(p)' <=> LastUnderway(p))
    BY <2>2 DEF Underway, LastUnderway, SentAt
  <2>5. WillAsk(uc, D) => WillAsk(uc, D)'
    BY <2>2 DEF WillAsk
  <2>6. ASSUME Handling(uc, D) PROVE Handling(uc, D)' \/ Asked(p)'
    <3>1. PICK x \in DOMAIN handlers : x.useCase = uc /\ x.event = "data" /\ D \in x.parts
      BY <2>6 DEF Handling
    <3>2. CASE x # h
      BY <2>2, <3>1, <3>2 DEF Handling
    <3>3. CASE x = h
      <4>1. \E k \in DOMAIN t : ReadAt(t, p, k)
        BY <1>2, <1>3, <2>1, <3>1, <3>3 DEF D
      <4> QED
        BY <2>1, <4>1, BehindAsks
    <3> QED
      BY <3>2, <3>3
  <2> QED
    BY <1>5, <2>2, <2>3, <2>4, <2>5, <2>6 DEF Before
<1>8. ASSUME UNCHANGED <<version, cache, outbox, inbox>>,
             \A x \in DOMAIN handlers : x \in DOMAIN handlers' \/ (x.event = "data" /\ D \notin x.parts)
      PROVE  Known(uc, p)'
  <2>1. /\ WillAsk(uc, D) => WillAsk(uc, D)'
        /\ Handling(uc, D) => Handling(uc, D)'
    BY <1>8 DEF WillAsk, Handling
  <2>2. /\ (Asked(D)' <=> Asked(D)) /\ (Asked(p)' <=> Asked(p))
        /\ (Underway(D)' <=> Underway(D)) /\ (LastUnderway(p)' <=> LastUnderway(p))
    BY <1>8 DEF Asked, Underway, LastUnderway, ReadAt, SentAt
  <2> QED
    BY <1>5, <1>8, <2>1, <2>2 DEF Before
<1>9. ASSUME NEW h \in DOMAIN handlers, DataUpdate(h) PROVE Known(uc, p)'
  <2>1. /\ UNCHANGED <<version, cache, outbox, inbox>> /\ h.event = "data" /\ h.parts \subseteq ValueParts
        /\ \A x \in DOMAIN handlers : x = h \/ x \in DOMAIN handlers'
    BY <1>9, HandledGone DEF DataUpdate
  <2> QED
    BY <1>3, <1>8, <2>1
<1>10. ASSUME Receive PROVE Known(uc, p)'
  <2>1. Arrived
    BY <1>10, ReceiveIs
  <2>2. /\ Underway(D) => SentAt(inbox, D, 1) \/ Underway(D)'
        /\ SentAt(inbox, D, 1) => cache'[D] # Nil
        /\ Asked(D)' <=> Asked(D)
        /\ Asked(p)' <=> Asked(p)
    BY <1>3, <2>1, ReceiveMoves
  <2>3. cache[D] # Nil => cache'[D] # Nil
    BY <1>3, <2>1 DEF Arrived
  <2>4. WillAsk(uc, D) => WillAsk(uc, D)'
    BY <2>1 DEF WillAsk, Arrived
  <2>5. Handling(uc, D) => Handling(uc, D)'
    BY <2>1 DEF Handling, Arrived
  <2>6. 1 \in DOMAIN inbox /\ Together(DOMAIN inbox[1].data)
    BY <2>1 DEF Arrived, TypeInv, InboxInv
  <2>7. ASSUME SentAt(inbox, D, 1) PROVE Handling(uc, D)'
    <3>1. Event(uc, inbox[1]) \in DOMAIN handlers'
      BY <1>3, <2>1, <2>6, <2>7, Informed1 DEF SentAt
    <3> QED
      BY <2>7, <3>1 DEF Handling, Event, SentAt
  <2>8. ASSUME LastUnderway(p) PROVE LastUnderway(p)' \/ cache'[p] = version'[p]
    <3>1. PICK k \in DOMAIN inbox : SentAt(inbox, p, k) /\ inbox[k].data[p] = version[p]
      BY <2>8 DEF LastUnderway
    <3>2. version' = version
      BY <2>1 DEF Arrived
    <3>3. CASE k = 1
      BY <1>3, <2>1, <3>1, <3>2, <3>3 DEF Arrived
    <3>4. CASE k # 1
      BY <2>1, <3>1, <3>2, <3>4 DEF Arrived, LastUnderway, SentAt
    <3> QED
      BY <3>3, <3>4
  <2>9. ASSUME cache[p] = version[p] PROVE cache'[p] = version'[p]
    <3>1. version' = version
      BY <2>1 DEF Arrived
    <3>2. CASE SentAt(inbox, p, 1)
      <4>1. /\ cache'[p] = inbox[1].data[p] /\ inbox[1].data[p] \in 1..version[p]
            /\ cache[p] <= inbox[1].data[p]
        BY <1>3, <2>1, <2>6, <2>9, <3>2 DEF Arrived, SentAt, TypeInv, InboxInv, OrderInv
      <4> QED
        BY <1>3, <2>9, <3>1, <4>1
    <3>3. CASE ~SentAt(inbox, p, 1)
      BY <1>3, <2>1, <2>9, <3>1, <3>3 DEF Arrived
    <3> QED
      BY <3>2, <3>3
  <2> QED
    BY <1>5, <2>2, <2>3, <2>4, <2>5, <2>7, <2>8, <2>9 DEF Before
<1>11. ASSUME RemoteAnswers PROVE Known(uc, p)'
  <2>1. Answered
    BY <1>11, TypeAnswer
  <2>2. /\ Asked(D) => Asked(D)' \/ Underway(D)'
        /\ Underway(D) => Underway(D)'
    BY <2>1, AnswerMoves
  <2>3. UNCHANGED <<version, cache, handlers>>
    BY <2>1 DEF Answered
  <2>4. (WillAsk(uc, D)' <=> WillAsk(uc, D)) /\ (Handling(uc, D)' <=> Handling(uc, D))
    BY <2>3 DEF WillAsk, Handling
  <2>5. ASSUME Asked(p) PROVE Asked(p)' \/ LastUnderway(p)'
    <3>1. PICK k \in DOMAIN outbox : ReadAt(outbox, p, k)
      BY <2>5 DEF Asked
    <3>2. CASE k = 1
      <4>1. PICK n : Later(Data("reply", outbox[1].parts), n)
        BY <2>1, <3>1, <3>2 DEF Answered, ReadAt
      <4>2. /\ p \in DOMAIN Data("reply", outbox[1].parts).data
            /\ Data("reply", outbox[1].parts).data[p] = version[p]
        BY <3>1, <3>2 DEF Data, ReadAt
      <4> QED
        BY <2>3, <4>1, <4>2 DEF LastUnderway, SentAt, Later
    <3>3. CASE k # 1
      BY <2>1, <3>1, <3>3 DEF Answered, Asked, ReadAt
    <3> QED
      BY <3>2, <3>3
  <2>6. LastUnderway(p) => LastUnderway(p)'
    <3>1. CASE outbox[1].kind = "read"
      BY <2>1, <2>3, <3>1 DEF Answered, Later, LastUnderway, SentAt
    <3>2. CASE outbox[1].kind # "read"
      BY <2>1, <2>3, <3>2 DEF Answered, LastUnderway, SentAt
    <3> QED
      BY <3>1, <3>2
  <2> QED
    BY <1>5, <2>2, <2>3, <2>4, <2>5, <2>6 DEF Before
<1>12. ASSUME NEW part \in entity.changing, RemoteChanges(part) PROVE Known(uc, p)'
  <2>1. Changed(part)
    BY <1>12, TypeChange
  <2>2. UNCHANGED <<cache, outbox, handlers>> /\ part # D
    BY <1>3, <2>1 DEF Changed
  <2>3. Underway(D) => Underway(D)'
    BY <2>1, ChangeMoves
  <2>4. /\ (WillAsk(uc, D)' <=> WillAsk(uc, D)) /\ (Handling(uc, D)' <=> Handling(uc, D))
        /\ (Asked(D)' <=> Asked(D)) /\ (Asked(p)' <=> Asked(p))
    BY <2>2 DEF WillAsk, Handling, Asked, ReadAt
  <2>5. ASSUME LastUnderway(p) \/ cache[p] = version[p]
        PROVE  LastUnderway(p)' \/ cache'[p] = version'[p]
    <3>1. FeatureOf(p) \in served
      <4>1. Underway(p) \/ cache[p] # Nil
        BY <1>3, <2>5 DEF LastUnderway, Underway
      <4> QED
        BY <1>3, <4>1 DEF TypeInv, LinksInv
    <3>2. CASE part = p
      <4>1. PICK n : Later(Notice(p), n)
        BY <2>1, <3>1, <3>2 DEF Changed
      <4>2. p \in DOMAIN Notice(p).data /\ Notice(p).data[p] = version'[p]
        BY <2>1, <3>2 DEF Notice, Changed
      <4> QED
        BY <4>1, <4>2 DEF LastUnderway, SentAt, Later
    <3>3. CASE part # p
      <4>1. version'[p] = version[p] /\ cache' = cache
        BY <1>3, <2>1, <3>3 DEF Changed
      <4>2. LastUnderway(p) => LastUnderway(p)'
        <5>1. CASE FeatureOf(part) \in served
          BY <2>1, <4>1, <5>1 DEF Changed, Later, LastUnderway, SentAt
        <5>2. CASE FeatureOf(part) \notin served
          BY <2>1, <4>1, <5>2 DEF Changed, LastUnderway, SentAt
        <5> QED
          BY <5>1, <5>2
      <4> QED
        BY <2>5, <4>1, <4>2
    <3> QED
      BY <3>2, <3>3
  <2> QED
    BY <1>5, <2>2, <2>3, <2>4, <2>5 DEF Before
<1>13. ASSUME UNCHANGED vars PROVE Known(uc, p)'
  BY <1>8, <1>13 DEF vars
<1> QED
  BY <1>6, <1>7, <1>9, <1>10, <1>11, <1>12, <1>13 DEF Next, Handle

-----------------------------------------------------------------------------
(* Heartbeats.                                                             *)

\* Who reads heartbeats handles them.
LEMMA BeatHandled ==
    ASSUME NEW uc \in UseCases, NEW q \in Values[uc] \intersect Heartbeats
    PROVE  {"heartbeat"} \subseteq Handled[uc]
<1>1. uc = "egLpc" \/ uc = "egLpp"
  BY DEF UseCases, Values, Heartbeats
<1> QED
  BY <1>1 DEF Handled, EgLpcHandled, EgLppHandled

\* No heartbeat was notified at first.
LEMMA HeartbeatInit ==
    ASSUME Init
    PROVE  HeartbeatInv
<1> DEFINE S == {EntityAdded(uc) : uc \in entity.useCases}
<1>1. DOMAIN handlers = S
  <2>1. handlers = SetToBag(S)
    BY DEF Init
  <2> HIDE DEF S
  <2> QED
    BY <2>1 DEF SetToBag
<1>2. \A h \in DOMAIN handlers : h.event = "added"
  BY <1>1 DEF EntityAdded
<1>3. \A q \in ValuesOf(entity.useCases) : view[q] = Nil
  BY DEF Init
<1>4. \A uc \in entity.useCases : Values[uc] \subseteq ValuesOf(entity.useCases)
  BY DEF ValuesOf
<1>5. DOMAIN view = ValuesOf(entity.useCases) /\ inbox = <<>>
  BY DEF Init
<1>6. ~Notified
  BY <1>2, <1>3, <1>5 DEF Notified, Beating, Handling
<1> QED
  BY <1>3, <1>4, <1>6 DEF HeartbeatInv

\* The last heartbeat that was notified is known or on its way, and was read or will
\* be told.
LEMMA HeartbeatStep ==
    ASSUME TypeInv, ViewInv, HeartbeatInv, [Next]_vars
    PROVE  HeartbeatInv'
<1> DEFINE b == "heartbeat"
           Read1(uc, q) == \/ cache[b] # Nil /\ view[q] = Ok(cache[b])
                           \/ Handling(uc, b) \/ Beating
<1>1. entity' = entity
  BY DEF Next, Handle, ConnectFeature, DescriptionDataUpdate, DataUpdate, Receive, RemoteAnswers, RemoteChanges, vars
<1>2. /\ Notified => cache[b] = version[b] \/ LastBeat
      /\ \A uc \in entity.useCases : \A q \in Values[uc] \intersect Heartbeats : view[q] # Nil => Read1(uc, q)
  BY DEF HeartbeatInv
<1>3. ASSUME /\ Notified' => cache'[b] = version'[b] \/ LastBeat'
             /\ \A uc \in entity.useCases : \A q \in Values[uc] \intersect Heartbeats :
                  view'[q] # Nil =>
                      (cache'[b] # Nil /\ view'[q] = Ok(cache'[b])) \/ Handling(uc, b)' \/ Beating'
      PROVE  HeartbeatInv'
  BY <1>1, <1>3 DEF HeartbeatInv
<1>4. b \in Parts /\ b \in ValueParts /\ entity \in Entities
  BY PartsAre DEF ValueParts, TypeInv, VersionInv
<1>5. \A uc \in entity.useCases : \A q \in Values[uc] : q \in DOMAIN view /\ uc \in UseCases
  BY <1>4, EntityIs DEF ViewInv, ValuesOf
<1> HIDE DEF b
<1>6. ASSUME UNCHANGED <<version, cache, inbox, view>>,
             \A uc \in entity.useCases : Handling(uc, b)' <=> Handling(uc, b)
      PROVE  HeartbeatInv'
  <2>1. (Beating' <=> Beating) /\ (LastBeat' <=> LastBeat)
    BY <1>6 DEF Beating, LastBeat, Beat, SentAt
  <2>2. Notified' <=> Notified
    BY <1>1, <1>6, <2>1 DEF Notified, b
  <2> QED
    BY <1>2, <1>3, <1>6, <2>1, <2>2
<1>7. ASSUME NEW h \in DOMAIN handlers, ConnectFeature(h) PROVE HeartbeatInv'
  <2>1. /\ h.event = "added" /\ UNCHANGED <<version, cache, inbox, view>>
        /\ \A x \in DOMAIN handlers : x = h \/ x \in DOMAIN handlers'
        /\ \A x \in DOMAIN handlers' : x \in DOMAIN handlers \/ x = Rest(h)
        /\ Rest(h) = [useCase |-> h.useCase, event |-> h.event, todo |-> Tail(h.todo), parts |-> h.parts,
                      payload |-> h.payload]
    BY <1>7, ConnectHandlers
  <2>2. Rest(h).event = "added"
    BY <2>1
  <2>3. \A uc : Handling(uc, b)' <=> Handling(uc, b)
    BY <2>1, <2>2 DEF Handling
  <2> QED
    BY <1>6, <2>1, <2>3
<1>8. ASSUME NEW h \in DOMAIN handlers, DescriptionDataUpdate(h) PROVE HeartbeatInv'
  <2>1. /\ UNCHANGED <<version, cache, inbox, view>> /\ b \notin h.parts
        /\ \A x \in DOMAIN handlers : x = h \/ x \in DOMAIN handlers'
        /\ DOMAIN handlers' \subseteq DOMAIN handlers
    BY <1>4, <1>8, HandledGone DEF DescriptionDataUpdate
  <2>2. \A uc : Handling(uc, b)' <=> Handling(uc, b)
    BY <2>1 DEF Handling
  <2> QED
    BY <1>6, <2>1, <2>2
<1>9. ASSUME NEW h \in DOMAIN handlers, DataUpdate(h) PROVE HeartbeatInv'
  <2>1. Tell(h) /\ h.event = "data"
    BY <1>9, TellIs DEF DataUpdate
  <2>2. UNCHANGED <<version, cache, inbox>>
    BY <2>1 DEF Tell
  <2>3. (Beating' <=> Beating) /\ (LastBeat' <=> LastBeat)
    BY <2>2 DEF Beating, LastBeat, Beat, SentAt
  <2>4. \A uc : Handling(uc, b)' => Handling(uc, b)
    BY <2>1 DEF Handling, Tell
  <2>5. ASSUME NEW q \in Heartbeats, q \in Told(h)
        PROVE  /\ Handling(h.useCase, b) /\ h.useCase \in entity.useCases
               /\ cache[b] # Nil /\ view'[q] = Ok(cache[b])
    <3>1. b \in h.parts /\ cache[b] # Nil /\ q \in Values[h.useCase] /\ h.useCase \in entity.useCases
      BY <2>1, <2>5 DEF Tell, Updating, b
    <3>2. q \in DOMAIN view
      BY <1>5, <3>1
    <3>3. view'[q] = Read(q, DataOf(entity, cache))
      BY <2>1, <2>5, <3>2 DEF Tell
    <3>4. Read(q, DataOf(entity, cache)) = IF cache[b] = Nil THEN NotAvailable ELSE Ok(cache[b])
      <4>1. DataOf(entity, cache).dd = cache[b]
        BY <1>4, DataIs DEF b
      <4>2. \A E : Read(q, E) = IF E.dd = Nil THEN NotAvailable ELSE Ok(E.dd)
        BY ReadIs
      <4> QED
        BY <4>1, <4>2
    <3>5. Handling(h.useCase, b)
      BY <2>1, <3>1 DEF Handling
    <3> QED
      BY <3>1, <3>3, <3>4, <3>5
  <2>6. Notified' => Notified
    <3>1. ASSUME NEW q \in DOMAIN view' \intersect Heartbeats, view'[q] # Nil PROVE Notified
      <4>1. q \in DOMAIN view
        BY <2>1 DEF Tell
      <4>2. CASE q \in Told(h)
        BY <2>5, <4>2 DEF Notified, b
      <4>3. CASE q \notin Told(h)
        BY <2>1, <3>1, <4>1, <4>3 DEF Tell, Notified
      <4> QED
        BY <4>2, <4>3
    <3> QED
      BY <1>1, <2>3, <2>4, <3>1 DEF Notified, b
  <2>7. ASSUME NEW uc \in entity.useCases, NEW q \in Values[uc] \intersect Heartbeats, view'[q] # Nil
        PROVE  (cache[b] # Nil /\ view'[q] = Ok(cache[b])) \/ Handling(uc, b)' \/ Beating
    <3>1. CASE q \in Told(h)
      BY <2>5, <3>1
    <3>2. CASE q \notin Told(h)
      <4>1. view'[q] = view[q]
        BY <1>5, <2>1, <3>2 DEF Tell
      <4>2. Handling(uc, b) => Handling(uc, b)'
        <5>1. ASSUME NEW x \in DOMAIN handlers, x.useCase = uc, b \in x.parts PROVE x # h
          BY <2>1, <3>2, <5>1 DEF Tell, b
        <5> QED
          BY <2>1, <5>1 DEF Handling, Tell
      <4> QED
        BY <1>2, <2>7, <4>1, <4>2
    <3> QED
      BY <3>1, <3>2
  <2> QED
    BY <1>2, <1>3, <2>2, <2>3, <2>6, <2>7
<1>10. ASSUME Receive PROVE HeartbeatInv'
  <2> DEFINE m == inbox[1]
  <2>1. Arrived
    BY <1>10, ReceiveIs
  <2>2. /\ UNCHANGED <<version, view>> /\ 1 \in DOMAIN inbox /\ Together(DOMAIN m.data)
        /\ SentAt(inbox, b, 1) => cache'[b] = m.data[b] /\ m.data[b] \in 1..version[b] /\ version[b] # Nil
        /\ ~SentAt(inbox, b, 1) => cache'[b] = cache[b]
        /\ cache[b] # Nil => cache'[b] # Nil
        /\ SentAt(inbox, b, 1) /\ cache[b] # Nil => cache[b] <= m.data[b]
    BY <1>4, <2>1 DEF Arrived, TypeInv, InboxInv, OrderInv, SentAt
  <2>3. SentAt(inbox, b, 1) => cache'[b] # Nil
    BY <1>4, <2>1, ReceiveMoves
  <2>4. version[b] # Nil => version[b] \in Nat
    BY <1>4 DEF TypeInv, VersionInv, VersionsOf
  <2>5. cache[b] = version[b] => cache'[b] = version[b]
    <3>1. CASE ~SentAt(inbox, b, 1)
      BY <2>2, <3>1
    <3>2. CASE SentAt(inbox, b, 1) /\ cache[b] = version[b]
      <4>1. version[b] <= m.data[b] /\ m.data[b] \in 1..version[b] /\ version[b] \in Nat /\ cache'[b] = m.data[b]
        BY <2>2, <2>4, <3>2
      <4> QED
        BY <4>1
    <3> QED
      BY <3>1, <3>2
  <2>6. \A k \in DOMAIN inbox : Beat(inbox, k) => k = 1 \/ (k - 1 \in DOMAIN inbox' /\ Beat(inbox', k - 1))
    BY <2>1 DEF Arrived, Beat, SentAt
  <2>7. LastBeat => cache'[b] = version[b] \/ (LastBeat' /\ Beating')
    <3>1. ASSUME NEW k \in DOMAIN inbox, Beat(inbox, k), inbox[k].data[b] = version[b]
          PROVE  cache'[b] = version[b] \/ (LastBeat' /\ Beating')
      <4>1. CASE k = 1
        BY <2>2, <3>1, <4>1 DEF Beat, b
      <4>2. CASE k # 1
        <5>1. k - 1 \in DOMAIN inbox' /\ inbox'[k - 1] = inbox[k] /\ Beat(inbox', k - 1)
          BY <2>1, <2>6, <3>1, <4>2 DEF Arrived
        <5> QED
          BY <2>2, <3>1, <5>1 DEF LastBeat, Beating, b
      <4> QED
        BY <4>1, <4>2
    <3> QED
      BY <3>1 DEF LastBeat, b
  <2>8. ASSUME SentAt(inbox, b, 1) PROVE DOMAIN m.data = {b}
    BY <2>2, <2>8, Alone DEF SentAt, b
  <2>9. Notified' => Notified
    <3>1. Beating' => Beating
      BY <2>1 DEF Arrived, Beating, Beat, SentAt
    <3>2. ASSUME NEW uc, Handling(uc, b)' PROVE Handling(uc, b) \/ Beating
      <4>1. PICK x \in DOMAIN handlers' : x.useCase = uc /\ x.event = "data" /\ b \in x.parts
        BY <3>2 DEF Handling
      <4>2. CASE x \in DOMAIN handlers
        BY <4>1, <4>2 DEF Handling
      <4>3. CASE x \notin DOMAIN handlers
        <5>1. PICK u : Informs(u, m) /\ x = Event(u, m)
          BY <2>1, <4>3 DEF Arrived
        <5>2. SentAt(inbox, b, 1)
          BY <4>1, <5>1 DEF Event, SentAt
        <5>3. m.kind = "notify"
          BY <2>8, <5>1, <5>2 DEF Informs, b
        <5> QED
          BY <2>2, <5>2, <5>3 DEF Beating, Beat, b
      <4> QED
        BY <4>2, <4>3
    <3> QED
      BY <1>1, <2>2, <3>1, <3>2 DEF Notified, b
  <2>10. ASSUME NEW uc \in entity.useCases, NEW q \in Values[uc] \intersect Heartbeats, Beat(inbox, 1)
         PROVE  Handling(uc, b)'
    <3>1. DOMAIN m.data = {b} /\ m.kind = "notify" /\ {b} \subseteq Handled[uc]
      BY <1>5, <2>8, <2>10, BeatHandled DEF Beat, b
    <3>2. Event(uc, m) \in DOMAIN handlers'
      BY <2>1, <3>1, Informed1
    <3>3. Event(uc, m).useCase = uc /\ Event(uc, m).event = "data" /\ b \in Event(uc, m).parts
      BY <3>1 DEF Event
    <3> QED
      BY <3>2, <3>3 DEF Handling
  <2>11. ASSUME NEW uc \in entity.useCases, NEW q \in Values[uc] \intersect Heartbeats, view[q] # Nil
         PROVE  (cache'[b] # Nil /\ view[q] = Ok(cache'[b])) \/ Handling(uc, b)' \/ Beating'
    <3>1. CASE Beating
      BY <2>6, <2>10, <2>11, <3>1 DEF Beating
    <3>2. CASE Handling(uc, b)
      BY <2>1, <3>2 DEF Handling, Arrived
    <3>3. CASE cache[b] # Nil /\ view[q] = Ok(cache[b]) /\ ~Beating
      <4>1. ~LastBeat
        BY <3>3 DEF LastBeat, Beating
      <4>2. Notified
        BY <1>5, <2>11 DEF Notified
      <4>3. cache[b] = version[b] /\ cache'[b] = version[b]
        BY <1>2, <2>5, <4>1, <4>2
      <4> QED
        BY <3>3, <4>3
    <3> QED
      BY <1>2, <2>11, <3>1, <3>2, <3>3
  <2> QED
    BY <1>2, <1>3, <2>2, <2>5, <2>7, <2>9, <2>11
<1>11. ASSUME UNCHANGED <<cache, handlers, view>>,
              Beating => Beating', Notified' => cache[b] = version'[b] \/ LastBeat'
       PROVE  HeartbeatInv'
  <2>1. \A uc : Handling(uc, b)' <=> Handling(uc, b)
    BY <1>11 DEF Handling
  <2> QED
    BY <1>2, <1>3, <1>11, <2>1
<1>12. ASSUME RemoteAnswers PROVE HeartbeatInv'
  <2>1. Answered
    BY <1>12, TypeAnswer
  <2>2. UNCHANGED <<version, cache, handlers, view>>
    BY <2>1 DEF Answered
  <2>3. (Beating' <=> Beating) /\ (LastBeat => LastBeat')
    <3>1. CASE outbox[1].kind = "read"
      <4>1. PICK n : Later(Data("reply", outbox[1].parts), n)
        BY <2>1, <3>1 DEF Answered
      <4>2. Data("reply", outbox[1].parts).kind # "notify"
        BY DEF Data
      <4> QED
        BY <2>2, <4>1, <4>2 DEF Beating, LastBeat, Beat, SentAt, Later
    <3>2. CASE outbox[1].kind # "read"
      BY <2>1, <2>2, <3>2 DEF Answered, Beating, LastBeat, Beat, SentAt
    <3> QED
      BY <3>1, <3>2
  <2>4. Notified' => Notified
    BY <1>1, <2>2, <2>3 DEF Notified, Handling
  <2> QED
    BY <1>2, <1>11, <2>2, <2>3, <2>4
<1>13. ASSUME NEW part \in entity.changing, RemoteChanges(part) PROVE HeartbeatInv'
  <2>1. Changed(part)
    BY <1>13, TypeChange
  <2>2. UNCHANGED <<served, cache, handlers, view>>
    BY <2>1 DEF Changed
  <2>3. Beating => Beating'
    <3>1. CASE FeatureOf(part) \in served
      BY <2>1, <3>1 DEF Changed, Later, Beating, Beat, SentAt
    <3>2. CASE FeatureOf(part) \notin served
      BY <2>1, <3>2 DEF Changed, Beating, Beat, SentAt
    <3> QED
      BY <3>1, <3>2
  <2>4. CASE part # b
    <3>1. version'[b] = version[b]
      BY <1>4, <2>1, <2>4 DEF Changed
    <3>2. (Beating' => Beating) /\ (LastBeat => LastBeat')
      <4>1. CASE FeatureOf(part) \in served
        <5>1. PICK n : Later(Notice(part), n)
          BY <2>1, <4>1 DEF Changed
        <5>2. b \notin DOMAIN Notice(part).data
          BY <2>4 DEF Notice
        <5> QED
          BY <3>1, <5>1, <5>2 DEF Beating, LastBeat, Beat, SentAt, Later, b
      <4>2. CASE FeatureOf(part) \notin served
        BY <2>1, <3>1, <4>2 DEF Changed, Beating, LastBeat, Beat, SentAt, b
      <4> QED
        BY <4>1, <4>2
    <3>3. Notified' => Notified
      BY <1>1, <2>2, <3>2 DEF Notified, Handling
    <3> QED
      BY <1>2, <1>11, <2>2, <2>3, <3>1, <3>2, <3>3
  <2>5. CASE part = b /\ FeatureOf(b) \in served
    <3>1. PICK n : Later(Notice(b), n)
      BY <2>1, <2>5 DEF Changed
    <3>2. Notice(b).kind = "notify" /\ b \in DOMAIN Notice(b).data /\ Notice(b).data[b] = version'[b]
      BY <2>1, <2>5 DEF Notice, Changed
    <3>3. LastBeat'
      BY <3>1, <3>2 DEF LastBeat, Beat, SentAt, Later, b
    <3> QED
      BY <1>11, <2>2, <2>3, <3>3
  <2>6. CASE part = b /\ FeatureOf(b) \notin served
    <3>1. inbox' = inbox
      BY <2>1, <2>6 DEF Changed
    <3>2. Notified' => Notified
      BY <1>1, <2>2, <3>1 DEF Notified, Handling, Beating, Beat, SentAt
    <3>3. ~Notified
      <4>1. cache[b] = Nil /\ ~Underway(b)
        BY <1>4, <2>6 DEF TypeInv, LinksInv
      <4>2. ~LastBeat
        BY <4>1 DEF LastBeat, Beat, Underway, b
      <4>3. version[b] # Nil
        BY <2>1, <2>6 DEF Changed
      <4> QED
        BY <1>2, <4>1, <4>2, <4>3
    <3> QED
      BY <1>11, <2>2, <2>3, <3>2, <3>3
  <2> QED
    BY <2>4, <2>5, <2>6
<1>14. ASSUME UNCHANGED vars PROVE HeartbeatInv'
  BY <1>6, <1>14 DEF vars, Handling
<1> QED
  BY <1>7, <1>8, <1>9, <1>10, <1>12, <1>13, <1>14 DEF Next, Handle

-----------------------------------------------------------------------------
(* The application read the last of what is held, or will be told.         *)

\* The parts that a value needs.
LEMMA QuantityIs ==
    ASSUME NEW uc \in UseCases, NEW q \in Values[uc] \ Heartbeats
    PROVE  /\ ValuePart(q) \in ValuesNeeded(uc) /\ ValuePart(q) \in Parts /\ ValuePart(q) \in ValueParts
           /\ DescOf[ValuePart(q)] \in Parts /\ DescOf[ValuePart(q)] \notin ValueParts
           /\ FeatureOf(DescOf[ValuePart(q)]) = FeatureOf(ValuePart(q))
<1>1. ValuePart(q) \in ValuesNeeded(uc)
  <2>1. CASE uc = "mgcp"
    BY <2>1 DEF Values, Heartbeats, ValuePart, ValuesNeeded, Needs, DescOf
  <2>2. CASE uc = "vabd"
    BY <2>2 DEF Values, Heartbeats, ValuePart, ValuesNeeded, Needs, DescOf
  <2>3. CASE uc = "vapd"
    BY <2>3 DEF Values, Heartbeats, ValuePart, ValuesNeeded, Needs, DescOf
  <2>4. CASE uc = "egLpc"
    BY <2>4 DEF Values, Heartbeats, ValuePart, ValuesNeeded, Needs, DescOf
  <2>5. CASE uc = "egLpp"
    BY <2>5 DEF Values, Heartbeats, ValuePart, ValuesNeeded, Needs, DescOf
  <2> QED
    BY <2>1, <2>2, <2>3, <2>4, <2>5 DEF UseCases
<1>2. ValuePart(q) \in {"keyValues", "mData", "consumeLimit", "produceLimit"}
  BY <1>1 DEF ValuesNeeded, DescOf
<1> QED
  BY <1>1, <1>2, PartsAre DEF DescOf, ValueParts, FeatureOf

\* What tells of a value are its descriptions and its own items.
LEMMA MatchOwn ==
    ASSUME NEW e \in Entities, NEW c, VersionsOf(e, c), NEW o,
           NEW uc \in UseCases, NEW q \in Values[uc] \ Heartbeats,
           c[DescOf[ValuePart(q)]] = o[DescOf[ValuePart(q)]], c[ValuePart(q)] = o[ValuePart(q)],
           Match(e, q, c)
    PROVE  Match(e, q, o)
<1> DEFINE E == DataOf(e, c)
           F == DataOf(e, o)
           own == ItemsOf(e, c, ValuePart(q))
<1>1. /\ own = ItemsOf(e, o, ValuePart(q))
      /\ ItemsOf(e, c, DescOf[ValuePart(q)]) = ItemsOf(e, o, DescOf[ValuePart(q)])
      /\ Tells(q, E, own)
  BY DEF ItemsOf, Match
<1>2. /\ E.m.descs = ItemsOf(e, c, "mDescs") /\ F.m.descs = ItemsOf(e, o, "mDescs")
      /\ E.dc.descs = ItemsOf(e, c, "keyDescs") /\ F.dc.descs = ItemsOf(e, o, "keyDescs")
      /\ F.lc.descs = ItemsOf(e, o, "consumeDesc") \union ItemsOf(e, o, "produceDesc")
  <2>1. \A x : /\ DataOf(e, x).m.descs = ItemsOf(e, x, "mDescs")
               /\ DataOf(e, x).dc.descs = ItemsOf(e, x, "keyDescs")
               /\ DataOf(e, x).lc.descs = ItemsOf(e, x, "consumeDesc") \union ItemsOf(e, x, "produceDesc")
    BY DataIs
  <2> QED
    BY <2>1
<1>3. \A d \in E.lc.descs, desc \in DOMAIN LimitOf :
         d.limitDirection = Direction[desc] => d \in ItemsOf(e, c, desc)
  BY LimitOwn
<1>4. Match(e, q, o) <=> Tells(q, F, own)
  BY <1>1 DEF Match
<1> HIDE DEF E, F, own
<1>5. CASE q \in DOMAIN ScopeOf
  <2>1. DescOf[ValuePart(q)] = "mDescs"
    BY <1>5, ValuesAre DEF DescOf
  <2>2. E.m.descs = F.m.descs
    BY <1>1, <1>2, <2>1
  <2>3. Tells(q, F, own)
    BY <1>1, <1>5, <2>2, TellsMeasured
  <2> QED
    BY <1>4, <2>3
<1>6. CASE q \in DOMAIN KeyOf
  <2>1. DescOf[ValuePart(q)] = "keyDescs"
    BY <1>6, ValuesAre DEF DescOf
  <2>2. E.dc.descs = F.dc.descs
    BY <1>1, <1>2, <2>1
  <2>3. Tells(q, F, own)
    BY <1>1, <1>6, <2>2, TellsKey
  <2> QED
    BY <1>4, <2>3
<1>7. CASE q \in DOMAIN DirectionOf
  <2> DEFINE desc == DescOf[ValuePart(q)]
  <2>1. desc \in DOMAIN LimitOf /\ Direction[desc] = DirectionOf[q] /\ desc \in {"consumeDesc", "produceDesc"}
    BY <1>7 DEF DescOf, ValuePart, DirectionOf, LimitOf, Direction
  <2>2. PICK d \in E.lc.descs, i \in own : LimitedAs(q, d, i)
    BY <1>1, <1>7, TellsLimit
  <2>3. d.limitDirection = Direction[desc]
    BY <2>1, <2>2 DEF LimitedAs
  <2>4. d \in F.lc.descs
    BY <1>1, <1>2, <1>3, <2>1, <2>2, <2>3
  <2>5. Tells(q, F, own)
    BY <1>7, <2>2, <2>4, TellsLimit
  <2> QED
    BY <1>4, <2>5
<1> QED
  BY <1>5, <1>6, <1>7, ValuesAre

\* Nothing was read at first, and nothing is held that would tell of a value.
LEMMA ToldInit ==
    ASSUME Init
    PROVE  ToldInv
<1> SUFFICES ASSUME NEW uc \in entity.useCases, NEW q \in Values[uc] \ Heartbeats
             PROVE  ToldOf(uc, q)
  BY DEF ToldInv
<1>1. entity \in Entities /\ VersionsOf(entity, cache)
  BY TypeInit DEF TypeInv, VersionInv, CacheInv
<1>2. uc \in UseCases
  BY <1>1, EntityIs
<1>3. cache[DescOf[ValuePart(q)]] = Nil
  BY <1>2, QuantityIs DEF Init
<1>4. ~Match(entity, q, cache)
  BY <1>1, <1>2, <1>3, NilIs, TellsKnown DEF Match
<1>5. view[q] = Nil
  BY DEF Init, ValuesOf
<1> QED
  BY <1>4, <1>5 DEF ToldOf

\* What was read is the last of what is held, or will be told.
LEMMA ToldStep ==
    ASSUME TypeInv, ViewInv, DirectionInv, ToldInv, [Next]_vars
    PROVE  ToldInv'
<1>1. entity' = entity
  BY DEF Next, Handle, ConnectFeature, DescriptionDataUpdate, DataUpdate, Receive, RemoteAnswers, RemoteChanges, vars
<1>2. SUFFICES ASSUME NEW uc \in entity.useCases, NEW q \in Values[uc] \ Heartbeats, ToldOf(uc, q)
               PROVE  ToldOf(uc, q)'
  BY <1>1 DEF ToldInv
<1> DEFINE P == ValuePart(q)
           D == DescOf[P]
           Matches == Match(entity, q, cache)
<1>3. entity \in Entities /\ VersionsOf(entity, cache) /\ uc \in UseCases
  BY EntityIs DEF TypeInv, VersionInv, CacheInv
<1>4. /\ P \in ValuesNeeded(uc) /\ P \in Parts /\ P \in ValueParts /\ D \in Parts /\ D \notin ValueParts
      /\ FeatureOf(D) = FeatureOf(P)
  BY <1>3, QuantityIs
<1>5. ASSUME Matches
      PROVE  /\ cache[D] = 1 /\ FeatureOf(P) \in entity.features /\ P \in entity.readable
             /\ \A parts : Together(parts) /\ D \in parts => parts \subseteq Handled[uc] /\ parts # {"heartbeat"}
             /\ \A parts : Together(parts) /\ P \in parts => parts \subseteq Handled[uc] /\ parts # {"heartbeat"}
  <2>1. cache[D] = 1
    BY <1>3, <1>5, TellsKnown DEF Match
  <2>2. FeatureOf(P) \in entity.features
    BY <1>3, <1>4, <2>1, NilIs DEF VersionsOf
  <2> QED
    BY <1>3, <1>4, <2>1, <2>2, NeededIs
<1>6. q \in DOMAIN view
  BY <1>2 DEF ViewInv, ValuesOf
<1>7. ASSUME UNCHANGED cache, view'[q] = view[q], Matches /\ Pending(uc, q) => Pending(uc, q)'
      PROVE  ToldOf(uc, q)'
  BY <1>1, <1>2, <1>7 DEF ToldOf
<1> HIDE DEF P, D, Matches
<1>8. ASSUME NEW h \in DOMAIN handlers, ConnectFeature(h) PROVE ToldOf(uc, q)'
  <2>1. PICK t \in Seq(MessageType) : Connects(h, t)
    BY <1>8, ConnectSends
  <2>2. /\ h.event = "added" /\ UNCHANGED <<cache, inbox, view>>
        /\ \A x \in DOMAIN handlers : x = h \/ x \in DOMAIN handlers'
    BY <1>8, ConnectHandlers
  <2>3. Behind(t)
    BY <2>1, SentBehind DEF Connects
  <2>4. Telling(uc, P) => Telling(uc, P)'
    BY <1>1, <2>2 DEF Telling
  <2>5. Handling(uc, D) => Handling(uc, D)'
    BY <2>2 DEF Handling
  <2>6. (Asked(P) => Asked(P)') /\ (Underway(P) => Underway(P)')
    BY <2>2, <2>3 DEF Asked, ReadAt, Behind, Underway, SentAt
  <2> QED
    BY <1>7, <2>2, <2>4, <2>5, <2>6 DEF Pending, P, D
<1>9. ASSUME NEW h \in DOMAIN handlers, DescriptionDataUpdate(h) PROVE ToldOf(uc, q)'
  <2>1. PICK t \in Seq(MessageType) :
           /\ outbox' = outbox \o t /\ Behind(t)
           /\ \A r \in ValuesNeeded(h.useCase) : DescOf[r] \in h.parts /\ r \in entity.readable =>
                \E k \in DOMAIN t : ReadAt(t, r, k)
    BY <1>9, TypeDescription
  <2>2. /\ UNCHANGED <<cache, inbox, view>> /\ h.parts \intersect ValueParts = {}
        /\ \A x \in DOMAIN handlers : x = h \/ x \in DOMAIN handlers'
    BY <1>9, HandledGone DEF DescriptionDataUpdate
  <2>3. Telling(uc, P) => Telling(uc, P)'
    BY <1>1, <1>4, <2>2 DEF Telling
  <2>4. (Asked(P) => Asked(P)') /\ (Underway(P) => Underway(P)')
    BY <2>1, <2>2 DEF Asked, ReadAt, Behind, Underway, SentAt
  <2>5. ASSUME Matches, Handling(uc, D) PROVE Handling(uc, D)' \/ Asked(P)'
    <3>1. PICK x \in DOMAIN handlers : x.useCase = uc /\ x.event = "data" /\ D \in x.parts
      BY <2>5 DEF Handling
    <3>2. CASE x # h
      BY <2>2, <3>1, <3>2 DEF Handling
    <3>3. CASE x = h
      <4>1. \E k \in DOMAIN t : ReadAt(t, P, k)
        BY <1>4, <1>5, <2>1, <2>5, <3>1, <3>3 DEF D
      <4> QED
        BY <2>1, <4>1, BehindAsks
    <3> QED
      BY <3>2, <3>3
  <2> QED
    BY <1>7, <2>2, <2>3, <2>4, <2>5 DEF Pending, P, D
<1>10. ASSUME NEW h \in DOMAIN handlers, DataUpdate(h) PROVE ToldOf(uc, q)'
  <2>1. Tell(h)
    BY <1>10, TellIs
  <2>2. /\ UNCHANGED <<cache, outbox, inbox>> /\ h.parts \subseteq ValueParts
        /\ \A x \in DOMAIN handlers : x = h \/ x \in DOMAIN handlers'
        /\ h.useCase \in UseCases
    BY <2>1 DEF Tell
  <2>3. (Asked(P) => Asked(P)') /\ (Underway(P) => Underway(P)')
    BY <2>2 DEF Asked, Underway, ReadAt, SentAt
  <2>4. Handling(uc, D) => Handling(uc, D)'
    BY <1>4, <2>2 DEF Handling
  <2>5. CASE q \in Told(h)
    <3>1. h.useCase = uc
      BY <1>2, <1>3, <2>1, <2>2, <2>5, OneUseCase DEF Tell
    <3>2. PICK p \in h.parts : ListOf(p) = ListOf(P)
      BY <1>2, <2>1, <2>5, <3>1 DEF Tell, P
    <3>3. Tells(q, DataOf(entity, cache), h.payload)
      BY <1>2, <2>1, <2>5, <3>1 DEF Tell
    <3>4. /\ h.parts \subseteq ListOf(P) /\ \A r \in h.parts : cache[r] # Nil
          /\ \A i \in h.payload : \E r \in h.parts : \E v \in 1..cache[r] : i \in entity.data[r][v]
      <4>1. Updating(h) /\ h.parts \subseteq ListOf(p)
        BY <2>1, TogetherFeature DEF Tell, Updating
      <4> QED
        BY <3>2, <4>1 DEF Updating
    <3>5. Matches
      BY <1>2, <1>3, <3>3, <3>4, ToldMatches DEF Matches, P
    <3>6. view'[q] = Read(q, DataOf(entity, cache))
      BY <1>6, <2>1, <2>5 DEF Tell
    <3> QED
      BY <1>1, <2>2, <3>5, <3>6 DEF ToldOf, Matches
  <2>6. CASE q \notin Told(h)
    <3>1. view'[q] = view[q]
      BY <1>6, <2>1, <2>6 DEF Tell
    <3>2. ASSUME Matches, Telling(uc, P) PROVE Telling(uc, P)'
      <4>1. PICK x \in DOMAIN handlers :
               x.useCase = uc /\ x.event = "data" /\ P \in x.parts /\ ItemsOf(entity, cache, P) \subseteq x.payload
        BY <3>2 DEF Telling
      <4>2. x # h
        <5>1. SUFFICES ASSUME x = h PROVE q \in Told(h)
          BY <2>6
        <5>2. Tells(q, DataOf(entity, cache), h.payload)
          BY <1>2, <1>3, <3>2, <4>1, <5>1, MatchTold DEF Matches, P
        <5> QED
          BY <1>2, <2>1, <4>1, <5>1, <5>2 DEF Tell, P
      <4> QED
        BY <1>1, <2>2, <4>1, <4>2 DEF Telling
    <3> QED
      BY <1>7, <2>2, <2>3, <2>4, <3>1, <3>2 DEF Pending, P, D
  <2> QED
    BY <2>5, <2>6
<1>11. ASSUME Receive PROVE ToldOf(uc, q)'
  <2>1. Arrived /\ TypeInv'
    BY <1>11, ReceiveIs, TypeReceive
  <2>2. /\ UNCHANGED <<outbox, view>> /\ VersionsOf(entity, cache') /\ 1 \in DOMAIN inbox
        /\ Together(DOMAIN inbox[1].data)
        /\ \A p \in Parts : cache[p] # Nil => cache'[p] # Nil /\ cache[p] <= cache'[p]
        /\ \A p \in Parts : ~SentAt(inbox, p, 1) => cache'[p] = cache[p]
    BY <1>1, <2>1 DEF Arrived, TypeInv, CacheInv, InboxInv
  <2> DEFINE after == cache'
             m == inbox[1]
  <2>3. Matches => Match(entity, q, after)
    BY <1>2, <1>3, <2>2, MatchGrows DEF Matches
  <2>4. ASSUME Match(entity, q, after)
        PROVE  /\ \A parts : Together(parts) /\ D \in parts => parts \subseteq Handled[uc] /\ parts # {"heartbeat"}
               /\ \A parts : Together(parts) /\ P \in parts => parts \subseteq Handled[uc] /\ parts # {"heartbeat"}
    <3>1. after[D] = 1
      BY <1>2, <1>3, <2>2, <2>4, TellsKnown DEF Match, D, P
    <3>2. FeatureOf(P) \in entity.features
      BY <1>4, <2>2, <3>1, NilIs DEF VersionsOf
    <3> QED
      BY <1>3, <1>4, <3>2, NeededIs DEF D
  <2>5. ASSUME Match(entity, q, after), SentAt(inbox, D, 1) PROVE Handling(uc, D)'
    <3>1. Event(uc, m) \in DOMAIN handlers'
      BY <1>2, <2>1, <2>2, <2>4, <2>5, Informed1 DEF SentAt
    <3> QED
      BY <2>5, <3>1 DEF Handling, Event, SentAt
  <2>6. ASSUME Match(entity, q, after), SentAt(inbox, P, 1) PROVE Telling(uc, P)'
    <3>1. Event(uc, m) \in DOMAIN handlers'
      BY <1>2, <2>1, <2>2, <2>4, <2>6, Informed1 DEF SentAt
    <3>2. ItemsOf(entity, after, P) = ItemsOf(entity, m.data, P)
      <4>1. after[P] = m.data[P]
        BY <1>4, <2>1, <2>6 DEF Arrived
      <4> QED
        BY <4>1 DEF ItemsOf
    <3>3. /\ Event(uc, m).useCase = uc /\ Event(uc, m).event = "data" /\ P \in Event(uc, m).parts
          /\ ItemsOf(entity, m.data, P) \subseteq Event(uc, m).payload
      BY <2>6 DEF Event, SentAt
    <3> QED
      BY <1>1, <3>1, <3>2, <3>3 DEF Telling
  <2>7. ASSUME Match(entity, q, after), ~SentAt(inbox, D, 1), ~SentAt(inbox, P, 1)
        PROVE  view[q] = Read(q, DataOf(entity, after)) \/ Pending(uc, q)'
    <3>1. cache[D] = after[D] /\ cache[P] = after[P]
      BY <1>4, <2>2, <2>7
    <3>2. Matches
      BY <1>2, <1>3, <2>2, <2>7, <3>1, MatchOwn DEF Matches, D, P
    <3>3. CASE view[q] = Read(q, DataOf(entity, cache))
      <4>1. ASSUME q \in Directed, "ElectricalConnection" \in entity.features, NEW p \in {"ecDescs", "ecParams"}
            PROVE  cache[p] = after[p]
        <5>1. D = "mDescs"
          BY <4>1, ValuesAre DEF D, P, DescOf, ValuePart, Directed, Heartbeats
        <5>2. cache["mDescs"] # Nil
          BY <1>5, <3>2, <5>1, NilIs
        <5>3. cache[p] = 1 /\ p \notin ValueParts /\ p \in Parts
          BY <1>2, <4>1, <5>2, DirectedKnown
        <5> QED
          BY <2>2, <5>3, NilIs DEF VersionsOf
      <4>2. Read(q, DataOf(entity, cache)) = Read(q, DataOf(entity, after))
        BY <1>2, <1>3, <2>2, <3>1, <4>1, ReadDepends DEF D, P
      <4> QED
        BY <3>3, <4>2
    <3>4. CASE Pending(uc, q)
      <4>1. Telling(uc, P) => Telling(uc, P)'
        <5>1. ItemsOf(entity, after, P) = ItemsOf(entity, cache, P)
          BY <3>1 DEF ItemsOf
        <5> QED
          BY <1>1, <2>1, <5>1 DEF Telling, Arrived
      <4>2. Handling(uc, D) => Handling(uc, D)'
        BY <2>1 DEF Handling, Arrived
      <4>3. (Asked(P) => Asked(P)') /\ (Underway(P) => Underway(P)')
        BY <1>4, <2>1, <2>7, ReceiveMoves
      <4> QED
        BY <3>4, <4>1, <4>2, <4>3 DEF Pending, P, D
    <3> QED
      BY <1>2, <3>2, <3>3, <3>4 DEF ToldOf, Matches
  <2>8. view[q] # Nil => Matches
    BY <1>2 DEF ToldOf, Matches
  <2>9. Telling(uc, P)' \/ Handling(uc, D)' => Pending(uc, q)'
    BY DEF Pending, P, D
  <2> QED
    BY <1>1, <2>2, <2>3, <2>5, <2>6, <2>7, <2>8, <2>9 DEF ToldOf
<1>12. ASSUME RemoteAnswers PROVE ToldOf(uc, q)'
  <2>1. Answered
    BY <1>12, TypeAnswer
  <2>2. (Asked(P) => Asked(P)' \/ Underway(P)') /\ (Underway(P) => Underway(P)')
    BY <2>1, AnswerMoves
  <2>3. UNCHANGED <<cache, handlers, view>>
    BY <2>1 DEF Answered
  <2>4. (Telling(uc, P) => Telling(uc, P)') /\ (Handling(uc, D) => Handling(uc, D)')
    BY <1>1, <2>3 DEF Telling, Handling
  <2> QED
    BY <1>7, <2>2, <2>3, <2>4 DEF Pending, P, D
<1>13. ASSUME NEW part \in entity.changing, RemoteChanges(part) PROVE ToldOf(uc, q)'
  <2>1. Changed(part)
    BY <1>13, TypeChange
  <2>2. UNCHANGED <<cache, outbox, handlers, view>>
    BY <2>1 DEF Changed
  <2>3. Underway(P) => Underway(P)'
    BY <2>1, ChangeMoves
  <2>4. /\ Telling(uc, P) => Telling(uc, P)'
        /\ Handling(uc, D) => Handling(uc, D)'
        /\ Asked(P) => Asked(P)'
    BY <1>1, <2>2 DEF Telling, Handling, Asked, ReadAt
  <2> QED
    BY <1>7, <2>2, <2>3, <2>4 DEF Pending, P, D
<1>14. ASSUME UNCHANGED vars PROVE ToldOf(uc, q)'
  BY <1>7, <1>14 DEF vars, Pending, Telling, Handling, Asked, Underway, ReadAt, SentAt
<1> QED
  BY <1>8, <1>9, <1>10, <1>11, <1>12, <1>13, <1>14 DEF Next, Handle

-----------------------------------------------------------------------------
(* The application is informed.                                            *)

\* The parts of a value that are known when nothing is on its way are the last ones.
LEMMA QuietKnown ==
    ASSUME TypeInv, KnownInv, Quiet, NEW uc \in entity.useCases, NEW p \in ValuesNeeded(uc),
           FeatureOf(p) \in entity.features
    PROVE  cache[DescOf[p]] = 1 /\ version[DescOf[p]] = 1 /\ cache[p] = version[p]
<1> DEFINE D == DescOf[p]
<1>1. D \in Parts /\ D \notin ValueParts
  BY NeededIs
<1>2. DOMAIN outbox = {} /\ DOMAIN inbox = {} /\ DOMAIN handlers = {}
  BY DEF Quiet, EmptyBag, SetToBag
<1>3. ~Before(uc, D) /\ ~Handling(uc, D) /\ ~Asked(p) /\ ~LastUnderway(p)
  BY <1>2 DEF Before, WillAsk, Handling, Asked, Underway, LastUnderway
<1>4. Known(uc, p)
  BY DEF KnownInv
<1>5. cache[D] # Nil /\ cache[p] = version[p]
  BY <1>3, <1>4 DEF Known
<1> HIDE DEF D
<1>6. cache[D] = 1 /\ version[D] = 1
  BY <1>1, <1>5 DEF TypeInv, CacheInv, VersionInv, VersionsOf
<1> QED
  BY <1>5, <1>6 DEF D

\* When everything is handled, the application has read the last of each value, or
\* there is nothing to read.
LEMMA QuietRead ==
    ASSUME Inductive, Quiet, NEW uc \in entity.useCases, NEW q \in Values[uc] \ Heartbeats
    PROVE  Current(q)
<1> DEFINE P == ValuePart(q)
           D == DescOf[P]
           now == Read(q, DataOf(entity, version))
<1> USE DEF Inductive
<1>1. entity \in Entities /\ VersionsOf(entity, cache) /\ VersionsOf(entity, version) /\ uc \in UseCases
  BY EntityIs DEF TypeInv, VersionInv, CacheInv
<1>2. P \in ValuesNeeded(uc) /\ P \in Parts /\ D \in Parts /\ FeatureOf(D) = FeatureOf(P)
  BY <1>1, QuantityIs
<1>3. ToldOf(uc, q)
  BY DEF ToldInv
<1>4. SUFFICES view[q] = now \/ (view[q] = Nil /\ NothingToRead(q, now))
  BY EntityDataIs DEF Current
<1>5. ~Pending(uc, q)
  BY DEF Quiet, EmptyBag, SetToBag, Pending, Telling, Underway, Asked, Handling
<1> HIDE DEF P, D, now
<1>6. CASE FeatureOf(P) \in entity.features
  <2>1. cache[D] = 1 /\ version[D] = 1 /\ cache[P] = version[P]
    BY <1>2, <1>6, QuietKnown DEF D
  <2>2. ASSUME q \in Directed, "ElectricalConnection" \in entity.features
        PROVE  cache["ecDescs"] = version["ecDescs"] /\ cache["ecParams"] = version["ecParams"]
    <3>1. D = "mDescs"
      BY <2>2, ValuesAre DEF D, P, DescOf, ValuePart, Directed, Heartbeats
    <3>2. cache["mDescs"] # Nil
      BY <2>1, <3>1, NilIs
    <3> QED
      BY <2>2, <3>2, DirectedKnown
  <2>3. now = Read(q, DataOf(entity, cache))
    BY <1>1, <2>1, <2>2, ReadDepends DEF now, D, P
  <2>4. CASE Match(entity, q, cache)
    BY <1>3, <1>5, <2>3, <2>4 DEF ToldOf
  <2>5. CASE ~Match(entity, q, cache)
    <3>1. view[q] = Nil
      BY <1>3, <2>5 DEF ToldOf
    <3>2. NothingToRead(q, Read(q, DataOf(entity, cache)))
      BY <1>1, <2>5, ReadSound
    <3> QED
      BY <2>3, <3>1, <3>2
  <2> QED
    BY <2>4, <2>5
<1>7. CASE FeatureOf(P) \notin entity.features
  <2>1. cache[D] = Nil /\ version[D] = Nil
    BY <1>1, <1>2, <1>7 DEF VersionsOf
  <2>2. ~Match(entity, q, cache)
    BY <1>1, <2>1, NilIs, TellsKnown DEF Match, D, P
  <2>3. now.error # Nil
    BY <1>1, <2>1, NilIs, ReadSound DEF now, D, P
  <2> QED
    BY <1>3, <2>2, <2>3 DEF ToldOf, NothingToRead
<1> QED
  BY <1>6, <1>7

\* When everything is handled, the application has read the last heartbeat, if one was
\* notified.
LEMMA QuietBeat ==
    ASSUME Inductive, Quiet, NEW uc \in entity.useCases, NEW q \in Values[uc] \intersect Heartbeats
    PROVE  Current(q)
<1> DEFINE b == "heartbeat"
<1> USE DEF Inductive
<1>1. entity \in Entities /\ q \in DOMAIN view
  BY DEF TypeInv, VersionInv, ViewInv, ValuesOf
<1>2. CASE view[q] = Nil
  BY <1>2, Zenon DEF Current
<1>3. CASE view[q] # Nil
  <2>1. ~LastBeat /\ ~Beating /\ ~Handling(uc, b)
    BY DEF Quiet, EmptyBag, SetToBag, LastBeat, Beating, Handling
  <2>2. Notified
    BY <1>1, <1>3 DEF Notified
  <2>3. cache[b] = version[b] /\ cache[b] # Nil /\ view[q] = Ok(cache[b])
    BY <1>3, <2>1, <2>2 DEF HeartbeatInv
  <2>4. Read(q, DataOf(entity, version)) = Ok(version[b])
    <3>1. DataOf(entity, version).dd = version[b]
      BY <1>1, DataIs
    <3>2. \A E : Read(q, E) = IF E.dd = Nil THEN NotAvailable ELSE Ok(E.dd)
      BY ReadIs
    <3> QED
      BY <2>3, <3>1, <3>2
  <2>5. view[q] = Read(q, EntityData(version))
    BY <2>3, <2>4, EntityDataIs
  <2> QED
    BY <2>5, Zenon DEF Current
<1> QED
  BY <1>2, <1>3

\* The invariant holds at first and is kept by every step.
LEMMA InductiveHolds == Spec => []Inductive
<1>1. Init => Inductive
  BY TypeInit, ViewInit, DirectionInit, KnownInit, ToldInit, HeartbeatInit DEF Inductive
<1>2. Inductive /\ [Next]_vars => Inductive'
  BY TypeStep, ViewStep, DirectionStep, KnownStep, ToldStep, HeartbeatStep DEF Inductive
<1> QED
  BY <1>1, <1>2, PTL DEF Spec

\* When everything is handled, the application has read the last value of each
\* quantity, whatever changed before, between and after the requests, and whichever
\* use cases share the data (HandleEvent of mgcp, vabd, vapd, eg/lpc and eg/lpp).
THEOREM InformedHolds == Spec => []Informed
<1>1. Inductive => Informed
  <2> SUFFICES ASSUME Inductive, Quiet, NEW q \in DOMAIN view
               PROVE  Current(q)
    BY DEF Informed
  <2>1. PICK uc \in entity.useCases : q \in Values[uc]
    BY DEF Inductive, ViewInv, ValuesOf
  <2>2. CASE q \in Heartbeats
    BY <2>1, <2>2, QuietBeat
  <2>3. CASE q \notin Heartbeats
    BY <2>1, <2>3, QuietRead
  <2> QED
    BY <2>2, <2>3
<1> QED
  BY <1>1, InductiveHolds, PTL

=============================================================================
