----------------------------- MODULE FeatureData -----------------------------
(***************************************************************************)
(* How features/internal reads the data of a SPINE feature, local or       *)
(* remote.  A list is a set of items, an item a record in which Nil stands *)
(* for a field that is not set.  Items of a list are told apart by the     *)
(* fields that identify them and SPINE keeps the list sorted by these, so  *)
(* the first item is the one with the least identifier.  A filter is a     *)
(* record of the fields that are set in it.  A feature is a record of its  *)
(* lists: descriptions in descs, values in data.                           *)
(***************************************************************************)
EXTENDS Naturals, Sequences, FiniteSets

CONSTANT Nil

SearchFilterInItem(item, filter) == \A f \in DOMAIN filter : item[f] = filter[f]

SearchFilterInList(list, filter) ==
    {item \in list : SearchFilterInItem(item, filter)}

First(list, key) ==
    CHOOSE item \in list : \A other \in list : item[key] <= other[key]

-----------------------------------------------------------------------------
(* LoadControl *)

GetLimitDescriptionsForFilter(lc, filter) == SearchFilterInList(lc.descs, filter)

GetLimitDataForFilter(lc, filter) ==
    UNION {SearchFilterInList(lc.data, [limitId |-> d.limitId]) :
              d \in GetLimitDescriptionsForFilter(lc, filter)}

GetLimitDataForId(lc, limitId) == GetLimitDataForFilter(lc, [limitId |-> limitId])

\* Mutant: only the first limit of the payload is looked at.
LimitPayloadMatchesFirst(lc, payload, filter) ==
    \E d \in GetLimitDescriptionsForFilter(lc, filter) :
        First(payload, "limitId").limitId = d.limitId /\ First(payload, "limitId").value # Nil

LimitPayloadMatches(lc, payload, filter) ==
    \E d \in GetLimitDescriptionsForFilter(lc, filter), item \in payload :
        item.limitId = d.limitId /\ item.value # Nil

-----------------------------------------------------------------------------
(* DeviceConfiguration *)

GetKeyValueDescriptionsForFilter(dc, filter) == SearchFilterInList(dc.descs, filter)

\* Only the first description counts when several match.
GetKeyValueDataForFilter(dc, filter) ==
    LET found == GetKeyValueDescriptionsForFilter(dc, filter)
    IN IF found = {} THEN {}
       ELSE SearchFilterInList(dc.data, [keyId |-> First(found, "keyId").keyId])

\* && binds tighter than ||: an item with a value matches whatever its key is.
KeyPayloadMatches(dc, payload, filter) ==
    \E d \in GetKeyValueDescriptionsForFilter(dc, filter), item \in payload :
        item.keyId = d.keyId \/ item.value # Nil

-----------------------------------------------------------------------------
(* Measurement *)

GetDescriptionsForFilter(m, filter) == SearchFilterInList(m.descs, filter)

GetDataForFilter(m, filter) ==
    UNION {SearchFilterInList(m.data, [measurementId |-> d.measurementId]) :
              d \in GetDescriptionsForFilter(m, filter)}

MeasurementPayloadMatches(m, payload, filter) ==
    \E d \in GetDescriptionsForFilter(m, filter), item \in payload :
        item.measurementId = d.measurementId /\ item.value # Nil

-----------------------------------------------------------------------------
(* ElectricalConnection: descs are the connections, params the parameter   *)
(* descriptions, chars the characteristics, permitted the permitted values.*)

GetParameterDescriptionsForFilter(ec, filter) == SearchFilterInList(ec.params, filter)

\* Parameters are identified by their connection and their number in it.
FirstParameter(params) ==
    CHOOSE p \in params : \A q \in params :
        \/ p.electricalConnectionId < q.electricalConnectionId
        \/ /\ p.electricalConnectionId = q.electricalConnectionId
           /\ p.parameterId <= q.parameterId

\* At most one connection: that of the first parameter that matches.
GetDescriptionForParameterDescriptionFilter(ec, filter) ==
    LET found == GetParameterDescriptionsForFilter(ec, filter)
    IN {d \in ec.descs : /\ found # {}
                         /\ d.electricalConnectionId = FirstParameter(found).electricalConnectionId}

GetCharacteristicsForFilter(ec, filter) == SearchFilterInList(ec.chars, filter)

=============================================================================
