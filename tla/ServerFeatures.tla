---------------------------- MODULE ServerFeatures ----------------------------
(***************************************************************************)
(* features/server: identifiers for new descriptions and updates of data   *)
(* by identifier or filter, as functions from the feature before the call  *)
(* to the feature after it.  A call that returns an error leaves the       *)
(* feature as it is.                                                       *)
(***************************************************************************)
EXTENDS FeatureData

-----------------------------------------------------------------------------
(* SPINE (external): a partial update merges the fields that are set into  *)
(* the item with the same identifier; a delete filter comes before it and  *)
(* removes the elements it names, or the whole item when it names none.    *)

Merge(old, new) == [f \in DOMAIN old |-> IF new[f] = Nil THEN old[f] ELSE new[f]]

SameItem(a, b, keys) == \A k \in keys : a[k] = b[k]

UpdateData(list, items, keys) ==
    {IF \E new \in items : SameItem(old, new, keys)
     THEN Merge(old, CHOOSE new \in items : SameItem(old, new, keys))
     ELSE old : old \in list}
    \union {new \in items : \A old \in list : ~SameItem(old, new, keys)}

NoDeletion == [selector |-> Nil, elements |-> {}]

Deleted(list, filter) ==
    IF filter.selector = Nil THEN list
    ELSE LET hit == SearchFilterInList(list, filter.selector)
         IN (list \ hit) \union
            {[f \in DOMAIN i |-> IF f \in filter.elements THEN Nil ELSE i[f]] :
                i \in {h \in hit : filter.elements # {}}}

-----------------------------------------------------------------------------
(* What the server features share *)

NextId(list, key) ==
    LET ids == {0} \union {item[key] + 1 : item \in list}
    IN CHOOSE n \in ids : \A m \in ids : m <= n

AddDescription(f, description, key) ==
    [f EXCEPT !.descs = UpdateData(@, {[description EXCEPT ![key] = NextId(f.descs, key)]}, {key})]

\* Every entry of an update must match exactly one description: the update
\* is all or nothing.
EachMatchesOne(descs, entries) ==
    \A e \in entries : Cardinality(SearchFilterInList(descs, e.filter)) = 1

\* Mutant: the identifier of the description is not put into the data.
UpdateDataForFiltersRaw(f, entries, key, deletion) ==
    IF ~EachMatchesOne(f.descs, entries) THEN f
    ELSE [f EXCEPT !.data = UpdateData(Deleted(@, deletion), {e.data : e \in entries}, {key})]

UpdateDataForFilters(f, entries, key, deletion) ==
    IF ~EachMatchesOne(f.descs, entries) THEN f
    ELSE [f EXCEPT !.data =
             UpdateData(Deleted(@, deletion),
                        {[e.data EXCEPT ![key] = First(SearchFilterInList(f.descs, e.filter), key)[key]] :
                            e \in entries},
                        {key})]

-----------------------------------------------------------------------------
(* LoadControl *)

AddLimitDescription(lc, description) ==
    IF description.limitId # Nil THEN lc ELSE AddDescription(lc, description, "limitId")

UpdateLimitDataForFilters(lc, entries, deletion) ==
    UpdateDataForFilters(lc, entries, "limitId", deletion)

UpdateLimitDataForIds(lc, entries) ==
    UpdateLimitDataForFilters(lc, {[data |-> e.data, filter |-> [limitId |-> e.id]] : e \in entries},
                              NoDeletion)

-----------------------------------------------------------------------------
(* DeviceConfiguration *)

AddKeyValueDescription(dc, description) == AddDescription(dc, description, "keyId")

\* No use case gives elements to delete here.
UpdateKeyValueDataForFilter(dc, data, filter) ==
    UpdateDataForFilters(dc, {[data |-> data, filter |-> filter]}, "keyId", NoDeletion)

-----------------------------------------------------------------------------
(* ElectricalConnection *)

CharacteristicKeys == {"electricalConnectionId", "parameterId", "characteristicId"}

AddCharacteristic(ec, characteristic) ==
    IF characteristic.characteristicId # Nil THEN ec
    ELSE [ec EXCEPT !.chars =
             UpdateData(@, {[characteristic EXCEPT !.characteristicId = NextId(ec.chars, "characteristicId")]},
                        CharacteristicKeys)]

UpdateCharacteristic(ec, characteristic) ==
    LET filter == [k \in CharacteristicKeys |-> characteristic[k]]
    IN IF Cardinality(GetCharacteristicsForFilter(ec, filter)) # 1 THEN ec
       ELSE [ec EXCEPT !.chars = UpdateData(@, {characteristic}, CharacteristicKeys)]

=============================================================================
