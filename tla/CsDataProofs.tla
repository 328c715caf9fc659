----------------------------- MODULE CsDataProofs -----------------------------
(***************************************************************************)
(* Proofs about the values of the controllable system, for every set of    *)
(* limits, powers and durations: types and identifiers, that the shared    *)
(* features act as the registers of NamedValues, and that the application  *)
(* is told of every change.                                                *)
(***************************************************************************)
EXTENDS CsData, FiniteSetTheorems, WellFoundedInduction, TLAPS

-----------------------------------------------------------------------------
(* How the features store the values: N is what the descriptions of a      *)
(* feature are for, D what there is data for.                              *)

Values(S, f) == {f[n] : n \in S}

Holds(f, key, N, D, desc, item) ==
    /\ D \subseteq N
    /\ \A n \in N : desc[n][key] \in Nat
    /\ \A a, b \in N : desc[a][key] = desc[b][key] => a = b
    /\ \A n \in D : item[n][key] = desc[n][key]
    /\ f = [descs |-> Values(N, desc), data |-> Values(D, item)]

\* A filter for an identifier, the only item a filter finds, an item that
\* gets its identifier, and an update with one entry.
ById(filter, key, id) == DOMAIN filter = {key} /\ filter[key] = id
Finds(list, filter, x) == SearchFilterInList(list, filter) = {x}
Numbered(new, data, key, id) == new = [data EXCEPT ![key] = id] /\ new[key] = id
UpdateOne(f, data, filter, key, deletion) ==
    UpdateDataForFilters(f, {[data |-> data, filter |-> filter]}, key, deletion)
\* What a deletion leaves of the data, and what an update of n makes of it.
Keeps(f, key, N, D, desc, item, deletion, kept) ==
    /\ Holds(f, key, N, D, desc, item)
    /\ Deleted(f.data, deletion) = Values(D, kept)
    /\ \A m \in D : key \in DOMAIN kept[m] /\ kept[m][key] = desc[m][key]
Sets(key, D, desc, kept, n, data, after) ==
    \E new : /\ Numbered(new, data, key, desc[n][key])
             /\ \A m \in D \ {n} : after[m] = kept[m]
             /\ after[n] = IF n \in D THEN Merge(kept[n], new) ELSE new
DataWritten(f, items, key) == [f EXCEPT !.data = UpdateData(@, items, {key})]
Few(N) == \E a, b, c : N \subseteq {a, b, c}

LimitDescription(uc) ==
    [limitId : Nat, limitDirection : {LimitDirection(uc)}, scopeType : {"activePowerLimit"}]
StoredLimit == [limitId : Nat, value : Nat, isLimitActive : BOOLEAN,
                isLimitChangeable : BOOLEAN, timePeriod : Nat \union {Nil}]

LimitsAre(lc, N, D, desc, item) ==
    /\ N \subseteq UseCases
    /\ \A uc \in N : desc[uc] \in LimitDescription(uc)
    /\ \A uc \in D : item[uc] \in StoredLimit
    /\ Holds(lc, "limitId", N, D, desc, item)

KeyDescription(k) == [keyId : Nat, keyName : {k}]
StoredKey == [keyId : Nat, value : Nat, isValueChangeable : BOOLEAN]

KeysAre(dc, N, D, desc, item) ==
    /\ N \subseteq FailsafeKeys
    /\ \A k \in N : desc[k] \in KeyDescription(k)
    /\ \A k \in D : item[k] \in StoredKey
    /\ Holds(dc, "keyId", N, D, desc, item)

StoredCharacteristic(uc) ==
    [electricalConnectionId : {0}, parameterId : {0}, characteristicId : Nat,
     characteristicType : {CharacteristicType(uc)}, value : Nat \union {Nil}]

CharacteristicsAre(ec, N, char) ==
    /\ N \subseteq UseCases
    /\ \A uc \in N : char[uc] \in StoredCharacteristic(uc)
    /\ \A a, b \in N : char[a].characteristicId = char[b].characteristicId => a = b
    /\ ec = [chars |-> Values(N, char)]

KeySetTo(dc, N, D, desc, item, k, value, changeable) ==
    \E i : /\ KeysAre(dc, N, D \union {k}, desc, i)
           /\ \A m \in D \ {k} : i[m] = item[m]
           /\ i[k].value = value /\ i[k].isValueChangeable = changeable

\* What a use case starts with.
IsInitialLimit(i) == /\ i.value = 0 /\ i.isLimitActive = FALSE
                     /\ i.isLimitChangeable = TRUE /\ i.timePeriod = Nil
WithInitialLimit(lc, N, uc, item) ==
    \E d, i : /\ LimitsAre(lc, N \union {uc}, N \union {uc}, d, i)
              /\ \A m \in N : i[m] = item[m]
              /\ IsInitialLimit(i[uc])
IsInitialKey(i) == i.value = 0 /\ i.isValueChangeable = TRUE

\* The failsafe keys of the use cases that were added.
KeysOf(ucs) == {FailsafeKey(uc) : uc \in ucs} \union IF ucs = {} THEN {} ELSE {DurationKey}

-----------------------------------------------------------------------------
(* Operators of the features.                                              *)

\* Use cases have different directions, failsafe keys and characteristics.
LEMMA Names ==
    /\ \A a, b \in UseCases : LimitDirection(a) = LimitDirection(b) => a = b
    /\ \A a, b \in UseCases : FailsafeKey(a) = FailsafeKey(b) => a = b
    /\ \A a, b \in UseCases : CharacteristicType(a) = CharacteristicType(b) => a = b
    /\ \A uc \in UseCases : FailsafeKey(uc) \in FailsafeKeys /\ FailsafeKey(uc) # DurationKey
    /\ DurationKey \in FailsafeKeys
BY DEF UseCases, LimitDirection, FailsafeKey, CharacteristicType, FailsafeKeys, DurationKey

\* A new identifier is greater than all there are.
LEMMA NextIdFresh ==
    ASSUME NEW list, NEW key, NEW bound \in Nat,
           \A item \in list : item[key] \in Nat /\ item[key] <= bound
    PROVE  NextId(list, key) \in Nat /\ \A item \in list : item[key] < NextId(list, key)
<1> DEFINE ids == {0} \union {item[key] + 1 : item \in list}
           above == {n \in Nat : \A m \in ids : m <= n}
<1>1. ids \subseteq Nat /\ 0 \in ids /\ \A m \in ids : m <= bound + 1
  OBVIOUS
<1>2. \A item \in list : item[key] + 1 \in ids
  OBVIOUS
<1>3. NextId(list, key) = CHOOSE n \in ids : \A m \in ids : m <= n
  BY DEF NextId
<1> HIDE DEF ids
<1>4. bound + 1 \in above
  BY <1>1
<1>5. \E n \in above : \A m \in above : n <= m
  <2> DEFINE R == OpToRel(<, Nat)
  <2>1. IsWellFoundedOn(R, Nat)
    BY NatLessThanWellFounded
  <2>2. \A x, y \in Nat : x < y => <<x, y>> \in R
    BY DEF OpToRel
  <2> HIDE DEF R
  <2>3. above \subseteq Nat /\ above # {}
    BY <1>4
  <2> HIDE DEF above
  <2>4. PICK n \in above : \A m \in above : ~(<<m, n>> \in R)
    BY <2>1, <2>3, WFMin, Zenon
  <2>5. \A m \in above : ~(m < n)
    BY <2>2, <2>3, <2>4
  <2> QED
    BY <2>3, <2>4, <2>5
<1>6. PICK n \in above : \A m \in above : n <= m
  BY <1>5
<1>7. n \in ids
  <2> SUFFICES ASSUME n \notin ids PROVE FALSE
    OBVIOUS
  <2>1. n \in Nat /\ \A m \in ids : m <= n /\ m # n
    BY <1>6
  <2>2. n # 0
    BY <1>1, <2>1
  <2>3. n - 1 \in Nat /\ \A m \in ids : m <= n - 1
    BY <1>1, <2>1, <2>2
  <2>4. n <= n - 1
    BY <1>6, <2>3
  <2> QED
    BY <2>1, <2>4
<1>8. \E m \in ids : \A k \in ids : k <= m
  BY <1>6, <1>7
<1>9. NextId(list, key) \in ids /\ \A m \in ids : m <= NextId(list, key)
  BY <1>3, <1>8
<1>10. ASSUME NEW item \in list PROVE item[key] < NextId(list, key)
  <2>1. item[key] + 1 \in ids /\ item[key] \in Nat
    BY <1>2
  <2>2. item[key] + 1 <= NextId(list, key) /\ NextId(list, key) \in Nat
    BY <1>1, <1>9, <2>1
  <2> QED
    BY ONLY <2>1, <2>2
<1> QED
  BY <1>1, <1>9, <1>10

\* An update changes the items it has new data for, and adds those not there.
LEMMA Updated ==
    ASSUME NEW N, NEW M, NEW old, NEW new, NEW keys,
           \A n \in N, m \in M : SameItem(old[n], new[m], keys) <=> n = m,
           NEW result,
           \A n \in N \union M : result[n] = IF n \notin N THEN new[n]
                                           ELSE IF n \in M THEN Merge(old[n], new[n]) ELSE old[n]
    PROVE  UpdateData(Values(N, old), Values(M, new), keys) = Values(N \union M, result)
<1> DEFINE list == Values(N, old)
           items == Values(M, new)
           Up(o) == IF \E x \in items : SameItem(o, x, keys)
                    THEN Merge(o, CHOOSE x \in items : SameItem(o, x, keys)) ELSE o
           rest == {x \in items : \A o \in list : ~SameItem(o, x, keys)}
<1>1. UpdateData(list, items, keys) = {Up(o) : o \in list} \union rest
  BY DEF UpdateData
<1>2. ASSUME NEW n \in N PROVE Up(old[n]) = result[n]
  <2>1. CASE n \in M
    <3>1. \A x \in items : SameItem(old[n], x, keys) => x = new[n]
      BY DEF Values
    <3>2. new[n] \in items /\ SameItem(old[n], new[n], keys)
      BY <2>1 DEF Values
    <3> HIDE DEF items
    <3>3. (CHOOSE x \in items : SameItem(old[n], x, keys)) = new[n]
      BY <3>1, <3>2
    <3> QED
      BY <2>1, <3>2, <3>3
  <2>2. CASE n \notin M
    BY <2>2 DEF Values
  <2> QED
    BY <2>1, <2>2
<1>3. \A x : x \in rest <=> \E m \in M \ N : x = result[m]
  BY DEF Values
<1> HIDE DEF Up, rest
<1>4. \A x : x \in {Up(o) : o \in list} <=> \E n \in N : x = Up(old[n])
  BY DEF Values
<1>5. \A x : x \in {Up(o) : o \in list} <=> \E n \in N : x = result[n]
  BY <1>2, <1>4
<1>6. \A x : x \in UpdateData(list, items, keys) <=> \E n \in N \union M : x = result[n]
  BY <1>1, <1>3, <1>5
<1>7. \A x : x \in Values(N \union M, result) <=> \E n \in N \union M : x = result[n]
  BY DEF Values
<1> QED
  BY <1>6, <1>7

\* Up to three identifiers have a bound.
LEMMA Bounded ==
    ASSUME NEW N, Few(N), NEW desc, NEW key,
           \A n \in N : desc[n][key] \in Nat
    PROVE  \E bound \in Nat : \A item \in Values(N, desc) : item[key] \in Nat /\ item[key] <= bound
<1>0. PICK a, b, c : N \subseteq {a, b, c}
  BY DEF Few
<1> DEFINE Id(n) == IF n \in N THEN desc[n][key] ELSE 0
<1>1. Id(a) \in Nat /\ Id(b) \in Nat /\ Id(c) \in Nat
  OBVIOUS
<1>2. \A n \in N : desc[n][key] = Id(n) /\ n \in {a, b, c}
  BY <1>0
<1> HIDE DEF Id
<1>3. ASSUME NEW n \in N PROVE desc[n][key] \in Nat /\ desc[n][key] <= Id(a) + Id(b) + Id(c)
  <2>1. Id(n) = Id(a) \/ Id(n) = Id(b) \/ Id(n) = Id(c)
    BY <1>2
  <2>2. Id(n) <= Id(a) + Id(b) + Id(c)
    BY ONLY <1>1, <2>1
  <2> QED
    BY <1>2, <2>2
<1>4. Id(a) + Id(b) + Id(c) \in Nat
  BY ONLY <1>1
<1> QED
  BY <1>3, <1>4 DEF Values

\* The data of a feature, found by the identifier of a description.
LEMMA FoundById ==
    ASSUME NEW f, NEW key, NEW N, NEW D, NEW desc, NEW item, Holds(f, key, N, D, desc, item),
           NEW n \in N, NEW filter, ById(filter, key, desc[n][key])
    PROVE  /\ Finds(f.descs, filter, desc[n])
           /\ n \in D => Finds(f.data, filter, item[n])
<1>1. f.descs = Values(N, desc) /\ f.data = Values(D, item) /\ D \subseteq N
  BY DEF Holds
<1>2. \A i : SearchFilterInItem(i, filter) <=> i[key] = desc[n][key]
  BY DEF SearchFilterInItem, ById
<1>3. \A m \in N : desc[m][key] = desc[n][key] <=> m = n
  BY DEF Holds
<1>4. \A m \in D : item[m][key] = desc[n][key] <=> m = n
  BY <1>1, <1>3 DEF Holds
<1>5. Finds(f.descs, filter, desc[n])
  BY <1>1, <1>2, <1>3 DEF Finds, SearchFilterInList, Values
<1>6. n \in D => Finds(f.data, filter, item[n])
  BY <1>1, <1>2, <1>4 DEF Finds, SearchFilterInList, Values
<1> QED
  BY <1>5, <1>6

\* A description is added under a new identifier.
LEMMA DescriptionAdded ==
    ASSUME NEW f, NEW key, NEW N, NEW D, NEW desc, NEW item, Holds(f, key, N, D, desc, item),
           Few(N), NEW n, n \notin N, NEW description,
           NEW new, Numbered(new, description, key, NextId(f.descs, key)),
           NEW after, \A m \in N : after[m] = desc[m], after[n] = new
    PROVE  /\ NextId(f.descs, key) \in Nat
           /\ Holds(AddDescription(f, description, key), key, N \union {n}, D, after, item)
<1> DEFINE id == NextId(f.descs, key)
<1>1. f.descs = Values(N, desc) /\ f.data = Values(D, item) /\ D \subseteq N
      /\ f = [descs |-> Values(N, desc), data |-> Values(D, item)]
  BY DEF Holds
<1>2. id \in Nat /\ \A i \in f.descs : i[key] < id
  <2>1. \A m \in N : desc[m][key] \in Nat
    BY DEF Holds
  <2>2. \E bound \in Nat : \A i \in Values(N, desc) : i[key] \in Nat /\ i[key] <= bound
    BY <2>1, Bounded
  <2>3. PICK bound \in Nat : \A i \in Values(N, desc) : i[key] \in Nat /\ i[key] <= bound
    BY <2>2
  <2> QED
    BY <1>1, <2>3, NextIdFresh
<1> HIDE DEF id
<1>3. new[key] = id
  BY DEF id, Numbered
<1>4. ASSUME NEW m \in N PROVE desc[m][key] \in Nat /\ desc[m][key] # id
  <2>1. desc[m][key] \in Nat /\ desc[m] \in f.descs
    BY <1>1 DEF Holds, Values
  <2>2. desc[m][key] < id
    BY <1>2, <2>1
  <2> QED
    BY ONLY <1>2, <2>1, <2>2
<1> DEFINE one == [m \in {n} |-> new]
<1>5. Values({n}, one) = {new} /\ one[n] = new
  BY DEF Values
<1> HIDE DEF one
<1>6. \A m \in N, x \in {n} : SameItem(desc[m], one[x], {key}) <=> m = x
  BY <1>3, <1>4, <1>5 DEF SameItem
<1>7. \A m \in N \union {n} : after[m] = IF m \notin N THEN one[m]
                                        ELSE IF m \in {n} THEN Merge(desc[m], one[m]) ELSE desc[m]
  BY <1>5
<1>8. UpdateData(Values(N, desc), Values({n}, one), {key}) = Values(N \union {n}, after)
  BY ONLY <1>6, <1>7, Updated
<1>9. AddDescription(f, description, key) = [descs |-> Values(N \union {n}, after), data |-> Values(D, item)]
  <2>1. AddDescription(f, description, key)
          = [f EXCEPT !.descs = UpdateData(f.descs, {[description EXCEPT ![key] = NextId(f.descs, key)]}, {key})]
    BY DEF AddDescription
  <2>2. [description EXCEPT ![key] = NextId(f.descs, key)] = new
    BY DEF Numbered
  <2>3. UpdateData(f.descs, {[description EXCEPT ![key] = NextId(f.descs, key)]}, {key})
          = Values(N \union {n}, after)
    BY <1>1, <1>5, <1>8, <2>2
  <2> QED
    BY <1>1, <2>1, <2>3
<1>10. /\ \A m \in N \union {n} : after[m][key] \in Nat
       /\ \A x, y \in N \union {n} : after[x][key] = after[y][key] => x = y
       /\ \A m \in D : item[m][key] = after[m][key]
       /\ D \subseteq N \union {n}
  BY <1>1, <1>2, <1>3, <1>4 DEF Holds
<1>11. Holds(AddDescription(f, description, key), key, N \union {n}, D, after, item)
  BY <1>9, <1>10 DEF Holds
<1> QED
  BY <1>2, <1>11 DEF id

\* New data for what a feature has data for already.
LEMMA DataUpdated ==
    ASSUME NEW f, NEW key, NEW N, NEW D, NEW desc, NEW item, Holds(f, key, N, D, desc, item),
           NEW kept, \A m \in D : key \in DOMAIN kept[m] /\ kept[m][key] = desc[m][key],
           NEW M \in SUBSET N, NEW new, \A m \in M : new[m][key] = desc[m][key],
           NEW after,
           \A m \in D \union M : after[m] = IF m \notin D THEN new[m]
                                           ELSE IF m \in M THEN Merge(kept[m], new[m]) ELSE kept[m]
    PROVE  Holds([f EXCEPT !.data = UpdateData(Values(D, kept), Values(M, new), {key})],
                 key, N, D \union M, desc, after)
<1>1. f = [descs |-> Values(N, desc), data |-> Values(D, item)] /\ D \subseteq N
  BY DEF Holds
<1>2. \A m, n \in N : desc[m][key] = desc[n][key] => m = n
  BY DEF Holds
<1>3. \A m \in D, n \in M : SameItem(kept[m], new[n], {key}) <=> m = n
  BY <1>1, <1>2 DEF SameItem
<1>4. \A m \in D \union M : after[m] = IF m \notin D THEN new[m]
                                       ELSE IF m \in M THEN Merge(kept[m], new[m]) ELSE kept[m]
  OBVIOUS
<1>5. UpdateData(Values(D, kept), Values(M, new), {key}) = Values(D \union M, after)
  BY ONLY <1>3, <1>4, Updated
<1>6. ASSUME NEW m \in D \union M PROVE after[m][key] = desc[m][key]
  <2>1. CASE m \notin D
    BY <2>1
  <2>2. CASE m \in D /\ m \notin M
    BY <2>2
  <2>3. CASE m \in D /\ m \in M
    <3>1. after[m] = Merge(kept[m], new[m]) /\ key \in DOMAIN kept[m]
      BY <2>3
    <3> QED
      BY <2>3, <3>1 DEF Merge
  <2> QED
    BY <2>1, <2>2, <2>3
<1>7. [f EXCEPT !.data = UpdateData(Values(D, kept), Values(M, new), {key})]
        = [descs |-> Values(N, desc), data |-> Values(D \union M, after)]
  BY <1>1, <1>5
<1> QED
  BY <1>1, <1>6, <1>7 DEF Holds

\* An update for what a filter describes.
LEMMA FilterUpdated ==
    ASSUME NEW f, NEW key, NEW N, NEW D, NEW desc, NEW item, NEW deletion, NEW kept,
           Keeps(f, key, N, D, desc, item, deletion, kept),
           NEW n \in N, NEW filter, Finds(f.descs, filter, desc[n]),
           NEW data, NEW after, Sets(key, D, desc, kept, n, data, after)
    PROVE  Holds(UpdateOne(f, data, filter, key, deletion), key, N, D \union {n}, desc, after)
<1>0. PICK new : /\ Numbered(new, data, key, desc[n][key])
                 /\ \A m \in D \ {n} : after[m] = kept[m]
                 /\ after[n] = IF n \in D THEN Merge(kept[n], new) ELSE new
  BY DEF Sets
<1>01. /\ Holds(f, key, N, D, desc, item)
       /\ Deleted(f.data, deletion) = Values(D, kept)
       /\ \A m \in D : key \in DOMAIN kept[m] /\ kept[m][key] = desc[m][key]
  BY DEF Keeps
<1> DEFINE entries == {[data |-> data, filter |-> filter]}
           one == [m \in {n} |-> new]
<1>1. Cardinality({desc[n]}) = 1
  BY FS_Singleton
<1>2. EachMatchesOne(f.descs, entries)
  <2>1. \A e \in entries : e.filter = filter
    OBVIOUS
  <2> HIDE DEF entries, UpdateOne
  <2> QED
    BY <1>1, <2>1 DEF EachMatchesOne, Finds
<1>3. First({desc[n]}, key) = desc[n]
  BY <1>01 DEF First, Holds
<1> DEFINE Entry(e) == [e.data EXCEPT ![key] = First(SearchFilterInList(f.descs, e.filter), key)[key]]
<1>31. SearchFilterInList(f.descs, filter) = {desc[n]}
  BY DEF Finds
<1>4. {Entry(e) : e \in entries} = {new}
  <2>1. \A e : e \in entries <=> e = [data |-> data, filter |-> filter]
    OBVIOUS
  <2>2. Entry([data |-> data, filter |-> filter]) = new
    BY <1>0, <1>3, <1>31 DEF Numbered
  <2> HIDE DEF entries, Entry
  <2> QED
    BY <2>1, <2>2
<1>5. {new} = Values({n}, one)
  BY DEF Values
<1>6. UpdateDataForFilters(f, entries, key, deletion)
        = [f EXCEPT !.data = UpdateData(Deleted(f.data, deletion), {new}, {key})]
  <2> HIDE DEF entries, Entry
  <2>1. UpdateDataForFilters(f, entries, key, deletion)
          = [f EXCEPT !.data = UpdateData(Deleted(f.data, deletion), {Entry(e) : e \in entries}, {key})]
    BY <1>2 DEF UpdateDataForFilters, Entry
  <2> QED
    BY <1>4, <2>1
<1>7. UpdateDataForFilters(f, entries, key, deletion)
        = [f EXCEPT !.data = UpdateData(Values(D, kept), Values({n}, one), {key})]
  BY <1>01, <1>5, <1>6
<1>8. \A m \in {n} : one[m][key] = desc[m][key]
  BY <1>0 DEF Numbered
<1>9. \A m \in D \union {n} : after[m] = IF m \notin D THEN one[m]
                                        ELSE IF m \in {n} THEN Merge(kept[m], one[m]) ELSE kept[m]
  BY <1>0
<1>10. {n} \in SUBSET N
  OBVIOUS
<1> HIDE DEF one, entries
<1>11. Holds([f EXCEPT !.data = UpdateData(Values(D, kept), Values({n}, one), {key})],
             key, N, D \union {n}, desc, after)
  BY <1>01, <1>8, <1>9, <1>10, DataUpdated
<1> QED
  BY <1>7, <1>11 DEF entries, UpdateOne

-----------------------------------------------------------------------------
(* The limits                                                              *)

\* A field that is not set differs from every value.
LEMMA NilIsNoValue ==
    /\ Nil \notin Nat /\ Nil \notin BOOLEAN /\ Nil \notin LoadLimit /\ Nil \notin Setting
    /\ Nil \notin [limitId : Nat]
BY CsDataAssumption

\* A list of limits or characteristics has at most three items.
LEMMA UseCasesFew == \A N : N \subseteq UseCases => Few(N)
<1> SUFFICES ASSUME NEW N, N \subseteq UseCases PROVE N \subseteq {"lpc", "lpp", "lpp"}
  BY DEF Few
<1> QED
  BY DEF UseCases

\* The data of a limit gets the identifier it is stored under.
LEMMA LimitNumbered ==
    ASSUME NEW id, NEW value, NEW changeable, NEW active, NEW period
    PROVE  Numbered([limitId |-> id, value |-> value, isLimitActive |-> active,
                     isLimitChangeable |-> changeable, timePeriod |-> period],
                    LimitData(value, changeable, active, period), "limitId", id)
BY DEF Numbered, LimitData

\* The filter of a use case finds its limit and no other.
LEMMA LimitFound ==
    ASSUME NEW lc, NEW N, NEW D, NEW desc, NEW item, LimitsAre(lc, N, D, desc, item), NEW uc \in N
    PROVE  /\ Finds(lc.descs, LimitFilter(uc), desc[uc])
           /\ First({desc[uc]}, "limitId") = desc[uc]
           /\ Finds(lc.descs, [limitId |-> desc[uc].limitId], desc[uc])
           /\ uc \in D => Finds(lc.data, [limitId |-> desc[uc].limitId], item[uc])
<1>1. Holds(lc, "limitId", N, D, desc, item) /\ uc \in UseCases
  BY DEF LimitsAre
<1>2. lc.descs = Values(N, desc) /\ desc[uc].limitId \in Nat
  BY <1>1 DEF Holds
<1>3. \A m \in N : SearchFilterInItem(desc[m], LimitFilter(uc)) <=> m = uc
  <2> TAKE m \in N
  <2>1. desc[m].limitDirection = LimitDirection(m) /\ desc[m].scopeType = "activePowerLimit"
    BY DEF LimitsAre, LimitDescription
  <2>2. SearchFilterInItem(desc[m], LimitFilter(uc)) <=> LimitDirection(m) = LimitDirection(uc)
    BY <2>1 DEF SearchFilterInItem, LimitFilter
  <2> QED
    BY <1>1, <2>2, Names DEF LimitsAre
<1>4. Finds(lc.descs, LimitFilter(uc), desc[uc])
  BY <1>2, <1>3 DEF Finds, SearchFilterInList, Values
<1>5. First({desc[uc]}, "limitId") = desc[uc]
  BY <1>2 DEF First
<1> DEFINE filter == [limitId |-> desc[uc].limitId]
<1>6. ById(filter, "limitId", desc[uc]["limitId"])
  BY DEF ById
<1> HIDE DEF filter
<1>7. Finds(lc.descs, filter, desc[uc]) /\ (uc \in D => Finds(lc.data, filter, item[uc]))
  BY <1>1, <1>6, FoundById
<1> QED
  BY <1>4, <1>5, <1>7 DEF filter

\* A use case is added: it gets a description and the inactive limit 0.
LEMMA WithLimitAdds ==
    ASSUME NEW lc, NEW N, NEW desc, NEW item, LimitsAre(lc, N, N, desc, item),
           NEW uc \in UseCases, uc \notin N
    PROVE  WithInitialLimit(WithLimit(lc, uc), N, uc, item)
<1> DEFINE id == NextId(lc.descs, "limitId")
           raw == [limitId |-> Nil, limitDirection |-> LimitDirection(uc), scopeType |-> "activePowerLimit"]
           new == [limitId |-> id, limitDirection |-> LimitDirection(uc), scopeType |-> "activePowerLimit"]
           d == [m \in N \union {uc} |-> IF m = uc THEN new ELSE desc[m]]
           with == AddDescription(lc, raw, "limitId")
           data == LimitData(0, TRUE, FALSE, Nil)
           limit0 == [limitId |-> id, value |-> 0, isLimitActive |-> FALSE, isLimitChangeable |-> TRUE,
                      timePeriod |-> Nil]
           after == [m \in N \union {uc} |-> IF m = uc THEN limit0 ELSE item[m]]
           filter == [limitId |-> id]
<1>1. Holds(lc, "limitId", N, N, desc, item) /\ N \subseteq UseCases
  BY DEF LimitsAre
<1>2. Numbered(new, raw, "limitId", id)
  BY DEF Numbered
<1>3. Few(N)
  BY <1>1, UseCasesFew
<1>4. \A m \in N : d[m] = desc[m]
  OBVIOUS
<1>5. d[uc] = new /\ new["limitId"] = id /\ new.limitId = id
  OBVIOUS
<1>6. \A m \in N : after[m] = item[m]
  OBVIOUS
<1>7. after[uc] = limit0
  OBVIOUS
<1>8. Numbered(limit0, data, "limitId", id)
  BY LimitNumbered
<1>9. {[data |-> e.data, filter |-> [limitId |-> e.id]] : e \in {[id |-> id, data |-> data]}}
        = {[data |-> data, filter |-> filter]}
  <2> HIDE DEF id, data
  <2> QED
    OBVIOUS
<1>10. WithLimit(lc, uc) = UpdateOne(with, data, filter, "limitId", NoDeletion)
  <2>1. with = AddLimitDescription(lc, raw)
    BY DEF AddLimitDescription
  <2> QED
    BY <1>9, <2>1 DEF WithLimit, UpdateLimitDataForIds, UpdateLimitDataForFilters, UpdateOne
<1> HIDE DEF d, new, raw, with, data, limit0, after, id
<1>11. id \in Nat /\ Holds(with, "limitId", N \union {uc}, N, d, item)
  BY <1>1, <1>2, <1>3, <1>4, <1>5, DescriptionAdded DEF id, with
<1>12. LimitsAre(with, N \union {uc}, N, d, item)
  <2>1. \A m \in N \union {uc} : d[m] \in LimitDescription(m)
    <3>1. new \in LimitDescription(uc)
      BY <1>11 DEF LimitDescription, new
    <3>2. \A m \in N : desc[m] \in LimitDescription(m)
      BY DEF LimitsAre
    <3> QED
      BY <1>4, <1>5, <3>1, <3>2
  <2> QED
    BY <1>1, <1>11, <2>1 DEF LimitsAre
<1>13. Finds(with.descs, filter, d[uc]) /\ d[uc].limitId = id
  BY <1>5, <1>12, LimitFound
<1>14. Deleted(with.data, NoDeletion) = Values(N, item)
  BY <1>11 DEF Deleted, NoDeletion, Holds
<1>15. \A m \in N : "limitId" \in DOMAIN item[m] /\ item[m]["limitId"] = d[m]["limitId"]
  BY <1>11, <1>12 DEF Holds, LimitsAre, StoredLimit
<1> HIDE DEF filter
<1>16. Holds(WithLimit(lc, uc), "limitId", N \union {uc}, N \union {uc}, d, after)
  <2>1. Sets("limitId", N, d, item, uc, data, after)
    <3>1. Numbered(limit0, data, "limitId", d[uc]["limitId"])
      BY <1>5, <1>8
    <3> QED
      BY <1>6, <1>7, <3>1 DEF Sets
  <2>2. Keeps(with, "limitId", N \union {uc}, N, d, item, NoDeletion, item)
    BY <1>11, <1>14, <1>15 DEF Keeps
  <2>3. uc \in N \union {uc}
    OBVIOUS
  <2>4. Holds(UpdateOne(with, data, filter, "limitId", NoDeletion),
              "limitId", N \union {uc}, N \union {uc}, d, after)
    BY <1>13, <2>1, <2>2, <2>3, FilterUpdated
  <2> QED
    BY <1>10, <2>4
<1>17. limit0 \in StoredLimit
  BY <1>11 DEF StoredLimit, limit0
<1>18. LimitsAre(WithLimit(lc, uc), N \union {uc}, N \union {uc}, d, after)
  BY <1>6, <1>7, <1>12, <1>16, <1>17 DEF LimitsAre
<1>19. IsInitialLimit(limit0)
  BY DEF limit0, IsInitialLimit
<1> QED
  BY <1>6, <1>7, <1>18, <1>19 DEF WithInitialLimit

\* The application sets a limit: all of its fields are replaced, the time of
\* the earlier limit too.
LEMMA LimitSet ==
    ASSUME NEW lc, NEW N, NEW desc, NEW item, LimitsAre(lc, N, N, desc, item), NEW uc \in N,
           NEW value \in Nat, NEW changeable \in BOOLEAN, NEW active \in BOOLEAN,
           NEW period \in Nat \union {Nil}, NEW id, id = desc[uc].limitId,
           NEW new, new = [limitId |-> id, value |-> value, isLimitActive |-> active,
                           isLimitChangeable |-> changeable, timePeriod |-> period],
           NEW after, \A m \in N \ {uc} : after[m] = item[m], after[uc] = new
    PROVE  LimitsAre(UpdateOne(lc, LimitData(value, changeable, active, period), [limitId |-> id],
                               "limitId", LimitDeletion(id)),
                     N, N, desc, after)
<1> DEFINE old == item[uc]
           without == [f \in DOMAIN old |-> IF f \in {"timePeriod"} THEN Nil ELSE old[f]]
           kept == [m \in N |-> IF m = uc THEN without ELSE item[m]]
           data == LimitData(value, changeable, active, period)
           filter == [limitId |-> id]
<1>1. Holds(lc, "limitId", N, N, desc, item) /\ N \subseteq UseCases
  BY DEF LimitsAre
<1>2. /\ id \in Nat /\ \A m \in N : item[m] \in StoredLimit
      /\ old \in StoredLimit /\ old.limitId = id
  BY <1>1 DEF LimitsAre, Holds
<1>3. Finds(lc.descs, filter, desc[uc]) /\ Finds(lc.data, filter, old)
  BY LimitFound
<1>4. filter # Nil
  BY <1>2, NilIsNoValue
<1>5. \A m \in N \ {uc} : item[m] # old
  <2>1. \A m \in N : item[m].limitId = desc[m].limitId
    BY <1>1 DEF Holds
  <2>2. \A m \in N : desc[m].limitId = desc[uc].limitId => m = uc
    BY <1>1 DEF Holds
  <2> QED
    BY <2>1, <2>2
<1>6. kept[uc] = without /\ \A m \in N \ {uc} : kept[m] = item[m]
  OBVIOUS
<1> HIDE DEF kept, filter
<1>7. Deleted(lc.data, LimitDeletion(id)) = Values(N, kept)
  <2>1. lc.data = Values(N, item)
    BY <1>1 DEF Holds
  <2>2. SearchFilterInList(lc.data, filter) = {old}
    BY <1>3 DEF Finds
  <2>3. LimitDeletion(id).selector = filter /\ LimitDeletion(id).elements = {"timePeriod"}
    BY DEF LimitDeletion, filter
  <2> DEFINE Cleared(i) == [f \in DOMAIN i |-> IF f \in LimitDeletion(id).elements THEN Nil ELSE i[f]]
  <2>4. Cleared(old) = without
    BY <2>3
  <2> HIDE DEF Cleared, old, without
  <2>5. Deleted(lc.data, LimitDeletion(id))
          = (lc.data \ {old}) \union {Cleared(i) : i \in {h \in {old} : LimitDeletion(id).elements # {}}}
    BY <1>4, <2>2, <2>3 DEF Deleted, Cleared
  <2>6. \A x : x \in Deleted(lc.data, LimitDeletion(id)) <=> (x \in lc.data /\ x # old) \/ x = without
    BY <2>3, <2>4, <2>5
  <2>7. \A x : (x \in lc.data /\ x # old) <=> \E m \in N \ {uc} : x = item[m]
    BY <1>5, <2>1 DEF Values, old
  <2>8. \A x : x \in Values(N, kept) <=> x = without \/ \E m \in N \ {uc} : x = item[m]
    BY <1>6 DEF Values
  <2> QED
    BY <2>6, <2>7, <2>8
<1>8. /\ without.limitId = id
      /\ DOMAIN without = {"limitId", "value", "isLimitActive", "isLimitChangeable", "timePeriod"}
      /\ without.timePeriod = Nil
  BY <1>2 DEF StoredLimit
<1>9. Merge(without, new) = new
  BY <1>8, NilIsNoValue DEF Merge
<1> HIDE DEF without, old
<1>10. Keeps(lc, "limitId", N, N, desc, item, LimitDeletion(id), kept)
  <2>1. \A m \in N : "limitId" \in DOMAIN kept[m] /\ kept[m]["limitId"] = desc[m]["limitId"]
    <3>1. "limitId" \in DOMAIN without /\ without["limitId"] = desc[uc]["limitId"]
      BY <1>8
    <3>2. \A m \in N : "limitId" \in DOMAIN item[m] /\ item[m]["limitId"] = desc[m]["limitId"]
      BY <1>1, <1>2 DEF Holds, StoredLimit
    <3> QED
      BY <1>6, <3>1, <3>2
  <2> QED
    BY <1>1, <1>7, <2>1 DEF Keeps
<1>11. Sets("limitId", N, desc, kept, uc, data, after)
  <2>1. Numbered(new, data, "limitId", desc[uc]["limitId"])
    BY LimitNumbered
  <2>2. after[uc] = IF uc \in N THEN Merge(kept[uc], new) ELSE new
    BY <1>6, <1>9
  <2> QED
    BY <1>6, <2>1, <2>2 DEF Sets
<1> HIDE DEF data
<1>12. Holds(UpdateOne(lc, data, filter, "limitId", LimitDeletion(id)),
             "limitId", N, N \union {uc}, desc, after)
  BY <1>3, <1>10, <1>11, FilterUpdated
<1>13. N \union {uc} = N
  OBVIOUS
<1>14. new \in StoredLimit
  BY <1>2 DEF StoredLimit
<1> QED
  BY <1>1, <1>2, <1>12, <1>13, <1>14 DEF LimitsAre, data, filter

LimitWrite(id) == [limitId : {id}, value : Nat, isLimitActive : BOOLEAN \union {Nil},
                   isLimitChangeable : {Nil}, timePeriod : Nat \union {Nil}]

\* The remote device writes limits.
LEMMA LimitsWritten ==
    ASSUME NEW lc, NEW N, NEW desc, NEW item, LimitsAre(lc, N, N, desc, item),
           NEW M \in SUBSET N, NEW new, \A m \in M : new[m] \in LimitWrite(desc[m].limitId),
           NEW after, \A m \in N : after[m] = IF m \in M THEN Merge(item[m], new[m]) ELSE item[m]
    PROVE  /\ LimitsAre(DataWritten(lc, Values(M, new), "limitId"), N, N, desc, after)
           /\ \A m \in N : after[m].isLimitChangeable = item[m].isLimitChangeable
<1>1. Holds(lc, "limitId", N, N, desc, item) /\ N \subseteq UseCases
  BY DEF LimitsAre
<1>2. \A m \in N : item[m] \in StoredLimit
  BY DEF LimitsAre
<1>3. lc.data = Values(N, item)
  BY <1>1 DEF Holds
<1>4. \A m \in N : "limitId" \in DOMAIN item[m] /\ item[m]["limitId"] = desc[m]["limitId"]
  BY <1>1, <1>2 DEF Holds, StoredLimit
<1>5. \A m \in M : new[m]["limitId"] = desc[m]["limitId"]
  BY DEF LimitWrite
<1>6. \A m \in N \union M : after[m] = IF m \notin N THEN new[m]
                                       ELSE IF m \in M THEN Merge(item[m], new[m]) ELSE item[m]
  OBVIOUS
<1>7. N \union M = N
  OBVIOUS
<1>8. Holds([lc EXCEPT !.data = UpdateData(Values(N, item), Values(M, new), {"limitId"})],
            "limitId", N, N \union M, desc, after)
  BY <1>1, <1>4, <1>5, <1>6, DataUpdated
<1>9. ASSUME NEW m \in N
      PROVE  after[m] \in StoredLimit /\ after[m].isLimitChangeable = item[m].isLimitChangeable
  <2>1. CASE m \in M
    <3> DEFINE i == item[m]
               n == new[m]
    <3>1. i \in StoredLimit /\ after[m] = Merge(i, n) /\ desc[m].limitId \in Nat
      BY <1>1, <1>2, <2>1 DEF Holds
    <3>2. n \in LimitWrite(desc[m].limitId)
      BY <2>1
    <3> HIDE DEF i, n
    <3>3. Merge(i, n) = [limitId |-> IF n.limitId = Nil THEN i.limitId ELSE n.limitId,
                         value |-> IF n.value = Nil THEN i.value ELSE n.value,
                         isLimitActive |-> IF n.isLimitActive = Nil THEN i.isLimitActive ELSE n.isLimitActive,
                         isLimitChangeable |-> IF n.isLimitChangeable = Nil THEN i.isLimitChangeable
                                               ELSE n.isLimitChangeable,
                         timePeriod |-> IF n.timePeriod = Nil THEN i.timePeriod ELSE n.timePeriod]
      BY <3>1 DEF Merge, StoredLimit
    <3>4. Merge(i, n).isLimitChangeable = i.isLimitChangeable
      BY <3>2, <3>3 DEF LimitWrite
    <3>5. Merge(i, n) \in StoredLimit
      BY <3>1, <3>2, <3>3 DEF LimitWrite, StoredLimit
    <3> QED
      BY <3>1, <3>4, <3>5 DEF i
  <2>2. CASE m \notin M
    BY <1>2, <2>2
  <2> QED
    BY <2>1, <2>2
<1>10. DataWritten(lc, Values(M, new), "limitId")
         = [lc EXCEPT !.data = UpdateData(Values(N, item), Values(M, new), {"limitId"})]
  BY <1>3 DEF DataWritten
<1>11. \A m \in N : desc[m] \in LimitDescription(m)
  BY DEF LimitsAre
<1> QED
  BY <1>1, <1>7, <1>8, <1>9, <1>10, <1>11 DEF LimitsAre

-----------------------------------------------------------------------------
(* What the application reads of the limits                                *)

AsLimit(i) == [value |-> i.value, isChangeable |-> i.isLimitChangeable = TRUE,
               isActive |-> i.isLimitActive = TRUE,
               duration |-> IF i.timePeriod = Nil THEN 0 ELSE i.timePeriod]

LimitsRead ==
    \A N, desc, item : LimitsAre(loadControl, N, N, desc, item) =>
        /\ \A uc \in N : /\ LoadControlServerAndLimitId(uc) = desc[uc].limitId
                         /\ LimitOf(uc) = AsLimit(item[uc])
        /\ \A uc \in UseCases : LimitOf(uc) \in LoadLimit \union {Nil}

\* What is stored for a limit can be read as one.
LEMMA StoredIsLimit == \A i \in StoredLimit : AsLimit(i) \in LoadLimit
BY DEF StoredLimit, AsLimit, LoadLimit

\* The getters of the limits read what is stored for the use case.
LEMMA LimitsReadHolds == LimitsRead
<1> SUFFICES ASSUME NEW N, NEW desc, NEW item, LimitsAre(loadControl, N, N, desc, item)
             PROVE  /\ \A uc \in N : /\ LoadControlServerAndLimitId(uc) = desc[uc].limitId
                                     /\ LimitOf(uc) = AsLimit(item[uc])
                    /\ \A uc \in UseCases : LimitOf(uc) \in LoadLimit \union {Nil}
  BY DEF LimitsRead
<1>0. /\ \A uc \in N : item[uc] \in StoredLimit
      /\ loadControl.data = Values(N, item) /\ N \subseteq UseCases
  BY DEF LimitsAre, Holds
<1>1. ASSUME NEW uc \in N
      PROVE  /\ LoadControlServerAndLimitId(uc) = desc[uc].limitId
             /\ LimitOf(uc) = AsLimit(item[uc])
  <2>1. /\ Finds(loadControl.descs, LimitFilter(uc), desc[uc])
        /\ First({desc[uc]}, "limitId") = desc[uc]
        /\ Finds(loadControl.descs, [limitId |-> desc[uc].limitId], desc[uc])
        /\ Finds(loadControl.data, [limitId |-> desc[uc].limitId], item[uc])
    BY LimitFound
  <2>2. Cardinality({desc[uc]}) = 1
    BY FS_Singleton
  <2>3. LoadControlServerAndLimitId(uc) = desc[uc].limitId
    BY <2>1, <2>2 DEF LoadControlServerAndLimitId, GetLimitDescriptionsForFilter, Finds
  <2>4. GetLimitDataForId(loadControl, desc[uc].limitId) = {item[uc]}
    BY <2>1 DEF GetLimitDataForId, GetLimitDataForFilter, GetLimitDescriptionsForFilter, Finds
  <2>5. item[uc].limitId \in Nat /\ item[uc].value # Nil
    BY <1>0, NilIsNoValue DEF StoredLimit
  <2>6. {i \in {item[uc]} : i.value # Nil} = {item[uc]}
    BY <2>5
  <2>7. First({item[uc]}, "limitId") = item[uc]
    BY <2>5 DEF First
  <2>8. LimitOf(uc) = AsLimit(item[uc])
    BY <2>3, <2>4, <2>6, <2>7 DEF LimitOf, AsLimit
  <2> QED
    BY <2>3, <2>8
<1>2. ASSUME NEW uc \in UseCases PROVE LimitOf(uc) \in LoadLimit \union {Nil}
  <2>1. CASE uc \in N
    BY <1>0, <1>1, <2>1, StoredIsLimit
  <2>2. CASE uc \notin N
    <3>1. LoadControlServerAndLimitId(uc) = 0
      <4>1. \A m \in N : desc[m].limitDirection = LimitDirection(m) /\ LimitDirection(m) # LimitDirection(uc)
        BY <1>0, <2>2, Names DEF LimitsAre, LimitDescription
      <4>2. GetLimitDescriptionsForFilter(loadControl, LimitFilter(uc)) = {}
        <5>1. loadControl.descs = Values(N, desc)
          BY DEF LimitsAre, Holds
        <5>2. \A d : SearchFilterInItem(d, LimitFilter(uc)) => d.limitDirection = LimitDirection(uc)
          BY DEF SearchFilterInItem, LimitFilter
        <5> QED
          BY <4>1, <5>1, <5>2 DEF GetLimitDescriptionsForFilter, SearchFilterInList, Values
      <4>3. Cardinality({}) # 1
        BY FS_EmptySet
      <4> QED
        BY <4>2, <4>3 DEF LoadControlServerAndLimitId
    <3> DEFINE found == {i \in GetLimitDataForId(loadControl, 0) : i.value # Nil}
    <3>2. \A i \in found : i \in loadControl.data /\ i.limitId = 0
      <4>1. \A d : SearchFilterInItem(d, [limitId |-> 0]) => d.limitId = 0
        BY DEF SearchFilterInItem
      <4>2. \A d, i : SearchFilterInItem(i, [limitId |-> d.limitId]) => i.limitId = d.limitId
        BY DEF SearchFilterInItem
      <4> QED
        BY <4>1, <4>2 DEF GetLimitDataForId, GetLimitDataForFilter, GetLimitDescriptionsForFilter, SearchFilterInList
    <3>3. LimitOf(uc) = IF found = {} THEN Nil ELSE AsLimit(First(found, "limitId"))
      BY <3>1 DEF LimitOf, AsLimit
    <3> HIDE DEF found
    <3>4. \A i, o \in found : i["limitId"] <= o["limitId"]
      BY <3>2
    <3>5. CASE found = {}
      BY <3>3, <3>5
    <3>6. CASE found # {}
      <4>1. First(found, "limitId") \in found
        BY <3>4, <3>6 DEF First
      <4>2. First(found, "limitId") \in StoredLimit
        BY <1>0, <3>2, <4>1 DEF Values
      <4> QED
        BY <3>3, <3>6, <4>2, StoredIsLimit
    <3> QED
      BY <3>5, <3>6
  <2> QED
    BY <2>1, <2>2
<1> QED
  BY <1>1, <1>2

-----------------------------------------------------------------------------
(* The failsafe values                                                     *)

\* A list of failsafe values has at most three items.
LEMMA KeysFew == \A N : N \subseteq FailsafeKeys => Few(N)
<1> SUFFICES ASSUME NEW N, N \subseteq FailsafeKeys
             PROVE  N \subseteq {"failsafeConsumption", "failsafeProduction", "failsafeDurationMinimum"}
  BY DEF Few
<1> QED
  BY DEF FailsafeKeys

\* Descriptions and data of a key get the identifier they are stored under.
LEMMA KeyNumbered ==
    ASSUME NEW id, NEW value, NEW changeable, NEW name
    PROVE  /\ Numbered([keyId |-> id, value |-> value, isValueChangeable |-> changeable],
                       KeyData(value, changeable), "keyId", id)
           /\ Numbered([keyId |-> id, keyName |-> name], [keyId |-> Nil, keyName |-> name], "keyId", id)
BY DEF Numbered, KeyData

\* The filter for a key finds its description and value and no other.
LEMMA KeyFound ==
    ASSUME NEW dc, NEW N, NEW D, NEW desc, NEW item, KeysAre(dc, N, D, desc, item), NEW k \in N
    PROVE  /\ Finds(dc.descs, [keyName |-> k], desc[k])
           /\ First({desc[k]}, "keyId") = desc[k]
           /\ k \in D => Finds(dc.data, [keyId |-> desc[k].keyId], item[k])
<1>1. Holds(dc, "keyId", N, D, desc, item)
  BY DEF KeysAre
<1>2. dc.descs = Values(N, desc) /\ desc[k].keyId \in Nat
  BY <1>1 DEF Holds
<1>3. \A m \in N : SearchFilterInItem(desc[m], [keyName |-> k]) <=> m = k
  BY DEF SearchFilterInItem, KeysAre, KeyDescription
<1>4. Finds(dc.descs, [keyName |-> k], desc[k])
  BY <1>2, <1>3 DEF Finds, SearchFilterInList, Values
<1>5. First({desc[k]}, "keyId") = desc[k]
  BY <1>2 DEF First
<1> DEFINE filter == [keyId |-> desc[k].keyId]
<1>6. ById(filter, "keyId", desc[k]["keyId"])
  BY DEF ById
<1> HIDE DEF filter
<1>7. k \in D => Finds(dc.data, filter, item[k])
  BY <1>1, <1>6, FoundById
<1> QED
  BY <1>4, <1>5, <1>7 DEF filter

\* The filter for a key that was not described finds nothing.
LEMMA KeyMissing ==
    ASSUME NEW dc, NEW N, NEW D, NEW desc, NEW item, KeysAre(dc, N, D, desc, item), NEW k, k \notin N
    PROVE  SearchFilterInList(dc.descs, [keyName |-> k]) = {}
<1>1. dc.descs = Values(N, desc) /\ \A m \in N : desc[m].keyName = m
  BY DEF KeysAre, KeyDescription, Holds
<1>2. \A d : SearchFilterInItem(d, [keyName |-> k]) => d.keyName = k
  BY DEF SearchFilterInItem
<1> QED
  BY <1>1, <1>2 DEF SearchFilterInList, Values

\* A description is added for a key that has none.
LEMMA KeyAdded ==
    ASSUME NEW dc, NEW N, NEW D, NEW desc, NEW item, KeysAre(dc, N, D, desc, item),
           NEW k \in FailsafeKeys, k \notin N
    PROVE  \E d : KeysAre(WithKey(dc, k), N \union {k}, D, d, item)
<1> DEFINE id == NextId(dc.descs, "keyId")
           raw == [keyId |-> Nil, keyName |-> k]
           new == [keyId |-> id, keyName |-> k]
           d == [m \in N \union {k} |-> IF m = k THEN new ELSE desc[m]]
<1>1. Holds(dc, "keyId", N, D, desc, item) /\ N \subseteq FailsafeKeys
  BY DEF KeysAre
<1>2. Few(N)
  BY <1>1, KeysFew
<1>3. Numbered(new, raw, "keyId", id)
  BY KeyNumbered
<1>4. d[k] = new /\ \A m \in N : d[m] = desc[m]
  OBVIOUS
<1>5. WithKey(dc, k) = AddDescription(dc, raw, "keyId")
  BY DEF WithKey, AddKeyValueDescription
<1> HIDE DEF d, new, raw, id
<1>6. id \in Nat /\ Holds(AddDescription(dc, raw, "keyId"), "keyId", N \union {k}, D, d, item)
  BY <1>1, <1>2, <1>3, <1>4, DescriptionAdded DEF id
<1>7. new \in KeyDescription(k)
  BY <1>6 DEF new, KeyDescription
<1>8. \A m \in N \union {k} : d[m] \in KeyDescription(m)
  BY <1>4, <1>7 DEF KeysAre
<1>9. KeysAre(WithKey(dc, k), N \union {k}, D, d, item)
  BY <1>1, <1>5, <1>6, <1>8 DEF KeysAre
<1> QED
  BY <1>9

\* The application sets the value of a key.
LEMMA KeySet ==
    ASSUME NEW dc, NEW N, NEW D, NEW desc, NEW item, KeysAre(dc, N, D, desc, item), NEW k \in N,
           NEW value \in Nat, NEW changeable \in BOOLEAN
    PROVE  KeySetTo(UpdateKeyValueDataForFilter(dc, KeyData(value, changeable), [keyName |-> k]),
                    N, D, desc, item, k, value, changeable)
<1> DEFINE id == desc[k].keyId
           new == [keyId |-> id, value |-> value, isValueChangeable |-> changeable]
           i == [m \in D \union {k} |-> IF m = k THEN new ELSE item[m]]
           data == KeyData(value, changeable)
           filter == [keyName |-> k]
<1>1. Holds(dc, "keyId", N, D, desc, item) /\ N \subseteq FailsafeKeys /\ D \subseteq N
  BY DEF KeysAre, Holds
<1>2. id \in Nat /\ \A m \in D : item[m] \in StoredKey
  BY <1>1 DEF KeysAre, Holds
<1>3. Finds(dc.descs, filter, desc[k])
  BY KeyFound
<1>4. i[k] = new /\ \A m \in D \ {k} : i[m] = item[m]
  OBVIOUS
<1>5. k \in D => Merge(item[k], new) = new
  <2> SUFFICES ASSUME k \in D PROVE Merge(item[k], new) = new
    OBVIOUS
  <2>1. item[k] \in StoredKey
    BY <1>2
  <2> QED
    BY <1>2, <2>1, NilIsNoValue DEF StoredKey, Merge
<1>6. Deleted(dc.data, NoDeletion) = Values(D, item)
  BY <1>1 DEF Deleted, NoDeletion, Holds
<1>7. \A m \in D : "keyId" \in DOMAIN item[m] /\ item[m]["keyId"] = desc[m]["keyId"]
  BY <1>1, <1>2 DEF Holds, StoredKey
<1>8. Numbered(new, data, "keyId", desc[k]["keyId"])
  BY KeyNumbered
<1>9. UpdateKeyValueDataForFilter(dc, data, filter) = UpdateOne(dc, data, filter, "keyId", NoDeletion)
  BY DEF UpdateKeyValueDataForFilter, UpdateOne
<1>10. new \in StoredKey /\ new.value = value /\ new.isValueChangeable = changeable
  BY <1>2 DEF StoredKey
<1> HIDE DEF i, new, data, filter, id
<1>11. Keeps(dc, "keyId", N, D, desc, item, NoDeletion, item)
  BY <1>1, <1>6, <1>7 DEF Keeps
<1>12. Sets("keyId", D, desc, item, k, data, i)
  <2>1. i[k] = IF k \in D THEN Merge(item[k], new) ELSE new
    BY <1>4, <1>5
  <2> QED
    BY <1>4, <1>8, <2>1 DEF Sets
<1>13. Holds(UpdateOne(dc, data, filter, "keyId", NoDeletion), "keyId", N, D \union {k}, desc, i)
  BY <1>3, <1>11, <1>12, FilterUpdated
<1>14. \A m \in N : desc[m] \in KeyDescription(m)
  BY DEF KeysAre
<1>15. KeysAre(UpdateKeyValueDataForFilter(dc, data, filter), N, D \union {k}, desc, i)
  BY <1>1, <1>2, <1>4, <1>9, <1>10, <1>13, <1>14 DEF KeysAre
<1> QED
  BY <1>4, <1>10, <1>15 DEF data, filter, KeySetTo

KeyWrite(id) == [keyId : {id}, value : Nat, isValueChangeable : {Nil}]

\* The remote device writes failsafe values.
LEMMA KeysWritten ==
    ASSUME NEW dc, NEW N, NEW desc, NEW item, KeysAre(dc, N, N, desc, item),
           NEW M \in SUBSET N, NEW new, \A m \in M : new[m] \in KeyWrite(desc[m].keyId),
           NEW after, \A m \in N : after[m] = IF m \in M THEN Merge(item[m], new[m]) ELSE item[m]
    PROVE  /\ KeysAre(DataWritten(dc, Values(M, new), "keyId"), N, N, desc, after)
           /\ \A m \in N : after[m].isValueChangeable = item[m].isValueChangeable
<1>1. Holds(dc, "keyId", N, N, desc, item) /\ N \subseteq FailsafeKeys
  BY DEF KeysAre
<1>2. \A m \in N : item[m] \in StoredKey
  BY DEF KeysAre
<1>3. dc.data = Values(N, item)
  BY <1>1 DEF Holds
<1>4. \A m \in N : "keyId" \in DOMAIN item[m] /\ item[m]["keyId"] = desc[m]["keyId"]
  BY <1>1, <1>2 DEF Holds, StoredKey
<1>5. \A m \in M : new[m]["keyId"] = desc[m]["keyId"]
  BY DEF KeyWrite
<1>6. \A m \in N \union M : after[m] = IF m \notin N THEN new[m]
                                       ELSE IF m \in M THEN Merge(item[m], new[m]) ELSE item[m]
  OBVIOUS
<1>7. N \union M = N
  OBVIOUS
<1>8. Holds([dc EXCEPT !.data = UpdateData(Values(N, item), Values(M, new), {"keyId"})],
            "keyId", N, N \union M, desc, after)
  BY <1>1, <1>4, <1>5, <1>6, DataUpdated
<1>9. ASSUME NEW m \in N
      PROVE  after[m] \in StoredKey /\ after[m].isValueChangeable = item[m].isValueChangeable
  <2>1. CASE m \in M
    <3> DEFINE i == item[m]
               n == new[m]
    <3>1. i \in StoredKey /\ after[m] = Merge(i, n) /\ desc[m].keyId \in Nat
      BY <1>1, <1>2, <2>1 DEF Holds
    <3>2. n \in KeyWrite(desc[m].keyId)
      BY <2>1
    <3> HIDE DEF i, n
    <3>3. Merge(i, n) = [keyId |-> IF n.keyId = Nil THEN i.keyId ELSE n.keyId,
                         value |-> IF n.value = Nil THEN i.value ELSE n.value,
                         isValueChangeable |-> IF n.isValueChangeable = Nil THEN i.isValueChangeable
                                               ELSE n.isValueChangeable]
      BY <3>1 DEF Merge, StoredKey
    <3>4. Merge(i, n).isValueChangeable = i.isValueChangeable
      BY <3>2, <3>3 DEF KeyWrite
    <3>5. Merge(i, n) \in StoredKey
      BY <3>1, <3>2, <3>3 DEF KeyWrite, StoredKey
    <3> QED
      BY <3>1, <3>4, <3>5 DEF i
  <2>2. CASE m \notin M
    BY <1>2, <2>2
  <2> QED
    BY <2>1, <2>2
<1>10. DataWritten(dc, Values(M, new), "keyId")
         = [dc EXCEPT !.data = UpdateData(Values(N, item), Values(M, new), {"keyId"})]
  BY <1>3 DEF DataWritten
<1>11. \A m \in N : desc[m] \in KeyDescription(m)
  BY DEF KeysAre
<1> QED
  BY <1>1, <1>7, <1>8, <1>9, <1>10, <1>11 DEF KeysAre

\* A use case is added: its failsafe limit and the shared duration become 0.
LEMMA WithFailsafeAdds ==
    ASSUME NEW dc, NEW ucs \in SUBSET UseCases, NEW desc, NEW item,
           KeysAre(dc, KeysOf(ucs), KeysOf(ucs), desc, item), NEW uc \in UseCases, uc \notin ucs
    PROVE  \E d, i : /\ KeysAre(WithFailsafe(dc, uc), KeysOf(ucs \union {uc}), KeysOf(ucs \union {uc}), d, i)
                     /\ \A m \in ucs : i[FailsafeKey(m)] = item[FailsafeKey(m)]
                     /\ IsInitialKey(i[FailsafeKey(uc)]) /\ IsInitialKey(i[DurationKey])
<1> DEFINE N == KeysOf(ucs)
           k == FailsafeKey(uc)
           one == WithKey(dc, k)
           both == WithDuration(one)
           first == UpdateKeyValueDataForFilter(both, KeyData(0, TRUE), [keyName |-> k])
<1>1. k \in FailsafeKeys /\ k \notin N /\ k # DurationKey
  BY Names DEF KeysOf
<1>2. N \union {k, DurationKey} = KeysOf(ucs \union {uc})
  BY DEF KeysOf
<1>3. WithFailsafe(dc, uc) = UpdateKeyValueDataForFilter(first, KeyData(0, TRUE), [keyName |-> DurationKey])
  BY DEF WithFailsafe
<1>4. \A m \in ucs : FailsafeKey(m) \in N /\ FailsafeKey(m) # k /\ FailsafeKey(m) # DurationKey
  BY Names DEF KeysOf
<1> HIDE DEF N, k, one, both, first
<1>5. PICK d1 : KeysAre(one, N \union {k}, N, d1, item)
  BY <1>1, KeyAdded DEF one, N
<1>6. \E d : KeysAre(both, N \union {k, DurationKey}, N, d, item)
  <2>1. CASE DurationKey \in N \union {k}
    <3>1. Finds(one.descs, [keyName |-> DurationKey], d1[DurationKey])
      BY <1>5, <2>1, KeyFound
    <3>2. both = one
      BY <3>1 DEF both, WithDuration, Finds, GetKeyValueDescriptionsForFilter
    <3>3. N \union {k, DurationKey} = N \union {k}
      BY <2>1
    <3> QED
      BY <1>5, <3>2, <3>3
  <2>2. CASE DurationKey \notin N \union {k}
    <3>1. SearchFilterInList(one.descs, [keyName |-> DurationKey]) = {}
      BY <1>5, <2>2, KeyMissing
    <3>2. one.descs # {}
      <4>1. one.descs = Values(N \union {k}, d1)
        BY <1>5 DEF KeysAre, Holds
      <4>2. d1[k] \in Values(N \union {k}, d1)
        BY DEF Values
      <4> QED
        BY <4>1, <4>2
    <3>3. both = WithKey(one, DurationKey)
      BY <3>1, <3>2 DEF both, WithDuration, GetKeyValueDescriptionsForFilter
    <3>4. \E d : KeysAre(WithKey(one, DurationKey), (N \union {k}) \union {DurationKey}, N, d, item)
      BY <1>5, <2>2, KeyAdded, Names
    <3>5. (N \union {k}) \union {DurationKey} = N \union {k, DurationKey}
      OBVIOUS
    <3> QED
      BY <3>3, <3>4, <3>5
  <2> QED
    BY <2>1, <2>2
<1>7. PICK d : KeysAre(both, N \union {k, DurationKey}, N, d, item)
  BY <1>6
<1> DEFINE zero == KeyData(0, TRUE)
       Zeroed(f, P, D, e, old, n) ==
         \E i : /\ KeysAre(f, P, D \union {n}, e, i)
                /\ \A m \in D \ {n} : i[m] = old[m]
                /\ IsInitialKey(i[n])
<1>71. ASSUME NEW f, NEW P, NEW D, NEW e, NEW old, KeysAre(f, P, D, e, old), NEW n \in P
       PROVE  Zeroed(UpdateKeyValueDataForFilter(f, zero, [keyName |-> n]), P, D, e, old, n)
  <2>1. \A v \in Nat, c \in BOOLEAN :
          \E i : /\ KeysAre(UpdateKeyValueDataForFilter(f, KeyData(v, c), [keyName |-> n]), P, D \union {n}, e, i)
                 /\ \A m \in D \ {n} : i[m] = old[m]
                 /\ i[n].value = v /\ i[n].isValueChangeable = c
    BY <1>71, KeySet DEF KeySetTo
  <2>2. 0 \in Nat /\ TRUE \in BOOLEAN
    OBVIOUS
  <2>3. \E i : /\ KeysAre(UpdateKeyValueDataForFilter(f, zero, [keyName |-> n]), P, D \union {n}, e, i)
               /\ \A m \in D \ {n} : i[m] = old[m]
               /\ i[n].value = 0 /\ i[n].isValueChangeable = TRUE
    BY <2>1, <2>2, Zenon
  <2> QED
    BY <2>3 DEF IsInitialKey
<1>72. /\ first = UpdateKeyValueDataForFilter(both, zero, [keyName |-> k])
       /\ WithFailsafe(dc, uc) = UpdateKeyValueDataForFilter(first, zero, [keyName |-> DurationKey])
  BY <1>3 DEF first
<1> HIDE DEF zero, Zeroed
<1>8. PICK i1 : /\ KeysAre(first, N \union {k, DurationKey}, N \union {k}, d, i1)
                /\ \A m \in N \ {k} : i1[m] = item[m]
                /\ IsInitialKey(i1[k])
  <2>1. k \in N \union {k, DurationKey}
    OBVIOUS
  <2> QED
    <3>1. Zeroed(first, N \union {k, DurationKey}, N, d, item, k)
      BY <1>7, <1>71, <1>72, <2>1
    <3> QED
      BY <3>1 DEF Zeroed
<1>9. PICK i : /\ KeysAre(WithFailsafe(dc, uc), N \union {k, DurationKey}, (N \union {k}) \union {DurationKey}, d, i)
               /\ \A m \in (N \union {k}) \ {DurationKey} : i[m] = i1[m]
               /\ IsInitialKey(i[DurationKey])
  <2>1. DurationKey \in N \union {k, DurationKey}
    OBVIOUS
  <2> QED
    <3>1. Zeroed(WithFailsafe(dc, uc), N \union {k, DurationKey}, N \union {k}, d, i1, DurationKey)
      BY <1>8, <1>71, <1>72, <2>1
    <3> QED
      BY <3>1 DEF Zeroed
<1>10. (N \union {k}) \union {DurationKey} = N \union {k, DurationKey}
  OBVIOUS
<1>11. KeysAre(WithFailsafe(dc, uc), KeysOf(ucs \union {uc}), KeysOf(ucs \union {uc}), d, i)
  BY <1>2, <1>9, <1>10
<1>12. \A m \in ucs : i[FailsafeKey(m)] = item[FailsafeKey(m)]
  BY <1>4, <1>8, <1>9
<1>13. IsInitialKey(i[k])
  BY <1>1, <1>8, <1>9
<1> QED
  BY <1>9, <1>11, <1>12, <1>13 DEF k

-----------------------------------------------------------------------------
(* What the application reads of the failsafe values                       *)

AsSetting(i) == [value |-> i.value, isChangeable |-> i.isValueChangeable = TRUE]

KeysRead ==
    \A N, desc, item : KeysAre(deviceConfiguration, N, N, desc, item) =>
        /\ \A k \in N : KeyIdOf(k) = desc[k].keyId /\ KeyValue(k) = AsSetting(item[k])
        /\ \A k \in FailsafeKeys \ N : KeyValue(k) = Nil

\* What is stored for a key can be read as a setting.
LEMMA StoredIsSetting == \A i \in StoredKey : AsSetting(i) \in Setting
BY DEF StoredKey, AsSetting, Setting

\* The getters of the failsafe values read what is stored for the key.
LEMMA KeysReadHolds == KeysRead
<1> SUFFICES ASSUME NEW N, NEW desc, NEW item, KeysAre(deviceConfiguration, N, N, desc, item)
             PROVE  /\ \A k \in N : KeyIdOf(k) = desc[k].keyId /\ KeyValue(k) = AsSetting(item[k])
                    /\ \A k \in FailsafeKeys \ N : KeyValue(k) = Nil
  BY DEF KeysRead
<1>0. \A k \in N : item[k] \in StoredKey
  BY DEF KeysAre
<1>1. ASSUME NEW k \in N PROVE KeyIdOf(k) = desc[k].keyId /\ KeyValue(k) = AsSetting(item[k])
  <2>1. /\ Finds(deviceConfiguration.descs, [keyName |-> k], desc[k])
        /\ First({desc[k]}, "keyId") = desc[k]
        /\ Finds(deviceConfiguration.data, [keyId |-> desc[k].keyId], item[k])
    BY KeyFound
  <2>2. KeyIdOf(k) = desc[k].keyId
    BY <2>1 DEF KeyIdOf, GetKeyValueDescriptionsForFilter, Finds
  <2>3. GetKeyValueDataForFilter(deviceConfiguration, [keyName |-> k]) = {item[k]}
    BY <2>1 DEF GetKeyValueDataForFilter, GetKeyValueDescriptionsForFilter, Finds
  <2>4. item[k].keyId \in Nat /\ item[k].value # Nil
    BY <1>0, NilIsNoValue DEF StoredKey
  <2>5. {i \in {item[k]} : i.value # Nil} = {item[k]} /\ First({item[k]}, "keyId") = item[k]
    BY <2>4 DEF First
  <2>6. KeyValue(k) = AsSetting(item[k])
    BY <2>3, <2>5 DEF KeyValue, AsSetting
  <2> QED
    BY <2>2, <2>6
<1>2. ASSUME NEW k \in FailsafeKeys \ N PROVE KeyValue(k) = Nil
  <2>1. SearchFilterInList(deviceConfiguration.descs, [keyName |-> k]) = {}
    BY KeyMissing
  <2>2. GetKeyValueDataForFilter(deviceConfiguration, [keyName |-> k]) = {}
    BY <2>1 DEF GetKeyValueDataForFilter, GetKeyValueDescriptionsForFilter
  <2> QED
    BY <2>2 DEF KeyValue
<1> QED
  BY <1>1, <1>2

-----------------------------------------------------------------------------
(* The nominal maxima                                                      *)

NewCharacteristic(uc) ==
    [electricalConnectionId |-> 0, parameterId |-> 0, characteristicId |-> Nil,
     characteristicType |-> CharacteristicType(uc), value |-> Nil]

\* The filter of a use case finds its own characteristic, if there is one.
LEMMA CharacteristicFound ==
    ASSUME NEW ec, NEW N, NEW char, CharacteristicsAre(ec, N, char), NEW uc \in UseCases
    PROVE  GetCharacteristicsForFilter(ec, CharacteristicFilter(uc)) = IF uc \in N THEN {char[uc]} ELSE {}
<1>1. ec.chars = Values(N, char) /\ N \subseteq UseCases
  BY DEF CharacteristicsAre
<1>2. \A m \in N : SearchFilterInItem(char[m], CharacteristicFilter(uc)) <=> m = uc
  <2> TAKE m \in N
  <2>1. /\ char[m].electricalConnectionId = 0 /\ char[m].parameterId = 0
        /\ char[m].characteristicType = CharacteristicType(m)
    BY DEF CharacteristicsAre, StoredCharacteristic
  <2>2. SearchFilterInItem(char[m], CharacteristicFilter(uc)) <=> CharacteristicType(m) = CharacteristicType(uc)
    BY <2>1 DEF SearchFilterInItem, CharacteristicFilter
  <2> QED
    BY <1>1, <2>2, Names
<1>3. CASE uc \in N
  BY <1>1, <1>2, <1>3 DEF GetCharacteristicsForFilter, SearchFilterInList, Values
<1>4. CASE uc \notin N
  BY <1>1, <1>2, <1>4 DEF GetCharacteristicsForFilter, SearchFilterInList, Values
<1> QED
  BY <1>3, <1>4

\* A characteristic that is added has no value and changes no other.
LEMMA CharacteristicAdded ==
    ASSUME NEW ec, NEW N, NEW char, CharacteristicsAre(ec, N, char), NEW uc \in UseCases, uc \notin N
    PROVE  \E c : /\ CharacteristicsAre(AddCharacteristic(ec, NewCharacteristic(uc)), N \union {uc}, c)
                  /\ \A m \in N : c[m] = char[m]
                  /\ c[uc].value = Nil
<1> DEFINE id == NextId(ec.chars, "characteristicId")
           new == [electricalConnectionId |-> 0, parameterId |-> 0, characteristicId |-> id,
                   characteristicType |-> CharacteristicType(uc), value |-> Nil]
           c == [m \in N \union {uc} |-> IF m = uc THEN new ELSE char[m]]
           one == [m \in {uc} |-> new]
<1>1. /\ ec = [chars |-> Values(N, char)] /\ ec.chars = Values(N, char) /\ N \subseteq UseCases
      /\ \A m \in N : char[m] \in StoredCharacteristic(m)
      /\ \A a, b \in N : char[a].characteristicId = char[b].characteristicId => a = b
  BY DEF CharacteristicsAre
<1>2. \A m \in N : char[m]["characteristicId"] \in Nat
  BY <1>1 DEF StoredCharacteristic
<1>3. \E bound \in Nat : \A item \in Values(N, char) :
          item["characteristicId"] \in Nat /\ item["characteristicId"] <= bound
  BY <1>1, <1>2, UseCasesFew, Bounded
<1>4. id \in Nat /\ \A i \in ec.chars : i["characteristicId"] < id
  <2>1. PICK bound \in Nat : \A item \in Values(N, char) :
          item["characteristicId"] \in Nat /\ item["characteristicId"] <= bound
    BY <1>3
  <2> QED
    BY <1>1, <2>1, NextIdFresh
<1>5. ASSUME NEW m \in N PROVE char[m].characteristicId # id
  <2>1. char[m].characteristicId \in Nat /\ char[m].characteristicId < id
    BY <1>1, <1>2, <1>4 DEF Values
  <2> HIDE DEF id
  <2> QED
    BY ONLY <1>4, <2>1
<1>6. c[uc] = new /\ (\A m \in N : c[m] = char[m]) /\ Values({uc}, one) = {new} /\ one[uc] = new
  BY DEF Values
<1>7. AddCharacteristic(ec, NewCharacteristic(uc))
        = [ec EXCEPT !.chars = UpdateData(ec.chars, {new}, CharacteristicKeys)]
  BY DEF AddCharacteristic, NewCharacteristic
<1>8. new \in StoredCharacteristic(uc) /\ new.characteristicId = id /\ new.value = Nil
  BY <1>4 DEF StoredCharacteristic
<1> HIDE DEF c, one, new, id
<1>9. \A m \in N, x \in {uc} : SameItem(char[m], one[x], CharacteristicKeys) <=> m = x
  BY <1>5, <1>6, <1>8 DEF SameItem, CharacteristicKeys
<1>10. \A m \in N \union {uc} : c[m] = IF m \notin N THEN one[m]
                                       ELSE IF m \in {uc} THEN Merge(char[m], one[m]) ELSE char[m]
  BY <1>6
<1>11. UpdateData(Values(N, char), Values({uc}, one), CharacteristicKeys) = Values(N \union {uc}, c)
  BY ONLY <1>9, <1>10, Updated
<1>12. AddCharacteristic(ec, NewCharacteristic(uc)) = [chars |-> Values(N \union {uc}, c)]
  BY <1>1, <1>6, <1>7, <1>11
<1>13. \A a, b \in N \union {uc} : c[a].characteristicId = c[b].characteristicId => a = b
  BY <1>1, <1>5, <1>6, <1>8
<1>14. \A m \in N \union {uc} : c[m] \in StoredCharacteristic(m)
  BY <1>1, <1>6, <1>8
<1>15. CharacteristicsAre(AddCharacteristic(ec, NewCharacteristic(uc)), N \union {uc}, c)
  BY <1>1, <1>12, <1>13, <1>14 DEF CharacteristicsAre
<1> QED
  BY <1>6, <1>8, <1>15

ValueOfCharacteristic(id, value) ==
    [electricalConnectionId |-> 0, parameterId |-> 0, characteristicId |-> id,
     characteristicType |-> Nil, value |-> value]

\* Setting the value of a characteristic changes no other.
LEMMA CharacteristicSet ==
    ASSUME NEW ec, NEW N, NEW char, CharacteristicsAre(ec, N, char), NEW uc \in N, NEW value \in Nat
    PROVE  \E c : /\ CharacteristicsAre(UpdateCharacteristic(ec, ValueOfCharacteristic(char[uc].characteristicId, value)), N, c)
                  /\ \A m \in N \ {uc} : c[m] = char[m]
                  /\ c[uc].value = value
<1> DEFINE id == char[uc].characteristicId
           new == ValueOfCharacteristic(id, value)
           after == [electricalConnectionId |-> 0, parameterId |-> 0, characteristicId |-> id,
                     characteristicType |-> CharacteristicType(uc), value |-> value]
           c == [m \in N |-> IF m = uc THEN after ELSE char[m]]
           one == [m \in {uc} |-> new]
           filter == [k \in CharacteristicKeys |-> new[k]]
<1>1. /\ ec = [chars |-> Values(N, char)] /\ ec.chars = Values(N, char) /\ N \subseteq UseCases
      /\ \A m \in N : char[m] \in StoredCharacteristic(m)
      /\ \A a, b \in N : char[a].characteristicId = char[b].characteristicId => a = b
  BY DEF CharacteristicsAre
<1>2. id \in Nat
  BY <1>1 DEF StoredCharacteristic
<1>3. \A m \in N : char[m].electricalConnectionId = 0 /\ char[m].parameterId = 0
  BY <1>1 DEF StoredCharacteristic
<1>4. new.electricalConnectionId = 0 /\ new.parameterId = 0 /\ new.characteristicId = id
  BY DEF ValueOfCharacteristic
<1>5. Merge(char[uc], new) = after
  <2>1. char[uc] \in StoredCharacteristic(uc)
    BY <1>1
  <2> HIDE DEF id
  <2> QED
    BY <1>2, <2>1, NilIsNoValue DEF StoredCharacteristic, Merge, ValueOfCharacteristic
<1>6. c[uc] = after /\ (\A m \in N \ {uc} : c[m] = char[m]) /\ Values({uc}, one) = {new} /\ one[uc] = new
  BY DEF Values
<1>7. after \in StoredCharacteristic(uc) /\ after.characteristicId = id /\ after.value = value
  BY <1>2 DEF StoredCharacteristic
<1>8. DOMAIN filter = CharacteristicKeys /\ \A k \in CharacteristicKeys : filter[k] = new[k]
  OBVIOUS
<1>9. GetCharacteristicsForFilter(ec, filter) = {char[uc]}
  <2> HIDE DEF filter, new
  <2>1. \A m \in N : SearchFilterInItem(char[m], filter) <=> m = uc
    BY <1>1, <1>3, <1>4, <1>8 DEF SearchFilterInItem, CharacteristicKeys
  <2> QED
    BY <1>1, <2>1 DEF GetCharacteristicsForFilter, SearchFilterInList, Values
<1>10. UpdateCharacteristic(ec, new) = [ec EXCEPT !.chars = UpdateData(ec.chars, {new}, CharacteristicKeys)]
  <2>1. Cardinality({char[uc]}) = 1
    BY FS_Singleton
  <2> HIDE DEF new
  <2> QED
    BY <1>9, <2>1 DEF UpdateCharacteristic
<1> HIDE DEF c, one, after, new, filter
<1>11. \A m \in N, x \in {uc} : SameItem(char[m], one[x], CharacteristicKeys) <=> m = x
  BY <1>1, <1>3, <1>4, <1>6 DEF SameItem, CharacteristicKeys
<1>12. \A m \in N \union {uc} : c[m] = IF m \notin N THEN one[m]
                                       ELSE IF m \in {uc} THEN Merge(char[m], one[m]) ELSE char[m]
  BY <1>5, <1>6
<1>13. UpdateData(Values(N, char), Values({uc}, one), CharacteristicKeys) = Values(N \union {uc}, c)
  BY ONLY <1>11, <1>12, Updated
<1>14. N \union {uc} = N
  OBVIOUS
<1>15. UpdateCharacteristic(ec, new) = [chars |-> Values(N, c)]
  BY <1>1, <1>6, <1>10, <1>13, <1>14
<1>16. \A a, b \in N : c[a].characteristicId = c[b].characteristicId => a = b
  BY <1>1, <1>6, <1>7
<1>17. \A m \in N : c[m] \in StoredCharacteristic(m)
  BY <1>1, <1>6, <1>7
<1>18. CharacteristicsAre(UpdateCharacteristic(ec, new), N, c)
  BY <1>1, <1>15, <1>16, <1>17 DEF CharacteristicsAre
<1> QED
  BY <1>6, <1>7, <1>18 DEF new

NominalRead ==
    \A N, char : CharacteristicsAre(electricalConnection, N, char) =>
        /\ \A uc \in N : NominalMaxOf(uc) = char[uc].value
        /\ \A uc \in UseCases \ N : NominalMaxOf(uc) = Nil

\* The getters of the nominal maxima read what is stored for the use case.
LEMMA NominalReadHolds == NominalRead
<1> SUFFICES ASSUME NEW N, NEW char, CharacteristicsAre(electricalConnection, N, char)
             PROVE  /\ \A uc \in N : NominalMaxOf(uc) = char[uc].value
                    /\ \A uc \in UseCases \ N : NominalMaxOf(uc) = Nil
  BY DEF NominalRead
<1>1. ASSUME NEW uc \in N PROVE NominalMaxOf(uc) = char[uc].value
  <2>1. uc \in UseCases /\ char[uc].characteristicId \in Nat
    BY DEF CharacteristicsAre, StoredCharacteristic
  <2>2. GetCharacteristicsForFilter(electricalConnection, CharacteristicFilter(uc)) = {char[uc]}
    BY <2>1, CharacteristicFound
  <2>3. First({char[uc]}, "characteristicId") = char[uc]
    BY <2>1 DEF First
  <2> QED
    BY <2>2, <2>3 DEF NominalMaxOf
<1>2. ASSUME NEW uc \in UseCases \ N PROVE NominalMaxOf(uc) = Nil
  <2>1. GetCharacteristicsForFilter(electricalConnection, CharacteristicFilter(uc)) = {}
    BY CharacteristicFound
  <2> QED
    BY <2>1 DEF NominalMaxOf
<1> QED
  BY <1>1, <1>2

-----------------------------------------------------------------------------
(* What each action does to the values that are read                       *)

LimitsInv == \E desc, item : LimitsAre(loadControl, added, added, desc, item)
KeysInv == \E desc, item : KeysAre(deviceConfiguration, KeysOf(added), KeysOf(added), desc, item)
NominalInv == \E char : CharacteristicsAre(electricalConnection, added, char)

\* Nothing is written before a use case was added and the service started.
StoredInv ==
    /\ added \subseteq UseCases /\ running \in BOOLEAN
    /\ running => added # {}
    /\ LimitsInv /\ KeysInv /\ NominalInv

InitialLimit == [value |-> 0, isChangeable |-> TRUE, isActive |-> FALSE, duration |-> 0]
InitialSetting == [value |-> 0, isChangeable |-> TRUE]

\* Adding a use case gives it its initial limit and changes no other limit.
LEMMA AddLimits ==
    ASSUME StoredInv, NEW uc \in UseCases, AddUseCase(uc)
    PROVE  /\ LimitsInv'
           /\ \A m \in added : LimitOf(m)' = LimitOf(m)
           /\ LimitOf(uc)' = InitialLimit
<1>1. PICK desc, item : LimitsAre(loadControl, added, added, desc, item)
  BY DEF StoredInv, LimitsInv
<1>2. uc \notin added /\ added' = added \union {uc} /\ loadControl' = WithLimit(loadControl, uc)
  BY DEF AddUseCase
<1>3. PICK d, i : /\ LimitsAre(WithLimit(loadControl, uc), added \union {uc}, added \union {uc}, d, i)
                  /\ \A m \in added : i[m] = item[m]
                  /\ IsInitialLimit(i[uc])
  <2>1. uc \notin added
    BY <1>2
  <2> QED
    <3>1. WithInitialLimit(WithLimit(loadControl, uc), added, uc, item)
      BY <1>1, <2>1, WithLimitAdds
    <3> QED
      BY <3>1 DEF WithInitialLimit
<1>4. LimitsAre(loadControl', added', added', d, i)
  BY <1>2, <1>3
<1>5. LimitsRead /\ LimitsRead'
  BY LimitsReadHolds, PTL
<1>6. \A m \in added : LimitOf(m) = AsLimit(item[m])
  BY <1>1, <1>5 DEF LimitsRead
<1>7. \A m \in added' : LimitOf(m)' = AsLimit(i[m])
  BY <1>4, <1>5 DEF LimitsRead
<1>8. AsLimit(i[uc]) = InitialLimit
  BY <1>3 DEF AsLimit, InitialLimit, IsInitialLimit
<1>9. LimitsInv'
  BY <1>4 DEF LimitsInv
<1> QED
  BY <1>2, <1>3, <1>6, <1>7, <1>8, <1>9

\* Adding a use case starts its failsafe limit and the shared duration anew.
LEMMA AddKeys ==
    ASSUME StoredInv, NEW uc \in UseCases, AddUseCase(uc)
    PROVE  /\ KeysInv'
           /\ \A m \in UseCases \ {uc} : KeyValue(FailsafeKey(m))' = KeyValue(FailsafeKey(m))
           /\ KeyValue(FailsafeKey(uc))' = InitialSetting
           /\ KeyValue(DurationKey)' = InitialSetting
<1>1. PICK desc, item : KeysAre(deviceConfiguration, KeysOf(added), KeysOf(added), desc, item)
  BY DEF StoredInv, KeysInv
<1>2. /\ uc \notin added /\ added' = added \union {uc} /\ added \in SUBSET UseCases
      /\ deviceConfiguration' = WithFailsafe(deviceConfiguration, uc)
  BY DEF AddUseCase, StoredInv
<1>3. PICK d, i : /\ KeysAre(WithFailsafe(deviceConfiguration, uc),
                             KeysOf(added \union {uc}), KeysOf(added \union {uc}), d, i)
                  /\ \A m \in added : i[FailsafeKey(m)] = item[FailsafeKey(m)]
                  /\ IsInitialKey(i[FailsafeKey(uc)]) /\ IsInitialKey(i[DurationKey])
  <2>1. uc \notin added /\ added \in SUBSET UseCases
    BY <1>2
  <2> QED
    BY ONLY <1>1, <2>1, uc \in UseCases, WithFailsafeAdds
<1>4. KeysAre(deviceConfiguration', KeysOf(added'), KeysOf(added'), d, i)
  BY <1>2, <1>3
<1>5. KeysRead /\ KeysRead'
  BY KeysReadHolds, PTL
<1>6. /\ \A k \in KeysOf(added) : KeyValue(k) = AsSetting(item[k])
      /\ \A k \in FailsafeKeys \ KeysOf(added) : KeyValue(k) = Nil
  BY <1>1, <1>5 DEF KeysRead
<1>7. /\ \A k \in KeysOf(added') : KeyValue(k)' = AsSetting(i[k])
      /\ \A k \in FailsafeKeys \ KeysOf(added') : KeyValue(k)' = Nil
  BY <1>4, <1>5 DEF KeysRead
<1>8. /\ \A m \in added : FailsafeKey(m) \in KeysOf(added) /\ FailsafeKey(m) \in KeysOf(added')
      /\ \A m \in UseCases \ (added \union {uc}) :
            FailsafeKey(m) \in FailsafeKeys \ KeysOf(added) /\ FailsafeKey(m) \in FailsafeKeys \ KeysOf(added')
      /\ FailsafeKey(uc) \in KeysOf(added') /\ DurationKey \in KeysOf(added')
  BY <1>2, Names DEF KeysOf
<1>9. \A k \in {FailsafeKey(uc), DurationKey} : AsSetting(i[k]) = InitialSetting
  BY <1>3 DEF AsSetting, InitialSetting, IsInitialKey
<1>10. KeysInv'
  BY <1>4 DEF KeysInv
<1>11. \A m \in UseCases \ {uc} : KeyValue(FailsafeKey(m))' = KeyValue(FailsafeKey(m))
  <2> TAKE m \in UseCases \ {uc}
  <2>1. CASE m \in added
    BY <1>3, <1>6, <1>7, <1>8, <2>1
  <2>2. CASE m \notin added
    BY <1>6, <1>7, <1>8, <2>2
  <2> QED
    BY <2>1, <2>2
<1>12. KeyValue(FailsafeKey(uc))' = InitialSetting /\ KeyValue(DurationKey)' = InitialSetting
  BY <1>7, <1>8, <1>9
<1> QED
  BY <1>10, <1>11, <1>12

\* Adding a use case changes no nominal maximum.
LEMMA AddNominal ==
    ASSUME StoredInv, NEW uc \in UseCases, AddUseCase(uc)
    PROVE  NominalInv' /\ \A m \in UseCases : NominalMaxOf(m)' = NominalMaxOf(m)
<1>1. PICK char : CharacteristicsAre(electricalConnection, added, char)
  BY DEF StoredInv, NominalInv
<1>2. /\ uc \notin added /\ added' = added \union {uc}
      /\ electricalConnection' = AddCharacteristic(electricalConnection, NewCharacteristic(uc))
  BY DEF AddUseCase, NewCharacteristic
<1>3. PICK c : /\ CharacteristicsAre(AddCharacteristic(electricalConnection, NewCharacteristic(uc)),
                                     added \union {uc}, c)
               /\ \A m \in added : c[m] = char[m]
               /\ c[uc].value = Nil
  BY <1>1, <1>2, CharacteristicAdded
<1>4. CharacteristicsAre(electricalConnection', added', c)
  BY <1>2, <1>3
<1>5. NominalRead /\ NominalRead'
  BY NominalReadHolds, PTL
<1>6. /\ \A m \in added : NominalMaxOf(m) = char[m].value
      /\ \A m \in UseCases \ added : NominalMaxOf(m) = Nil
  BY <1>1, <1>5 DEF NominalRead
<1>7. /\ \A m \in added' : NominalMaxOf(m)' = c[m].value
      /\ \A m \in UseCases \ added' : NominalMaxOf(m)' = Nil
  <2>1. \A N, f : CharacteristicsAre(electricalConnection', N, f) =>
          /\ \A m \in N : NominalMaxOf(m)' = f[m].value
          /\ \A m \in UseCases \ N : NominalMaxOf(m)' = Nil
    BY <1>5 DEF NominalRead
  <2> QED
    BY <1>4, <2>1
<1> QED
  BY <1>2, <1>3, <1>4, <1>6, <1>7 DEF NominalInv

\* The application sets the limit it names and no other.
LEMMA SetLimitStep ==
    ASSUME StoredInv, NEW uc \in UseCases, NEW limit \in LoadLimit, SetLimit(uc, limit)
    PROVE  /\ LimitsInv' /\ loadControl'.descs = loadControl.descs
           /\ LimitOf(uc)' = limit
           /\ \A m \in added \ {uc} : LimitOf(m)' = LimitOf(m)
<1>1. PICK desc, item : LimitsAre(loadControl, added, added, desc, item)
  BY DEF StoredInv, LimitsInv
<1> DEFINE id == desc[uc].limitId
           period == IF limit.duration > 0 THEN limit.duration ELSE Nil
           new == [limitId |-> id, value |-> limit.value, isLimitActive |-> limit.isActive,
                   isLimitChangeable |-> limit.isChangeable, timePeriod |-> period]
           after == [m \in added |-> IF m = uc THEN new ELSE item[m]]
<1>2. uc \in added /\ added' = added
  BY DEF SetLimit
<1>3. LimitsRead /\ LimitsRead'
  BY LimitsReadHolds, PTL
<1>4. \A m \in added : LoadControlServerAndLimitId(m) = desc[m].limitId /\ LimitOf(m) = AsLimit(item[m])
  BY <1>1, <1>3 DEF LimitsRead
<1>5. loadControl' = UpdateOne(loadControl, LimitData(limit.value, limit.isChangeable, limit.isActive, period),
                               [limitId |-> id], "limitId", LimitDeletion(id))
  <2>1. LoadControlServerAndLimitId(uc) = id
    BY <1>2, <1>4
  <2> HIDE DEF id
  <2> QED
    BY <2>1 DEF SetLimit, UpdateLimitDataForFilters, UpdateOne
<1>6. /\ limit.value \in Nat /\ limit.isChangeable \in BOOLEAN /\ limit.isActive \in BOOLEAN
      /\ limit.duration \in Nat
  BY DEF LoadLimit
<1>7. period \in Nat \union {Nil}
  BY <1>6
<1>8. after[uc] = new /\ \A m \in added \ {uc} : after[m] = item[m]
  BY <1>2
<1>9. AsLimit(new) = limit
  <2>1. (IF period = Nil THEN 0 ELSE period) = limit.duration
    BY <1>6, NilIsNoValue
  <2> HIDE DEF period, id
  <2>2. limit = [value |-> limit.value, isChangeable |-> limit.isChangeable,
                 isActive |-> limit.isActive, duration |-> limit.duration]
    BY DEF LoadLimit
  <2>3. (limit.isChangeable = TRUE) = limit.isChangeable /\ (limit.isActive = TRUE) = limit.isActive
    BY <1>6
  <2>4. /\ new.value = limit.value /\ new.isLimitChangeable = limit.isChangeable
        /\ new.isLimitActive = limit.isActive /\ new.timePeriod = period
    OBVIOUS
  <2> HIDE DEF new
  <2> QED
    BY <2>1, <2>2, <2>3, <2>4 DEF AsLimit
<1>10. LimitsAre(loadControl', added, added, desc, after)
  <2>1. \A p, n, a : p = period /\ n = new /\ a = after =>
          LimitsAre(UpdateOne(loadControl, LimitData(limit.value, limit.isChangeable, limit.isActive, p),
                              [limitId |-> id], "limitId", LimitDeletion(id)), added, added, desc, a)
    <3> TAKE p, n, a
    <3> HAVE p = period /\ n = new /\ a = after
    <3>1. p \in Nat \union {Nil} /\ a[uc] = n /\ \A m \in added \ {uc} : a[m] = item[m]
      BY <1>7, <1>8
    <3>2. n = [limitId |-> id, value |-> limit.value, isLimitActive |-> limit.isActive,
               isLimitChangeable |-> limit.isChangeable, timePeriod |-> p]
      OBVIOUS
    <3>3. id = desc[uc].limitId
      BY <1>2
    <3> HIDE DEF period, new, after, id
    <3> QED
      BY ONLY <1>1, <1>2, <1>6, <3>1, <3>2, <3>3, LimitSet
  <2> QED
    BY <1>5, <2>1
<1> HIDE DEF id, period, new, after
<1>11. \A m \in added : LimitOf(m)' = AsLimit(after[m])
  BY <1>2, <1>3, <1>10 DEF LimitsRead
<1>12. LimitsInv'
  BY <1>2, <1>10 DEF LimitsInv
<1>13. loadControl'.descs = loadControl.descs
  BY <1>1, <1>10 DEF LimitsAre, Holds
<1> QED
  BY <1>2, <1>4, <1>8, <1>9, <1>11, <1>12, <1>13

\* The limits a write names, and what it brings.
NamedUseCases(items) == {i.uc : i \in items}
LimitPayload(items) ==
    {[limitId |-> Own(i.uc), value |-> i.value, isLimitActive |-> i.isLimitActive,
      isLimitChangeable |-> Nil, timePeriod |-> i.timePeriod] : i \in items}

\* A write changes the limits it names, if it may, and its event tells of them.
LEMMA WriteLimitsStep ==
    ASSUME StoredInv, NEW items \in SUBSET LimitItems,
           \A i, j \in items : i.uc = j.uc => i = j, WriteLimits(items)
    PROVE  /\ LimitsInv' /\ loadControl'.descs = loadControl.descs
           /\ NamedUseCases(items) \subseteq added
           /\ \A m \in NamedUseCases(items) : LimitOf(m).isChangeable /\ LimitOf(m)'.isChangeable
           /\ \A m \in added \ NamedUseCases(items) : LimitOf(m)' = LimitOf(m)
           /\ \A m \in NamedUseCases(items) :
                 LimitPayloadMatches(loadControl, LimitPayload(items), LimitFilter(m))
<1> DEFINE M == NamedUseCases(items)
<1>1. PICK desc, item : LimitsAre(loadControl, added, added, desc, item)
  BY DEF StoredInv, LimitsInv
<1> DEFINE Of(m) == CHOOSE i \in items : i.uc = m
           Write(i) == [limitId |-> Own(i.uc), value |-> i.value, isLimitActive |-> i.isLimitActive,
                        isLimitChangeable |-> Nil, timePeriod |-> i.timePeriod]
           new == [m \in M |-> Write(Of(m))]
           after == [m \in added |-> IF m \in M THEN Merge(item[m], new[m]) ELSE item[m]]
<1>2. /\ added' = added /\ \A i \in items : i.uc \in added /\ LimitOf(i.uc).isChangeable
      /\ loadControl' = DataWritten(loadControl, LimitPayload(items), "limitId")
  BY DEF WriteLimits, LimitPayload, DataWritten
<1>3. LimitsRead /\ LimitsRead'
  BY LimitsReadHolds, PTL
<1>4. \A m \in added : Own(m) = desc[m].limitId /\ LimitOf(m) = AsLimit(item[m])
  BY <1>1, <1>3 DEF LimitsRead, Own
<1>5. M \in SUBSET added /\ \A m \in M : LimitOf(m).isChangeable
  BY <1>2 DEF NamedUseCases
<1>6. \A i \in items : i.uc \in M /\ Of(i.uc) = i
  BY DEF NamedUseCases
<1>7. \A m \in M : Of(m) \in items /\ Of(m).uc = m
  BY DEF NamedUseCases
<1>8. LimitPayload(items) = Values(M, new)
  <2>1. LimitPayload(items) = {Write(i) : i \in items}
    BY DEF LimitPayload
  <2>2. \A m \in M : new[m] = Write(Of(m))
    OBVIOUS
  <2> HIDE DEF Write, Of, new, M
  <2> QED
    BY <1>6, <1>7, <2>1, <2>2 DEF Values
<1>9. ASSUME NEW m \in M PROVE new[m] \in LimitWrite(desc[m].limitId)
  <2> DEFINE i == Of(m)
  <2>1. i \in items /\ i.uc = m /\ Own(m) = desc[m].limitId
    BY <1>4, <1>5, <1>7
  <2>2. new[m] = Write(i)
    OBVIOUS
  <2> HIDE DEF i
  <2>3. i.value \in Nat /\ i.isLimitActive \in BOOLEAN \union {Nil} /\ i.timePeriod \in Nat \union {Nil}
    BY <2>1, CsDataAssumption
  <2> HIDE DEF new
  <2> QED
    BY <2>1, <2>2, <2>3 DEF LimitWrite
<1> HIDE DEF Of, Write, new
<1>10. \A m \in added : after[m] = IF m \in M THEN Merge(item[m], new[m]) ELSE item[m]
  OBVIOUS
<1> HIDE DEF after, M
<1>11. /\ LimitsAre(DataWritten(loadControl, Values(M, new), "limitId"), added, added, desc, after)
       /\ \A m \in added : after[m].isLimitChangeable = item[m].isLimitChangeable
  <2> DEFINE N == added
  <2>1. LimitsAre(loadControl, N, N, desc, item) /\ M \in SUBSET N
    BY <1>1, <1>5
  <2>2. \A m \in N : after[m] = IF m \in M THEN Merge(item[m], new[m]) ELSE item[m]
    BY <1>10
  <2>3. \A m \in M : new[m] \in LimitWrite(desc[m].limitId)
    BY <1>9
  <2> HIDE DEF N
  <2>4. LimitsAre(DataWritten(loadControl, Values(M, new), "limitId"), N, N, desc, after)
    BY <2>1, <2>2, <2>3, LimitsWritten
  <2>5. \A m \in N : after[m].isLimitChangeable = item[m].isLimitChangeable
    <3> SUFFICES ASSUME NEW m \in N
                 PROVE  after[m].isLimitChangeable = item[m].isLimitChangeable
      OBVIOUS
    <3>1. item[m] \in StoredLimit
      BY <2>1 DEF LimitsAre
    <3>2. CASE m \in M
      <4>1. new[m] \in LimitWrite(desc[m].limitId) /\ after[m] = Merge(item[m], new[m])
        BY <2>2, <2>3, <3>2
      <4> QED
        BY <3>1, <4>1 DEF Merge, StoredLimit, LimitWrite
    <3>3. CASE m \notin M
      BY <2>2, <3>3
    <3> QED
      BY <3>2, <3>3
  <2> QED
    BY <2>4, <2>5 DEF N
<1>12. LimitsAre(loadControl', added, added, desc, after)
  BY <1>2, <1>8, <1>11
<1>13. \A m \in added : LimitOf(m)' = AsLimit(after[m])
  BY <1>2, <1>3, <1>12 DEF LimitsRead
<1>14. LimitsInv'
  BY <1>2, <1>12 DEF LimitsInv
<1>15. loadControl'.descs = loadControl.descs
  BY <1>1, <1>12 DEF LimitsAre, Holds
<1>16. \A m \in added \ M : LimitOf(m)' = LimitOf(m)
  BY <1>4, <1>10, <1>13
<1>17. ASSUME NEW m \in M PROVE LimitOf(m)'.isChangeable
  <2>1. m \in added /\ LimitOf(m).isChangeable
    BY <1>5
  <2>2. (AsLimit(item[m])).isChangeable
    BY <1>4, <2>1
  <2>3. item[m].isLimitChangeable = TRUE
    BY <2>2 DEF AsLimit
  <2>4. after[m].isLimitChangeable = TRUE
    BY <1>11, <2>1, <2>3
  <2>5. (AsLimit(after[m])).isChangeable
    BY <2>4 DEF AsLimit
  <2> QED
    BY <1>13, <2>1, <2>5
<1>18. ASSUME NEW m \in M PROVE LimitPayloadMatches(loadControl, LimitPayload(items), LimitFilter(m))
  <2>1. m \in added /\ new[m] \in LimitPayload(items)
    BY <1>5, <1>8 DEF Values
  <2>2. Finds(loadControl.descs, LimitFilter(m), desc[m])
    BY <1>1, <2>1, LimitFound
  <2>3. new[m].limitId = desc[m].limitId /\ new[m].value # Nil
    BY <1>9, NilIsNoValue DEF LimitWrite
  <2> QED
    BY <2>1, <2>2, <2>3 DEF LimitPayloadMatches, GetLimitDescriptionsForFilter, Finds
<1> QED
  BY <1>5, <1>14, <1>15, <1>16, <1>17, <1>18 DEF M

\* The setters of the failsafe values.
LEMMA SetKeyStep ==
    ASSUME StoredInv, NEW k \in KeysOf(added), NEW value \in Nat, NEW changeable \in BOOLEAN,
           deviceConfiguration' = UpdateKeyValueDataForFilter(deviceConfiguration,
                                      KeyData(value, changeable), [keyName |-> k]),
           added' = added
    PROVE  /\ KeysInv' /\ deviceConfiguration'.descs = deviceConfiguration.descs
           /\ KeyValue(k)' = [value |-> value, isChangeable |-> changeable]
           /\ \A m \in FailsafeKeys \ {k} : KeyValue(m)' = KeyValue(m)
<1> DEFINE N == KeysOf(added)
<1>1. PICK desc, item : KeysAre(deviceConfiguration, N, N, desc, item)
  BY DEF StoredInv, KeysInv
<1>2. N \union {k} = N
  OBVIOUS
<1> HIDE DEF N
<1>3. k \in N
  BY DEF N
<1>4. PICK i : /\ KeysAre(deviceConfiguration', N, N \union {k}, desc, i)
               /\ \A m \in N \ {k} : i[m] = item[m]
               /\ i[k].value = value /\ i[k].isValueChangeable = changeable
  <2>1. KeySetTo(deviceConfiguration', N, N, desc, item, k, value, changeable)
    BY <1>1, <1>3, KeySet
  <2> QED
    BY <2>1 DEF KeySetTo
<1>5. KeysAre(deviceConfiguration', N, N, desc, i)
  BY <1>2, <1>4
<1>6. KeysRead /\ KeysRead'
  BY KeysReadHolds, PTL
<1>7. /\ \A m \in N : KeyValue(m) = AsSetting(item[m])
      /\ \A m \in FailsafeKeys \ N : KeyValue(m) = Nil
  BY <1>1, <1>6 DEF KeysRead
<1>8. /\ \A m \in N : KeyValue(m)' = AsSetting(i[m])
      /\ \A m \in FailsafeKeys \ N : KeyValue(m)' = Nil
  BY <1>5, <1>6 DEF KeysRead
<1>9. AsSetting(i[k]) = [value |-> value, isChangeable |-> changeable]
  <2>1. (i[k].isValueChangeable = TRUE) = changeable
    BY <1>4
  <2> QED
    BY <1>4, <2>1 DEF AsSetting
<1>10. KeysInv'
  BY <1>5 DEF KeysInv, N
<1>11. deviceConfiguration'.descs = deviceConfiguration.descs
  BY <1>1, <1>5 DEF KeysAre, Holds
<1> QED
  BY <1>3, <1>4, <1>7, <1>8, <1>9, <1>10, <1>11

KeyPayload(written) ==
    {[keyId |-> KeyIdOf(k), value |-> written[k], isValueChangeable |-> Nil] : k \in DOMAIN written}

\* A write changes the failsafe values it names, if it may, and its event tells
\* of them.
LEMMA WriteFailsafeStep ==
    ASSUME StoredInv, NEW written \in KeyWrites, WriteFailsafe(written)
    PROVE  /\ KeysInv' /\ deviceConfiguration'.descs = deviceConfiguration.descs
           /\ DOMAIN written \subseteq KeysOf(added)
           /\ \A m \in DOMAIN written : KeyValue(m).isChangeable /\ KeyValue(m)'.isChangeable
           /\ \A m \in FailsafeKeys \ DOMAIN written : KeyValue(m)' = KeyValue(m)
           /\ \A m \in DOMAIN written :
                 KeyPayloadMatches(deviceConfiguration, KeyPayload(written), [keyName |-> m])
<1> DEFINE N == KeysOf(added)
           M == DOMAIN written
           new == [k \in M |-> [keyId |-> KeyIdOf(k), value |-> written[k], isValueChangeable |-> Nil]]
<1>1. PICK desc, item : KeysAre(deviceConfiguration, N, N, desc, item)
  BY DEF StoredInv, KeysInv
<1> DEFINE after == [m \in N |-> IF m \in M THEN Merge(item[m], new[m]) ELSE item[m]]
<1>2. /\ added' = added /\ \A k \in M : KeyValue(k) # Nil /\ KeyValue(k).isChangeable
      /\ deviceConfiguration' = DataWritten(deviceConfiguration, KeyPayload(written), "keyId")
  BY DEF WriteFailsafe, KeyPayload, DataWritten
<1>3. M \subseteq FailsafeKeys /\ \A k \in M : written[k] \in Nat
  BY CsDataAssumption
<1>4. KeyPayload(written) = Values(M, new)
  BY DEF KeyPayload, Values
<1>5. KeysRead /\ KeysRead'
  BY KeysReadHolds, PTL
<1> HIDE DEF N
<1>6. /\ \A m \in N : KeyIdOf(m) = desc[m].keyId /\ KeyValue(m) = AsSetting(item[m])
      /\ \A m \in FailsafeKeys \ N : KeyValue(m) = Nil
  BY <1>1, <1>5 DEF KeysRead
<1>7. M \in SUBSET N
  BY <1>2, <1>3, <1>6
<1>8. \A m \in M : new[m] \in KeyWrite(desc[m].keyId)
  BY <1>3, <1>6, <1>7 DEF KeyWrite
<1>9. \A m \in N : after[m] = IF m \in M THEN Merge(item[m], new[m]) ELSE item[m]
  OBVIOUS
<1> HIDE DEF M, new, after
<1>10. /\ KeysAre(DataWritten(deviceConfiguration, Values(M, new), "keyId"), N, N, desc, after)
       /\ \A m \in N : after[m].isValueChangeable = item[m].isValueChangeable
  BY <1>1, <1>7, <1>8, <1>9, KeysWritten
<1>11. KeysAre(deviceConfiguration', N, N, desc, after)
  BY <1>2, <1>4, <1>10
<1>12. /\ \A m \in N : KeyValue(m)' = AsSetting(after[m])
       /\ \A m \in FailsafeKeys \ N : KeyValue(m)' = Nil
  BY <1>5, <1>11 DEF KeysRead
<1>13. KeysInv'
  BY <1>2, <1>11 DEF KeysInv, N
<1>14. deviceConfiguration'.descs = deviceConfiguration.descs
  BY <1>1, <1>11 DEF KeysAre, Holds
<1>15. \A m \in FailsafeKeys \ M : KeyValue(m)' = KeyValue(m)
  BY <1>6, <1>9, <1>12
<1>16. ASSUME NEW m \in M PROVE KeyValue(m).isChangeable /\ KeyValue(m)'.isChangeable
  <2>1. m \in N /\ KeyValue(m).isChangeable
    BY <1>2, <1>7
  <2>2. (AsSetting(item[m])).isChangeable
    BY <1>6, <2>1
  <2>3. item[m].isValueChangeable = TRUE
    BY <2>2 DEF AsSetting
  <2>4. after[m].isValueChangeable = TRUE
    BY <1>10, <2>1, <2>3
  <2>5. (AsSetting(after[m])).isChangeable
    BY <2>4 DEF AsSetting
  <2>6. KeyValue(m)'.isChangeable
    BY <1>12, <2>1, <2>5
  <2> QED
    BY <2>1, <2>6
<1>17. ASSUME NEW m \in M
       PROVE  KeyPayloadMatches(deviceConfiguration, KeyPayload(written), [keyName |-> m])
  <2>1. m \in N /\ new[m] \in KeyPayload(written)
    BY <1>4, <1>7 DEF Values
  <2>2. Finds(deviceConfiguration.descs, [keyName |-> m], desc[m])
    BY <1>1, <2>1, KeyFound
  <2>3. new[m].keyId = desc[m].keyId
    BY <1>8 DEF KeyWrite
  <2> QED
    BY <2>1, <2>2, <2>3 DEF KeyPayloadMatches, GetKeyValueDescriptionsForFilter, Finds
<1> QED
  BY <1>7, <1>13, <1>14, <1>15, <1>16, <1>17 DEF M, N

\* The application sets the nominal maximum it names and no other.
LEMMA SetNominalStep ==
    ASSUME StoredInv, NEW uc \in UseCases, NEW value \in Nat, SetNominalMax(uc, value)
    PROVE  /\ NominalInv' /\ NominalMaxOf(uc)' = value
           /\ \A m \in UseCases \ {uc} : NominalMaxOf(m)' = NominalMaxOf(m)
<1>1. PICK char : CharacteristicsAre(electricalConnection, added, char)
  BY DEF StoredInv, NominalInv
<1>2. uc \in added /\ added' = added
  BY DEF SetNominalMax
<1>3. First({char[uc]}, "characteristicId") = char[uc]
  BY <1>1, <1>2 DEF First, CharacteristicsAre, StoredCharacteristic
<1>4. electricalConnection' = UpdateCharacteristic(electricalConnection,
                                  ValueOfCharacteristic(char[uc].characteristicId, value))
  <2>1. GetCharacteristicsForFilter(electricalConnection, CharacteristicFilter(uc)) = {char[uc]}
    BY <1>1, <1>2, CharacteristicFound
  <2> QED
    BY <1>3, <2>1 DEF SetNominalMax, ValueOfCharacteristic
<1>5. PICK c : /\ CharacteristicsAre(electricalConnection', added, c)
               /\ \A m \in added \ {uc} : c[m] = char[m]
               /\ c[uc].value = value
  BY <1>1, <1>2, <1>4, CharacteristicSet
<1>6. NominalRead /\ NominalRead'
  BY NominalReadHolds, PTL
<1>7. /\ \A m \in added : NominalMaxOf(m) = char[m].value
      /\ \A m \in UseCases \ added : NominalMaxOf(m) = Nil
  BY <1>1, <1>6 DEF NominalRead
<1>8. /\ \A m \in added : NominalMaxOf(m)' = c[m].value
      /\ \A m \in UseCases \ added : NominalMaxOf(m)' = Nil
  BY <1>5, <1>6 DEF NominalRead
<1>9. NominalInv'
  BY <1>2, <1>5 DEF NominalInv
<1> QED
  BY <1>2, <1>5, <1>7, <1>8, <1>9

-----------------------------------------------------------------------------
(* The inductive invariant                                                 *)

View == [limit : [UseCases -> LoadLimit \union {Nil}],
         failsafe : [UseCases -> Setting \union {Nil}],
         duration : Setting \union {Nil}]

\* An event goroutine h will tell the application of a limit, or of a key.
TellsLimit(h, uc) ==
    /\ h.uc = uc /\ h.kind = "limits"
    /\ LimitPayloadMatches(loadControl, h.payload, LimitFilter(uc))
TellsKey(h, key) ==
    /\ h.kind = "failsafe"
    /\ KeyPayloadMatches(deviceConfiguration, h.payload, [keyName |-> key])

LimitTold(uc) == view.limit[uc] = LimitOf(uc) \/ \E h \in handlers : TellsLimit(h, uc)
FailsafeTold(uc) ==
    \/ view.failsafe[uc] = KeyValue(FailsafeKey(uc))
    \/ \E h \in handlers : h.uc = uc /\ TellsKey(h, FailsafeKey(uc))
DurationTold ==
    \/ view.duration = KeyValue(DurationKey)
    \/ \E h \in handlers : h.uc \in added /\ TellsKey(h, DurationKey)

ToldInv ==
    /\ view \in View
    /\ \A h \in handlers : h.uc \in UseCases /\ h.kind \in {"limits", "failsafe"}
    /\ ~running => handlers = {}
    /\ \A uc \in added : LimitTold(uc) /\ FailsafeTold(uc)
    /\ DurationTold

Inductive == StoredInv /\ ToldInv

ReadsTyped ==
    /\ \A uc \in UseCases : LimitOf(uc) \in LoadLimit \union {Nil}
    /\ \A k \in FailsafeKeys : KeyValue(k) \in Setting \union {Nil}

\* Getters return values of the right type, or the error.
LEMMA ReadsTypedHolds == StoredInv => ReadsTyped
<1> SUFFICES ASSUME StoredInv PROVE ReadsTyped
  OBVIOUS
<1>1. PICK desc, item : LimitsAre(loadControl, added, added, desc, item)
  BY DEF StoredInv, LimitsInv
<1>2. \A uc \in UseCases : LimitOf(uc) \in LoadLimit \union {Nil}
  BY <1>1, LimitsReadHolds DEF LimitsRead
<1>3. PICK d, i : KeysAre(deviceConfiguration, KeysOf(added), KeysOf(added), d, i)
  BY DEF StoredInv, KeysInv
<1>4. /\ \A k \in KeysOf(added) : KeyValue(k) = AsSetting(i[k])
      /\ \A k \in FailsafeKeys \ KeysOf(added) : KeyValue(k) = Nil
  BY <1>3, KeysReadHolds DEF KeysRead
<1>5. \A k \in KeysOf(added) : AsSetting(i[k]) \in Setting
  BY <1>3, StoredIsSetting DEF KeysAre
<1> QED
  BY <1>2, <1>4, <1>5 DEF ReadsTyped

EverythingReads ==
    /\ Everything \in View
    /\ \A uc \in UseCases : /\ Everything.limit[uc] = LimitOf(uc)
                            /\ Everything.failsafe[uc] = KeyValue(FailsafeKey(uc))
    /\ Everything.duration = KeyValue(DurationKey)

\* So does the view of an application that reads everything.
LEMMA EverythingTyped == ReadsTyped => EverythingReads
<1> SUFFICES ASSUME ReadsTyped PROVE EverythingReads
  OBVIOUS
<1> DEFINE limit == [lpc |-> ConsumptionLimit, lpp |-> ProductionLimit]
           failsafe == [lpc |-> FailsafeConsumptionActivePowerLimit,
                        lpp |-> FailsafeProductionActivePowerLimit]
<1>1. \A uc \in UseCases : limit[uc] = LimitOf(uc)
  BY DEF UseCases, ConsumptionLimit, ProductionLimit
<1>2. \A uc \in UseCases : failsafe[uc] = KeyValue(FailsafeKey(uc))
  BY DEF UseCases, FailsafeConsumptionActivePowerLimit, FailsafeProductionActivePowerLimit
<1>3. limit = [uc \in UseCases |-> limit[uc]] /\ failsafe = [uc \in UseCases |-> failsafe[uc]]
  BY DEF UseCases
<1>4. Everything = [limit |-> limit, failsafe |-> failsafe, duration |-> KeyValue(DurationKey)]
  BY DEF Everything, FailsafeDurationMinimum
<1> HIDE DEF limit, failsafe
<1>5. limit \in [UseCases -> LoadLimit \union {Nil}]
  BY <1>1, <1>3 DEF ReadsTyped
<1>6. failsafe \in [UseCases -> Setting \union {Nil}]
  BY <1>2, <1>3, Names DEF ReadsTyped
<1>7. KeyValue(DurationKey) \in Setting \union {Nil}
  BY Names DEF ReadsTyped
<1> QED
  BY <1>1, <1>2, <1>4, <1>5, <1>6, <1>7 DEF View, EverythingReads

\* Nothing is stored at first.
LEMMA InitStored == Init => StoredInv
<1> SUFFICES ASSUME Init PROVE StoredInv
  OBVIOUS
<1> DEFINE none == [n \in {} |-> 0]
<1>1. Values({}, none) = {} /\ KeysOf({}) = {}
  BY DEF Values, KeysOf
<1>2. LimitsAre(loadControl, {}, {}, none, none)
  BY <1>1 DEF Init, LimitsAre, Holds
<1>3. KeysAre(deviceConfiguration, {}, {}, none, none)
  BY <1>1 DEF Init, KeysAre, Holds
<1>4. CharacteristicsAre(electricalConnection, {}, none)
  BY <1>1 DEF Init, CharacteristicsAre
<1>5. added = {} /\ running = FALSE
  BY DEF Init
<1> HIDE DEF none
<1>6. LimitsInv /\ KeysInv /\ NominalInv
  BY <1>1, <1>2, <1>3, <1>4, <1>5 DEF LimitsInv, KeysInv, NominalInv
<1> QED
  BY <1>5, <1>6 DEF StoredInv

\* The invariant holds at first.
LEMMA InitInductive == Init => Inductive
<1> SUFFICES ASSUME Init PROVE Inductive
  OBVIOUS
<1>1. StoredInv
  BY InitStored
<1>2. Everything \in View /\ Everything.duration = KeyValue(DurationKey)
  BY <1>1, ReadsTypedHolds, EverythingTyped DEF EverythingReads
<1>3. ToldInv
  BY <1>2 DEF Init, ToldInv, DurationTold
<1> QED
  BY <1>1, <1>3 DEF Inductive

\* What depends on a feature alone does not change with other variables.
LEMMA SameLimits ==
    ASSUME loadControl' = loadControl
    PROVE  /\ \A uc \in UseCases : LimitOf(uc)' = LimitOf(uc)
           /\ added' = added => (LimitsInv' <=> LimitsInv)
BY DEF LimitOf, LoadControlServerAndLimitId, LimitsInv

\* A feature that is not changed is read as before: failsafe values,
LEMMA SameKeys ==
    ASSUME deviceConfiguration' = deviceConfiguration
    PROVE  /\ \A k \in FailsafeKeys : KeyValue(k)' = KeyValue(k)
           /\ added' = added => (KeysInv' <=> KeysInv)
BY DEF KeyValue, KeysInv

\* and nominal maxima.
LEMMA SameNominal ==
    ASSUME electricalConnection' = electricalConnection
    PROVE  /\ \A uc \in UseCases : NominalMaxOf(uc)' = NominalMaxOf(uc)
           /\ added' = added => (NominalInv' <=> NominalInv)
BY DEF NominalMaxOf, NominalInv

\* Goroutines that still run tell the same as long as the descriptions stay.
LEMMA SameTelling ==
    ASSUME loadControl'.descs = loadControl.descs,
           deviceConfiguration'.descs = deviceConfiguration.descs
    PROVE  /\ \A h, uc : TellsLimit(h, uc)' <=> TellsLimit(h, uc)
           /\ \A h, k : TellsKey(h, k)' <=> TellsKey(h, k)
BY DEF TellsLimit, TellsKey, LimitPayloadMatches, KeyPayloadMatches,
       GetLimitDescriptionsForFilter, GetKeyValueDescriptionsForFilter

\* A step of the running service: what it changes is in view or will be told.
LEMMA ToldStep ==
    ASSUME Inductive, added' = added, running' = running, handlers \subseteq handlers',
           loadControl'.descs = loadControl.descs,
           deviceConfiguration'.descs = deviceConfiguration.descs,
           view' \in View,
           \A h \in handlers' : h.uc \in UseCases /\ h.kind \in {"limits", "failsafe"},
           ~running => handlers' = {},
           \A uc \in added : \/ view'.limit[uc] = view.limit[uc] /\ LimitOf(uc)' = LimitOf(uc)
                             \/ view'.limit[uc] = LimitOf(uc)'
                             \/ \E h \in handlers' : TellsLimit(h, uc),
           \A uc \in added : \/ /\ view'.failsafe[uc] = view.failsafe[uc]
                                /\ KeyValue(FailsafeKey(uc))' = KeyValue(FailsafeKey(uc))
                             \/ view'.failsafe[uc] = KeyValue(FailsafeKey(uc))'
                             \/ \E h \in handlers' : h.uc = uc /\ TellsKey(h, FailsafeKey(uc)),
           \/ view'.duration = view.duration /\ KeyValue(DurationKey)' = KeyValue(DurationKey)
           \/ view'.duration = KeyValue(DurationKey)'
           \/ \E h \in handlers' : h.uc \in added /\ TellsKey(h, DurationKey)
    PROVE  ToldInv'
<1>1. /\ \A h, uc : TellsLimit(h, uc)' <=> TellsLimit(h, uc)
      /\ \A h, k : TellsKey(h, k)' <=> TellsKey(h, k)
  BY SameTelling
<1>2. ASSUME NEW uc \in added PROVE LimitTold(uc)'
  <2>1. LimitTold(uc)
    BY DEF Inductive, ToldInv
  <2>2. LimitTold(uc)' <=> view'.limit[uc] = LimitOf(uc)' \/ \E h \in handlers' : TellsLimit(h, uc)
    BY <1>1 DEF LimitTold
  <2>3. CASE view'.limit[uc] = view.limit[uc] /\ LimitOf(uc)' = LimitOf(uc)
    BY <2>1, <2>2, <2>3 DEF LimitTold
  <2> QED
    BY <2>2, <2>3
<1>3. ASSUME NEW uc \in added PROVE FailsafeTold(uc)'
  <2>1. FailsafeTold(uc)
    BY DEF Inductive, ToldInv
  <2>2. FailsafeTold(uc)' <=> \/ view'.failsafe[uc] = KeyValue(FailsafeKey(uc))'
                              \/ \E h \in handlers' : h.uc = uc /\ TellsKey(h, FailsafeKey(uc))
    BY <1>1 DEF FailsafeTold
  <2>3. CASE /\ view'.failsafe[uc] = view.failsafe[uc]
             /\ KeyValue(FailsafeKey(uc))' = KeyValue(FailsafeKey(uc))
    BY <2>1, <2>2, <2>3 DEF FailsafeTold
  <2> QED
    BY <2>2, <2>3
<1>4. DurationTold'
  <2>1. DurationTold
    BY DEF Inductive, ToldInv
  <2>2. DurationTold' <=> \/ view'.duration = KeyValue(DurationKey)'
                          \/ \E h \in handlers' : h.uc \in added /\ TellsKey(h, DurationKey)
    BY <1>1 DEF DurationTold
  <2>3. CASE view'.duration = view.duration /\ KeyValue(DurationKey)' = KeyValue(DurationKey)
    BY <2>1, <2>2, <2>3 DEF DurationTold
  <2> QED
    BY <2>2, <2>3
<1> QED
  BY <1>2, <1>3, <1>4 DEF ToldInv

\* Every action keeps the invariant: a use case is added,
LEMMA AddKeeps ==
    ASSUME Inductive, NEW uc \in UseCases, AddUseCase(uc)
    PROVE  Inductive'
<1>1. added' = added \union {uc} /\ running' = running /\ handlers' = handlers /\ ~running
      /\ view' = Everything'
  BY DEF AddUseCase
<1>2. StoredInv'
  BY <1>1, AddLimits, AddKeys, AddNominal DEF Inductive, StoredInv
<1>3. (StoredInv' => ReadsTyped') /\ (ReadsTyped' => EverythingReads')
  BY ReadsTypedHolds, EverythingTyped, PTL
<1>4. EverythingReads' /\ \A m \in added' : m \in UseCases
  BY <1>2, <1>3 DEF StoredInv
<1>5. handlers' = {} /\ ~running'
  BY <1>1 DEF Inductive, ToldInv
<1>6. \A m \in added' : LimitTold(m)' /\ FailsafeTold(m)'
  BY <1>1, <1>4 DEF LimitTold, FailsafeTold, EverythingReads
<1>7. view' \in View /\ DurationTold'
  BY <1>1, <1>4 DEF DurationTold, EverythingReads
<1> QED
  BY <1>2, <1>5, <1>6, <1>7 DEF Inductive, ToldInv

\* Setting one limit of the view leaves the rest of it;
LEMMA ViewLimit ==
    ASSUME view \in View, NEW uc \in UseCases, NEW l \in LoadLimit,
           view' = [view EXCEPT !.limit[uc] = l]
    PROVE  /\ view' \in View /\ view'.limit[uc] = l
           /\ view'.failsafe = view.failsafe /\ view'.duration = view.duration
           /\ \A m \in UseCases \ {uc} : view'.limit[m] = view.limit[m]
BY DEF View

\* the same for failsafe limits,
LEMMA ViewFailsafe ==
    ASSUME view \in View, NEW uc \in UseCases, NEW s \in Setting,
           view' = [view EXCEPT !.failsafe[uc] = s]
    PROVE  /\ view' \in View /\ view'.failsafe[uc] = s
           /\ view'.limit = view.limit /\ view'.duration = view.duration
           /\ \A m \in UseCases \ {uc} : view'.failsafe[m] = view.failsafe[m]
BY DEF View

\* and for the duration.
LEMMA ViewDuration ==
    ASSUME view \in View, NEW s \in Setting, view' = [view EXCEPT !.duration = s]
    PROVE  /\ view' \in View /\ view'.duration = s
           /\ view'.limit = view.limit /\ view'.failsafe = view.failsafe
BY DEF View

\* the application sets a limit,
LEMMA SetLimitKeeps ==
    ASSUME Inductive, NEW uc \in UseCases, NEW limit \in LoadLimit, SetLimit(uc, limit)
    PROVE  Inductive'
<1>1. /\ added' = added /\ running' = running /\ handlers' = handlers /\ uc \in added
      /\ deviceConfiguration' = deviceConfiguration /\ electricalConnection' = electricalConnection
      /\ view' = [view EXCEPT !.limit[uc] = limit]
  BY DEF SetLimit
<1>2. /\ LimitsInv' /\ loadControl'.descs = loadControl.descs
      /\ LimitOf(uc)' = limit
      /\ \A m \in added \ {uc} : LimitOf(m)' = LimitOf(m)
  BY SetLimitStep DEF Inductive
<1>3. /\ \A k \in FailsafeKeys : KeyValue(k)' = KeyValue(k)
      /\ KeysInv' /\ NominalInv'
  BY <1>1, SameKeys, SameNominal DEF Inductive, StoredInv
<1>4. StoredInv'
  BY <1>1, <1>2, <1>3 DEF Inductive, StoredInv
<1>5. /\ view' \in View /\ view'.limit[uc] = limit
      /\ view'.failsafe = view.failsafe /\ view'.duration = view.duration
      /\ \A m \in UseCases \ {uc} : view'.limit[m] = view.limit[m]
  <2>1. view \in View
    BY DEF Inductive, ToldInv
  <2> QED
    BY ONLY <1>1, <2>1, ViewLimit
<1>6. added \subseteq UseCases /\ \A m \in added : FailsafeKey(m) \in FailsafeKeys
  BY Names DEF Inductive, StoredInv
<1>7. ToldInv'
  <2>1. /\ \A h \in handlers' : h.uc \in UseCases /\ h.kind \in {"limits", "failsafe"}
        /\ ~running => handlers' = {}
        /\ handlers \subseteq handlers'
        /\ deviceConfiguration'.descs = deviceConfiguration.descs
    BY <1>1 DEF Inductive, ToldInv
  <2>2. \A m \in added : \/ view'.limit[m] = view.limit[m] /\ LimitOf(m)' = LimitOf(m)
                         \/ view'.limit[m] = LimitOf(m)'
    BY <1>2, <1>5, <1>6
  <2>3. \A m \in added : /\ view'.failsafe[m] = view.failsafe[m]
                         /\ KeyValue(FailsafeKey(m))' = KeyValue(FailsafeKey(m))
    BY <1>3, <1>5, <1>6
  <2>4. view'.duration = view.duration /\ KeyValue(DurationKey)' = KeyValue(DurationKey)
    BY <1>3, <1>5, Names
  <2> QED
    BY <1>1, <1>2, <1>5, <2>1, <2>2, <2>3, <2>4, ToldStep
<1> QED
  BY <1>4, <1>7 DEF Inductive

\* a failsafe limit,
LEMMA SetFailsafeKeeps ==
    ASSUME Inductive, NEW uc \in UseCases, NEW value \in Nat, NEW changeable \in BOOLEAN,
           SetFailsafeActivePowerLimit(uc, value, changeable)
    PROVE  Inductive'
<1> DEFINE s == [value |-> value, isChangeable |-> changeable]
<1>1. /\ added' = added /\ running' = running /\ handlers' = handlers /\ uc \in added
      /\ loadControl' = loadControl /\ electricalConnection' = electricalConnection
      /\ view' = [view EXCEPT !.failsafe[uc] = s]
      /\ deviceConfiguration' = UpdateKeyValueDataForFilter(deviceConfiguration,
                                    KeyData(value, changeable), [keyName |-> FailsafeKey(uc)])
  BY DEF SetFailsafeActivePowerLimit
<1>2. FailsafeKey(uc) \in KeysOf(added)
  BY <1>1 DEF KeysOf
<1>3. /\ KeysInv' /\ deviceConfiguration'.descs = deviceConfiguration.descs
      /\ KeyValue(FailsafeKey(uc))' = s
      /\ \A k \in FailsafeKeys \ {FailsafeKey(uc)} : KeyValue(k)' = KeyValue(k)
  BY <1>1, <1>2, SetKeyStep DEF Inductive
<1>4. /\ \A m \in UseCases : LimitOf(m)' = LimitOf(m)
      /\ LimitsInv' /\ NominalInv'
  BY <1>1, SameLimits, SameNominal DEF Inductive, StoredInv
<1>5. StoredInv'
  BY <1>1, <1>3, <1>4 DEF Inductive, StoredInv
<1>6. s \in Setting
  BY DEF Setting
<1> HIDE DEF s
<1>7. /\ view' \in View /\ view'.failsafe[uc] = s
      /\ view'.limit = view.limit /\ view'.duration = view.duration
      /\ \A m \in UseCases \ {uc} : view'.failsafe[m] = view.failsafe[m]
  <2>1. view \in View
    BY DEF Inductive, ToldInv
  <2> QED
    BY ONLY <1>1, <1>6, <2>1, ViewFailsafe
<1>8. /\ added \subseteq UseCases
      /\ \A m \in added \ {uc} : FailsafeKey(m) \in FailsafeKeys \ {FailsafeKey(uc)}
      /\ DurationKey \in FailsafeKeys \ {FailsafeKey(uc)}
  BY Names DEF Inductive, StoredInv
<1>9. ToldInv'
  <2>1. /\ \A h \in handlers' : h.uc \in UseCases /\ h.kind \in {"limits", "failsafe"}
        /\ ~running => handlers' = {}
        /\ handlers \subseteq handlers'
        /\ loadControl'.descs = loadControl.descs
    BY <1>1 DEF Inductive, ToldInv
  <2>2. \A m \in added : view'.limit[m] = view.limit[m] /\ LimitOf(m)' = LimitOf(m)
    BY <1>4, <1>7, <1>8
  <2>3. \A m \in added : \/ /\ view'.failsafe[m] = view.failsafe[m]
                            /\ KeyValue(FailsafeKey(m))' = KeyValue(FailsafeKey(m))
                         \/ view'.failsafe[m] = KeyValue(FailsafeKey(m))'
    BY <1>3, <1>7, <1>8
  <2>4. view'.duration = view.duration /\ KeyValue(DurationKey)' = KeyValue(DurationKey)
    BY <1>3, <1>7, <1>8
  <2> QED
    BY <1>1, <1>3, <1>7, <2>1, <2>2, <2>3, <2>4, ToldStep
<1> QED
  BY <1>5, <1>9 DEF Inductive

\* the failsafe duration,
LEMMA SetDurationKeeps ==
    ASSUME Inductive, NEW hours \in Nat, NEW changeable \in BOOLEAN,
           SetFailsafeDurationMinimum(hours, changeable)
    PROVE  Inductive'
<1> DEFINE s == [value |-> hours, isChangeable |-> changeable]
<1>1. /\ added' = added /\ running' = running /\ handlers' = handlers /\ added # {}
      /\ loadControl' = loadControl /\ electricalConnection' = electricalConnection
      /\ view' = [view EXCEPT !.duration = s]
      /\ deviceConfiguration' = UpdateKeyValueDataForFilter(deviceConfiguration,
                                    KeyData(hours, changeable), [keyName |-> DurationKey])
  BY DEF SetFailsafeDurationMinimum
<1>2. DurationKey \in KeysOf(added)
  BY <1>1 DEF KeysOf
<1>3. /\ KeysInv' /\ deviceConfiguration'.descs = deviceConfiguration.descs
      /\ KeyValue(DurationKey)' = s
      /\ \A k \in FailsafeKeys \ {DurationKey} : KeyValue(k)' = KeyValue(k)
  BY <1>1, <1>2, SetKeyStep DEF Inductive
<1>4. /\ \A m \in UseCases : LimitOf(m)' = LimitOf(m)
      /\ LimitsInv' /\ NominalInv'
  BY <1>1, SameLimits, SameNominal DEF Inductive, StoredInv
<1>5. StoredInv'
  BY <1>1, <1>3, <1>4 DEF Inductive, StoredInv
<1>6. s \in Setting
  BY DEF Setting
<1> HIDE DEF s
<1>7. /\ view' \in View /\ view'.duration = s
      /\ view'.limit = view.limit /\ view'.failsafe = view.failsafe
  <2>1. view \in View
    BY DEF Inductive, ToldInv
  <2> QED
    BY ONLY <1>1, <1>6, <2>1, ViewDuration
<1>8. added \subseteq UseCases /\ \A m \in added : FailsafeKey(m) \in FailsafeKeys \ {DurationKey}
  BY Names DEF Inductive, StoredInv
<1>9. ToldInv'
  <2>1. /\ \A h \in handlers' : h.uc \in UseCases /\ h.kind \in {"limits", "failsafe"}
        /\ ~running => handlers' = {}
        /\ handlers \subseteq handlers'
        /\ loadControl'.descs = loadControl.descs
    BY <1>1 DEF Inductive, ToldInv
  <2>2. \A m \in added : view'.limit[m] = view.limit[m] /\ LimitOf(m)' = LimitOf(m)
    BY <1>4, <1>7, <1>8
  <2>3. \A m \in added : /\ view'.failsafe[m] = view.failsafe[m]
                         /\ KeyValue(FailsafeKey(m))' = KeyValue(FailsafeKey(m))
    BY <1>3, <1>7, <1>8
  <2>4. view'.duration = KeyValue(DurationKey)'
    BY <1>3, <1>7
  <2> QED
    BY <1>1, <1>3, <1>7, <2>1, <2>2, <2>3, <2>4, ToldStep
<1> QED
  BY <1>5, <1>9 DEF Inductive

\* Steps that change neither limits nor failsafe values nor what was told.
LEMMA AsideKeeps ==
    ASSUME Inductive, NominalInv', loadControl' = loadControl,
           deviceConfiguration' = deviceConfiguration, added' = added, view' = view,
           handlers' = handlers, running' = running \/ (running' = TRUE /\ added # {})
    PROVE  Inductive'
<1>1. /\ \A m \in UseCases : LimitOf(m)' = LimitOf(m)
      /\ \A k \in FailsafeKeys : KeyValue(k)' = KeyValue(k)
      /\ LimitsInv' /\ KeysInv'
  BY SameLimits, SameKeys DEF Inductive, StoredInv
<1>2. StoredInv'
  <2>1. /\ added \subseteq UseCases /\ running \in BOOLEAN /\ (running => added # {})
        /\ NominalInv' /\ LimitsInv' /\ KeysInv'
    BY <1>1 DEF Inductive, StoredInv
  <2>2. running' \in BOOLEAN /\ (running' => added' # {})
    <3>1. CASE running' = running
      <4>1. running' \in BOOLEAN
        BY <2>1, <3>1
      <4>2. CASE added = {}
        BY <2>1, <3>1, <4>1, <4>2
      <4>3. CASE added # {}
        BY <4>1, <4>3
      <4> QED
        BY <4>2, <4>3
    <3>2. CASE running' = TRUE /\ added # {}
      BY <3>2
    <3> QED
      BY <3>1, <3>2
  <2> QED
    BY <2>1, <2>2 DEF StoredInv
<1>3. /\ added \subseteq UseCases /\ DurationKey \in FailsafeKeys
      /\ \A m \in added : FailsafeKey(m) \in FailsafeKeys
  BY Names DEF Inductive, StoredInv
<1>4. /\ \A h, uc : TellsLimit(h, uc)' <=> TellsLimit(h, uc)
      /\ \A h, k : TellsKey(h, k)' <=> TellsKey(h, k)
  BY SameTelling
<1>5. ASSUME NEW uc \in added PROVE LimitTold(uc)' /\ FailsafeTold(uc)'
  <2>1. LimitTold(uc) /\ FailsafeTold(uc)
    BY DEF Inductive, ToldInv
  <2>2. LimitTold(uc)'
    BY <1>1, <1>3, <1>4, <2>1 DEF LimitTold
  <2>3. FailsafeTold(uc)'
    BY <1>1, <1>3, <1>4, <2>1 DEF FailsafeTold
  <2> QED
    BY <2>2, <2>3
<1>6. DurationTold'
  <2>1. DurationTold
    BY DEF Inductive, ToldInv
  <2> QED
    BY <1>1, <1>3, <1>4, <2>1 DEF DurationTold
<1>7. ~running' => handlers' = {}
  BY DEF Inductive, ToldInv, StoredInv
<1> QED
  BY <1>2, <1>5, <1>6, <1>7 DEF Inductive, ToldInv

\* the remote device writes limits,
LEMMA WriteLimitsKeeps ==
    ASSUME Inductive, NEW items \in SUBSET LimitItems,
           \A i, j \in items : i.uc = j.uc => i = j, WriteLimits(items)
    PROVE  Inductive'
<1> DEFINE raised == [uc : UseCases, kind : {"limits"}, payload : {LimitPayload(items)}]
<1>1. /\ added' = added /\ running' = running /\ running /\ handlers' = handlers \union raised
      /\ deviceConfiguration' = deviceConfiguration /\ electricalConnection' = electricalConnection
      /\ view' = view
  BY DEF WriteLimits, Raise, LimitPayload
<1>2. /\ LimitsInv' /\ loadControl'.descs = loadControl.descs
      /\ NamedUseCases(items) \subseteq added
      /\ \A m \in added \ NamedUseCases(items) : LimitOf(m)' = LimitOf(m)
      /\ \A m \in NamedUseCases(items) : LimitPayloadMatches(loadControl, LimitPayload(items), LimitFilter(m))
  BY WriteLimitsStep DEF Inductive
<1>3. /\ \A k \in FailsafeKeys : KeyValue(k)' = KeyValue(k)
      /\ KeysInv' /\ NominalInv'
  BY <1>1, SameKeys, SameNominal DEF Inductive, StoredInv
<1>4. StoredInv'
  BY <1>1, <1>2, <1>3 DEF Inductive, StoredInv
<1>5. added \subseteq UseCases /\ DurationKey \in FailsafeKeys
      /\ \A m \in added : FailsafeKey(m) \in FailsafeKeys
  BY Names DEF Inductive, StoredInv
<1>6. ASSUME NEW m \in NamedUseCases(items) PROVE \E h \in handlers' : TellsLimit(h, m)
  <2> DEFINE h == [uc |-> m, kind |-> "limits", payload |-> LimitPayload(items)]
  <2>1. h \in handlers'
    BY <1>1, <1>2, <1>5
  <2>2. TellsLimit(h, m)
    BY <1>2 DEF TellsLimit
  <2> QED
    BY <2>1, <2>2
<1>7. ToldInv'
  <2>1. /\ \A h \in handlers' : h.uc \in UseCases /\ h.kind \in {"limits", "failsafe"}
        /\ ~running => handlers' = {}
        /\ handlers \subseteq handlers'
        /\ deviceConfiguration'.descs = deviceConfiguration.descs
        /\ view' \in View
    BY <1>1 DEF Inductive, ToldInv
  <2>2. \A m \in added : \/ view'.limit[m] = view.limit[m] /\ LimitOf(m)' = LimitOf(m)
                         \/ \E h \in handlers' : TellsLimit(h, m)
    BY <1>1, <1>2, <1>6
  <2>3. \A m \in added : /\ view'.failsafe[m] = view.failsafe[m]
                         /\ KeyValue(FailsafeKey(m))' = KeyValue(FailsafeKey(m))
    BY <1>1, <1>3, <1>5
  <2>4. view'.duration = view.duration /\ KeyValue(DurationKey)' = KeyValue(DurationKey)
    BY <1>1, <1>3, <1>5
  <2> QED
    BY <1>1, <1>2, <2>1, <2>2, <2>3, <2>4, ToldStep
<1> QED
  BY <1>4, <1>7 DEF Inductive

\* failsafe values,
LEMMA WriteFailsafeKeeps ==
    ASSUME Inductive, NEW written \in KeyWrites, WriteFailsafe(written)
    PROVE  Inductive'
<1> DEFINE raised == [uc : UseCases, kind : {"failsafe"}, payload : {KeyPayload(written)}]
           M == DOMAIN written
<1>1. /\ added' = added /\ running' = running /\ running /\ handlers' = handlers \union raised
      /\ loadControl' = loadControl /\ electricalConnection' = electricalConnection
      /\ view' = view
  BY DEF WriteFailsafe, Raise, KeyPayload
<1>2. /\ KeysInv' /\ deviceConfiguration'.descs = deviceConfiguration.descs
      /\ \A k \in FailsafeKeys \ M : KeyValue(k)' = KeyValue(k)
      /\ \A k \in M : KeyPayloadMatches(deviceConfiguration, KeyPayload(written), [keyName |-> k])
  BY WriteFailsafeStep DEF Inductive
<1>3. /\ \A m \in UseCases : LimitOf(m)' = LimitOf(m)
      /\ LimitsInv' /\ NominalInv'
  BY <1>1, SameLimits, SameNominal DEF Inductive, StoredInv
<1>4. StoredInv'
  BY <1>1, <1>2, <1>3 DEF Inductive, StoredInv
<1>5. added \subseteq UseCases /\ DurationKey \in FailsafeKeys /\ added # {}
      /\ \A m \in added : FailsafeKey(m) \in FailsafeKeys
  BY <1>1, Names DEF Inductive, StoredInv
<1> HIDE DEF M
<1>6. ASSUME NEW m \in added, NEW k \in M PROVE \E h \in handlers' : h.uc = m /\ TellsKey(h, k)
  <2> DEFINE h == [uc |-> m, kind |-> "failsafe", payload |-> KeyPayload(written)]
  <2>1. h \in handlers'
    BY <1>1, <1>5
  <2>2. TellsKey(h, k)
    BY <1>2 DEF TellsKey
  <2> QED
    BY <2>1, <2>2
<1>7. ToldInv'
  <2>1. /\ \A h \in handlers' : h.uc \in UseCases /\ h.kind \in {"limits", "failsafe"}
        /\ ~running => handlers' = {}
        /\ handlers \subseteq handlers'
        /\ loadControl'.descs = loadControl.descs
        /\ view' \in View
    BY <1>1 DEF Inductive, ToldInv
  <2>2. \A m \in added : view'.limit[m] = view.limit[m] /\ LimitOf(m)' = LimitOf(m)
    BY <1>1, <1>3, <1>5
  <2>3. \A m \in added : \/ /\ view'.failsafe[m] = view.failsafe[m]
                            /\ KeyValue(FailsafeKey(m))' = KeyValue(FailsafeKey(m))
                         \/ \E h \in handlers' : h.uc = m /\ TellsKey(h, FailsafeKey(m))
    BY <1>1, <1>2, <1>5, <1>6
  <2>4. \/ view'.duration = view.duration /\ KeyValue(DurationKey)' = KeyValue(DurationKey)
        \/ \E h \in handlers' : h.uc \in added /\ TellsKey(h, DurationKey)
    <3>1. PICK m \in added : TRUE
      BY <1>5
    <3> QED
      BY <1>1, <1>2, <1>5, <1>6, <3>1
  <2> QED
    BY <1>1, <1>2, <2>1, <2>2, <2>3, <2>4, ToldStep
<1> QED
  BY <1>4, <1>7 DEF Inductive

\* What a goroutine does to the view.
LEMMA Handled ==
    ASSUME Inductive, NEW h \in handlers, HandleEvent(h)
    PROVE  /\ view' \in View
           /\ \A uc \in added :
                 /\ view'.limit[uc] \in {view.limit[uc], LimitOf(uc)}
                 /\ TellsLimit(h, uc) => view'.limit[uc] = LimitOf(uc)
                 /\ view'.failsafe[uc] \in {view.failsafe[uc], KeyValue(FailsafeKey(uc))}
                 /\ h.uc = uc /\ TellsKey(h, FailsafeKey(uc)) => view'.failsafe[uc] = KeyValue(FailsafeKey(uc))
           /\ view'.duration \in {view.duration, KeyValue(DurationKey)}
           /\ h.uc \in added /\ TellsKey(h, DurationKey) => view'.duration = KeyValue(DurationKey)
<1>1. /\ h.uc \in UseCases /\ h.kind \in {"limits", "failsafe"} /\ view \in View
      /\ added \subseteq UseCases
  BY DEF Inductive, ToldInv, StoredInv
<1>2. ReadsTyped
  BY ReadsTypedHolds DEF Inductive
<1>3. /\ \A uc \in UseCases : LimitOf(uc) \in LoadLimit \union {Nil}
      /\ \A uc \in UseCases : KeyValue(FailsafeKey(uc)) \in Setting \union {Nil}
      /\ KeyValue(DurationKey) \in Setting \union {Nil}
  BY <1>2, Names DEF ReadsTyped
<1>4. CASE h.uc \notin added
  BY <1>1, <1>4 DEF HandleEvent, TellsLimit
<1>5. CASE h.uc \in added /\ h.kind = "limits"
  <2>1. view' = IF LimitPayloadMatches(loadControl, h.payload, LimitFilter(h.uc))
                THEN [view EXCEPT !.limit[h.uc] = LimitOf(h.uc)] ELSE view
    BY <1>5 DEF HandleEvent, LoadControlLimitDataUpdate
  <2> DEFINE after == [view EXCEPT !.limit[h.uc] = LimitOf(h.uc)]
  <2>2. /\ after \in View /\ after.failsafe = view.failsafe /\ after.duration = view.duration
        /\ after.limit[h.uc] = LimitOf(h.uc)
        /\ \A uc \in UseCases \ {h.uc} : after.limit[uc] = view.limit[uc]
    BY <1>1, <1>3 DEF View
  <2> HIDE DEF after
  <2>3. \A k : ~TellsKey(h, k)
    BY <1>5 DEF TellsKey
  <2>4. CASE LimitPayloadMatches(loadControl, h.payload, LimitFilter(h.uc))
    <3>1. view' = after
      BY <2>1, <2>4 DEF after
    <3> QED
      BY <1>1, <2>2, <2>3, <3>1 DEF TellsLimit
  <2>5. CASE ~LimitPayloadMatches(loadControl, h.payload, LimitFilter(h.uc))
    <3>1. view' = view /\ \A uc : ~TellsLimit(h, uc)
      BY <2>1, <2>5 DEF TellsLimit
    <3> QED
      BY <1>1, <2>3, <3>1
  <2> QED
    BY <2>4, <2>5
<1>6. CASE h.uc \in added /\ h.kind = "failsafe"
  <2> DEFINE matches(key) == KeyPayloadMatches(deviceConfiguration, h.payload, [keyName |-> key])
             f == IF matches(FailsafeKey(h.uc)) THEN KeyValue(FailsafeKey(h.uc)) ELSE view.failsafe[h.uc]
             d == IF matches(DurationKey) THEN KeyValue(DurationKey) ELSE view.duration
             failsafe == [view.failsafe EXCEPT ![h.uc] = f]
  <2>1. /\ view.failsafe \in [UseCases -> Setting \union {Nil}]
        /\ view.limit \in [UseCases -> LoadLimit \union {Nil}]
        /\ view.duration \in Setting \union {Nil}
        /\ view = [limit |-> view.limit, failsafe |-> view.failsafe, duration |-> view.duration]
    BY <1>1 DEF View
  <2>2. view' = [view EXCEPT !.failsafe[h.uc] = f, !.duration = d]
    BY <1>6 DEF HandleEvent, ConfigurationDataUpdate, FailsafeDurationMinimum
  <2>3. f \in Setting \union {Nil} /\ d \in Setting \union {Nil}
    BY <1>1, <1>3, <2>1
  <2>4. \A k : TellsKey(h, k) <=> matches(k)
    BY <1>6 DEF TellsKey
  <2>5. \A uc : ~TellsLimit(h, uc)
    BY <1>6 DEF TellsLimit
  <2>6. /\ TellsKey(h, FailsafeKey(h.uc)) => f = KeyValue(FailsafeKey(h.uc))
        /\ f \in {view.failsafe[h.uc], KeyValue(FailsafeKey(h.uc))}
        /\ TellsKey(h, DurationKey) => d = KeyValue(DurationKey)
        /\ d \in {view.duration, KeyValue(DurationKey)}
    BY <2>4
  <2> HIDE DEF f, d, matches
  <2>7. view' = [limit |-> view.limit, failsafe |-> failsafe, duration |-> d]
    BY <2>1, <2>2
  <2>8. /\ failsafe \in [UseCases -> Setting \union {Nil}] /\ failsafe[h.uc] = f
        /\ \A uc \in UseCases \ {h.uc} : failsafe[uc] = view.failsafe[uc]
    BY <1>1, <2>1, <2>3
  <2> HIDE DEF failsafe
  <2>9. view' \in View
    BY <2>1, <2>3, <2>7, <2>8 DEF View
  <2>10. view'.limit = view.limit /\ view'.failsafe = failsafe /\ view'.duration = d
    BY <2>7
  <2> QED
    BY <1>1, <2>5, <2>6, <2>8, <2>9, <2>10
<1> QED
  BY <1>1, <1>4, <1>5, <1>6

\* and a goroutine handles its event.
LEMMA HandleKeeps ==
    ASSUME Inductive, NEW h \in handlers, HandleEvent(h)
    PROVE  Inductive'
<1>1. /\ added' = added /\ running' = running /\ handlers' = handlers \ {h}
      /\ loadControl' = loadControl /\ deviceConfiguration' = deviceConfiguration
      /\ electricalConnection' = electricalConnection
  BY DEF HandleEvent, features
<1>2. /\ \A m \in UseCases : LimitOf(m)' = LimitOf(m)
      /\ \A k \in FailsafeKeys : KeyValue(k)' = KeyValue(k)
      /\ LimitsInv' /\ KeysInv' /\ NominalInv'
  BY <1>1, SameLimits, SameKeys, SameNominal DEF Inductive, StoredInv
<1>3. StoredInv'
  BY <1>1, <1>2 DEF Inductive, StoredInv
<1>4. /\ added \subseteq UseCases /\ DurationKey \in FailsafeKeys
      /\ \A m \in added : FailsafeKey(m) \in FailsafeKeys
  BY Names DEF Inductive, StoredInv
<1>5. /\ \A g, uc : TellsLimit(g, uc)' <=> TellsLimit(g, uc)
      /\ \A g, k : TellsKey(g, k)' <=> TellsKey(g, k)
  BY <1>1, SameTelling
<1>6. ASSUME NEW uc \in added PROVE LimitTold(uc)' /\ FailsafeTold(uc)'
  <2>1. LimitTold(uc) /\ FailsafeTold(uc)
    BY DEF Inductive, ToldInv
  <2>2. /\ view'.limit[uc] \in {view.limit[uc], LimitOf(uc)}
        /\ TellsLimit(h, uc) => view'.limit[uc] = LimitOf(uc)
        /\ view'.failsafe[uc] \in {view.failsafe[uc], KeyValue(FailsafeKey(uc))}
        /\ h.uc = uc /\ TellsKey(h, FailsafeKey(uc)) => view'.failsafe[uc] = KeyValue(FailsafeKey(uc))
    BY Handled
  <2>3. LimitTold(uc)'
    BY <1>1, <1>2, <1>4, <1>5, <2>1, <2>2 DEF LimitTold
  <2>4. FailsafeTold(uc)'
    BY <1>1, <1>2, <1>4, <1>5, <2>1, <2>2 DEF FailsafeTold
  <2> QED
    BY <2>3, <2>4
<1>7. DurationTold'
  <2>1. DurationTold
    BY DEF Inductive, ToldInv
  <2>2. /\ view'.duration \in {view.duration, KeyValue(DurationKey)}
        /\ h.uc \in added /\ TellsKey(h, DurationKey) => view'.duration = KeyValue(DurationKey)
    BY Handled
  <2> QED
    BY <1>1, <1>2, <1>4, <1>5, <2>1, <2>2 DEF DurationTold
<1>8. /\ view' \in View
      /\ \A g \in handlers' : g.uc \in UseCases /\ g.kind \in {"limits", "failsafe"}
      /\ ~running' => handlers' = {}
  BY <1>1, Handled DEF Inductive, ToldInv
<1> QED
  BY <1>1, <1>3, <1>6, <1>7, <1>8 DEF Inductive, ToldInv

\* Every step keeps the invariant.
LEMMA StepKeeps == Inductive /\ [Next]_vars => Inductive'
<1> SUFFICES ASSUME Inductive, [Next]_vars PROVE Inductive'
  OBVIOUS
<1>0. Limits \subseteq LoadLimit /\ Powers \subseteq Nat /\ Durations \subseteq Nat
  BY CsDataAssumption
<1>00. "lpc" \in UseCases /\ "lpp" \in UseCases
  BY DEF UseCases
<1>1. ASSUME NEW uc \in UseCases, AddUseCase(uc) PROVE Inductive'
  BY <1>1, AddKeeps
<1>2. ASSUME NEW l \in Limits, SetConsumptionLimit(l) \/ SetProductionLimit(l) PROVE Inductive'
  BY <1>0, <1>00, <1>2, SetLimitKeeps DEF SetConsumptionLimit, SetProductionLimit
<1>3. ASSUME NEW v \in Powers, NEW c \in BOOLEAN,
             \/ SetFailsafeConsumptionActivePowerLimit(v, c)
             \/ SetFailsafeProductionActivePowerLimit(v, c)
      PROVE  Inductive'
  BY <1>0, <1>00, <1>3, SetFailsafeKeeps
     DEF SetFailsafeConsumptionActivePowerLimit, SetFailsafeProductionActivePowerLimit
<1>4. ASSUME NEW v \in Powers, SetConsumptionNominalMax(v) \/ SetProductionNominalMax(v)
      PROVE  Inductive'
  <2>1. ASSUME NEW uc \in UseCases, SetNominalMax(uc, v) PROVE Inductive'
    <3>1. NominalInv'
      BY <1>0, <2>1, SetNominalStep DEF Inductive
    <3> QED
      BY <2>1, <3>1, AsideKeeps DEF SetNominalMax
  <2> QED
    BY <1>00, <1>4, <2>1 DEF SetConsumptionNominalMax, SetProductionNominalMax
<1>5. ASSUME NEW d \in Durations, NEW c \in BOOLEAN, SetFailsafeDurationMinimum(d, c) PROVE Inductive'
  BY <1>0, <1>5, SetDurationKeeps
<1>6. CASE Start
  <2>1. NominalInv'
    BY <1>6, SameNominal DEF Inductive, StoredInv, Start, features
  <2> QED
    BY <1>6, <2>1, AsideKeeps DEF Start, features
<1>7. ASSUME NEW items \in (SUBSET LimitItems) \ {{}},
             \A i, j \in items : i.uc = j.uc => i = j, WriteLimits(items)
      PROVE  Inductive'
  BY <1>7, WriteLimitsKeeps
<1>8. ASSUME NEW written \in KeyWrites, WriteFailsafe(written) PROVE Inductive'
  BY <1>8, WriteFailsafeKeeps
<1>9. ASSUME NEW h \in handlers, HandleEvent(h) PROVE Inductive'
  BY <1>9, HandleKeeps
<1>10. CASE UNCHANGED vars
  <2>1. NominalInv'
    BY <1>10, SameNominal DEF Inductive, StoredInv, vars, features
  <2>2. /\ loadControl' = loadControl /\ deviceConfiguration' = deviceConfiguration
        /\ added' = added /\ view' = view /\ handlers' = handlers /\ running' = running
    BY <1>10 DEF vars, features
  <2>3. running' = running \/ (running' = TRUE /\ added # {})
    BY <2>2
  <2> QED
    BY ONLY Inductive, <2>1, <2>2, <2>3, AsideKeeps
<1> QED
  BY <1>1, <1>2, <1>3, <1>4, <1>5, <1>6, <1>7, <1>8, <1>9, <1>10 DEF Next

\* Every description is stored once, and every value under its description.
LEMMA InductiveHolds == Spec => []Inductive
BY InitInductive, StepKeeps, PTL DEF Spec

-----------------------------------------------------------------------------
(* Theorems                                                                *)

\* The features hold one item per identifier, and what the application reads
\* is of the right type (TypeOK), for every set of values.
THEOREM TypeCorrect == Spec => []TypeOK
<1>1. Inductive => TypeOK
  <2> SUFFICES ASSUME Inductive PROVE TypeOK
    OBVIOUS
  <2>1. PICK desc, item : LimitsAre(loadControl, added, added, desc, item)
    BY DEF Inductive, StoredInv, LimitsInv
  <2>2. PICK d, i : KeysAre(deviceConfiguration, KeysOf(added), KeysOf(added), d, i)
    BY DEF Inductive, StoredInv, KeysInv
  <2>3. PICK char : CharacteristicsAre(electricalConnection, added, char)
    BY DEF Inductive, StoredInv, NominalInv
  <2>4. ASSUME NEW f, NEW key, NEW N, NEW D, NEW e, NEW j, Holds(f, key, N, D, e, j)
        PROVE  UniqueIn(f.descs, key) /\ UniqueIn(f.data, key)
    <3>1. f.descs = Values(N, e) /\ f.data = Values(D, j) /\ D \subseteq N
      BY <2>4 DEF Holds
    <3>2. \A a, b \in N : e[a][key] = e[b][key] => a = b
      BY <2>4 DEF Holds
    <3>3. \A a \in D : j[a][key] = e[a][key]
      BY <2>4 DEF Holds
    <3> QED
      BY <3>1, <3>2, <3>3 DEF UniqueIn, Values
  <2>5. UniqueIn(loadControl.descs, "limitId") /\ UniqueIn(loadControl.data, "limitId")
    BY <2>1, <2>4 DEF LimitsAre
  <2>6. UniqueIn(deviceConfiguration.descs, "keyId") /\ UniqueIn(deviceConfiguration.data, "keyId")
    BY <2>2, <2>4 DEF KeysAre
  <2>7. UniqueIn(electricalConnection.chars, "characteristicId")
    BY <2>3 DEF UniqueIn, CharacteristicsAre, Values
  <2>8. loadControl.data \subseteq LimitItem
    <3>1. loadControl.data = Values(added, item) /\ \A m \in added : item[m] \in StoredLimit
      BY <2>1 DEF LimitsAre, Holds
    <3>2. StoredLimit \subseteq LimitItem
      BY DEF StoredLimit, LimitItem
    <3> QED
      BY <3>1, <3>2 DEF Values
  <2>9. {k.keyId : k \in deviceConfiguration.data} \subseteq Nat
    <3>1. /\ deviceConfiguration.data = Values(KeysOf(added), i)
          /\ \A m \in KeysOf(added) : i[m] \in StoredKey
      BY <2>2 DEF KeysAre, Holds
    <3> QED
      BY <3>1 DEF Values, StoredKey
  <2>10. /\ \A uc \in UseCases : /\ view.limit[uc] \in LoadLimit \union {Nil}
                                 /\ view.failsafe[uc] \in Setting \union {Nil}
         /\ view.duration \in Setting \union {Nil}
    BY DEF Inductive, ToldInv, View
  <2>11. added \subseteq UseCases /\ running \in BOOLEAN
    BY DEF Inductive, StoredInv
  <2> QED
    BY <2>5, <2>6, <2>7, <2>8, <2>9, <2>10, <2>11 DEF TypeOK
<1> QED
  BY <1>1, InductiveHolds, PTL

\* Once all goroutines have run the application was told of every change of
\* a limit or a failsafe value (ApplicationInformed).
THEOREM ApplicationInformedHolds == Spec => []ApplicationInformed
<1>1. Inductive => ApplicationInformed
  BY DEF Inductive, ToldInv, LimitTold, FailsafeTold, DurationTold, ApplicationInformed, FailsafeDurationMinimum
<1> QED
  BY <1>1, InductiveHolds, PTL


-----------------------------------------------------------------------------
(* The features act as the registers of NamedValues *)

LimitRegister == [uc \in UseCases |-> IF uc \in added THEN LimitOf(uc) ELSE Nil]
FailsafeRegister == [uc \in UseCases |-> KeyValue(FailsafeKey(uc))]
NominalRegister == [uc \in UseCases |-> NominalMaxOf(uc)]

\* A register only changes when one of the values it is made of does.
LEMMA SameLimitRegister ==
    ASSUME loadControl' = loadControl, added' = added
    PROVE  LimitRegister' = LimitRegister
<1>1. \A uc \in UseCases : LimitOf(uc)' = LimitOf(uc)
  BY SameLimits
<1> QED
  BY <1>1 DEF LimitRegister

\* The same for failsafe values,
LEMMA SameKeyRegisters ==
    ASSUME deviceConfiguration' = deviceConfiguration
    PROVE  FailsafeRegister' = FailsafeRegister /\ FailsafeDurationMinimum' = FailsafeDurationMinimum
<1>1. /\ \A uc \in UseCases : KeyValue(FailsafeKey(uc))' = KeyValue(FailsafeKey(uc))
      /\ KeyValue(DurationKey)' = KeyValue(DurationKey)
  BY SameKeys, Names
<1> QED
  BY <1>1 DEF FailsafeRegister, FailsafeDurationMinimum

\* and for nominal maxima.
LEMMA SameNominalRegister ==
    ASSUME electricalConnection' = electricalConnection
    PROVE  NominalRegister' = NominalRegister
<1>1. \A uc \in UseCases : NominalMaxOf(uc)' = NominalMaxOf(uc)
  BY SameNominal
<1> QED
  BY <1>1 DEF NominalRegister

\* One register is set, the others keep their values.
LEMMA LimitRegisterSet ==
    ASSUME NEW uc \in UseCases, NEW limit, uc \in added', added' \ {uc} = added \ {uc},
           LimitOf(uc)' = limit, \A m \in added \ {uc} : LimitOf(m)' = LimitOf(m)
    PROVE  LimitRegister' = [LimitRegister EXCEPT ![uc] = limit]
<1>1. \A m \in UseCases \ {uc} : /\ m \in added' <=> m \in added
                                 /\ m \in added => LimitOf(m)' = LimitOf(m)
  OBVIOUS
<1> QED
  BY <1>1 DEF LimitRegister

\* The same for failsafe limits,
LEMMA FailsafeRegisterSet ==
    ASSUME NEW uc \in UseCases, NEW s, KeyValue(FailsafeKey(uc))' = s,
           \A m \in UseCases \ {uc} : KeyValue(FailsafeKey(m))' = KeyValue(FailsafeKey(m))
    PROVE  FailsafeRegister' = [FailsafeRegister EXCEPT ![uc] = s]
BY DEF FailsafeRegister

\* and for nominal maxima.
LEMMA NominalRegisterSet ==
    ASSUME NEW uc \in UseCases, NEW value, NominalMaxOf(uc)' = value,
           \A m \in UseCases \ {uc} : NominalMaxOf(m)' = NominalMaxOf(m)
    PROVE  NominalRegister' = [NominalRegister EXCEPT ![uc] = value]
BY DEF NominalRegister

\* The initial states: nothing is stored, so no register has a value.
LEMMA InitRegisters == Init => Registers!Init
<1> SUFFICES ASSUME Init PROVE Registers!Init
  OBVIOUS
<1>1. StoredInv /\ added = {} /\ request = <<"none">>
  BY InitStored DEF Init
<1>2. KeysOf(added) = {}
  BY <1>1 DEF KeysOf
<1>3. \A k \in FailsafeKeys : KeyValue(k) = Nil
  <2>1. PICK desc, item : KeysAre(deviceConfiguration, {}, {}, desc, item)
    BY <1>1, <1>2 DEF StoredInv, KeysInv
  <2> QED
    BY <2>1, KeysReadHolds DEF KeysRead
<1>4. \A uc \in UseCases : NominalMaxOf(uc) = Nil
  <2>1. PICK char : CharacteristicsAre(electricalConnection, {}, char)
    BY <1>1 DEF StoredInv, NominalInv
  <2> QED
    BY <2>1, NominalReadHolds DEF NominalRead
<1>5. /\ FailsafeDurationMinimum = Nil
      /\ \A uc \in UseCases : KeyValue(FailsafeKey(uc)) = Nil
  BY <1>3, Names DEF FailsafeDurationMinimum
<1> QED
  BY <1>1, <1>4, <1>5 DEF Registers!Init

\* Adding a use case announces it.
LEMMA AddAnnounces ==
    ASSUME StoredInv, NEW uc \in UseCases, AddUseCase(uc)
    PROVE  Registers!Announce(uc)
<1>1. uc \notin added /\ added' = added \union {uc} /\ request' = <<"announce", uc>>
  BY DEF AddUseCase
<1>2. LimitRegister' = [LimitRegister EXCEPT ![uc] = InitialLimit]
  <2>1. LimitOf(uc)' = InitialLimit /\ \A m \in added : LimitOf(m)' = LimitOf(m)
    BY AddLimits
  <2> QED
    BY <1>1, <2>1, LimitRegisterSet
<1>3. /\ FailsafeRegister' = [FailsafeRegister EXCEPT ![uc] = InitialSetting]
      /\ FailsafeDurationMinimum' = InitialSetting
  <2>1. /\ KeyValue(FailsafeKey(uc))' = InitialSetting
        /\ \A m \in UseCases \ {uc} : KeyValue(FailsafeKey(m))' = KeyValue(FailsafeKey(m))
        /\ KeyValue(DurationKey)' = InitialSetting
    BY AddKeys
  <2>2. FailsafeRegister' = [FailsafeRegister EXCEPT ![uc] = InitialSetting]
    BY <2>1, FailsafeRegisterSet
  <2> QED
    BY <2>1, <2>2 DEF FailsafeDurationMinimum
<1>4. NominalRegister' = NominalRegister
  <2>1. \A m \in UseCases : NominalMaxOf(m)' = NominalMaxOf(m)
    BY AddNominal
  <2> QED
    BY <2>1 DEF NominalRegister
<1>5. LimitRegister[uc] = Nil
  BY <1>1 DEF LimitRegister
<1> QED
  BY <1>1, <1>2, <1>3, <1>4, <1>5
     DEF Registers!Announce, Registers!Setting, LimitRegister, FailsafeRegister, NominalRegister,
         InitialLimit, InitialSetting

\* The setters of the application set one register each: a limit,
LEMMA SetLimitSets ==
    ASSUME StoredInv, NEW uc \in UseCases, NEW limit \in Limits, SetLimit(uc, limit)
    PROVE  Registers!SetLimit(uc)
<1>1. limit \in LoadLimit
  BY CsDataAssumption
<1>2. /\ uc \in added /\ added' = added /\ request' = <<"limit", uc, limit>>
      /\ deviceConfiguration' = deviceConfiguration /\ electricalConnection' = electricalConnection
  BY DEF SetLimit, Call
<1>3. LimitRegister' = [LimitRegister EXCEPT ![uc] = limit]
  <2>1. LimitOf(uc)' = limit /\ \A m \in added \ {uc} : LimitOf(m)' = LimitOf(m)
    BY <1>1, SetLimitStep
  <2> QED
    BY <1>2, <2>1, LimitRegisterSet
<1>4. /\ FailsafeRegister' = FailsafeRegister /\ FailsafeDurationMinimum' = FailsafeDurationMinimum
      /\ NominalRegister' = NominalRegister
  BY <1>2, SameKeyRegisters, SameNominalRegister
<1> QED
  BY <1>2, <1>3, <1>4 DEF Registers!SetLimit, LimitRegister, FailsafeRegister, NominalRegister

\* a failsafe limit,
LEMMA SetFailsafeSets ==
    ASSUME StoredInv, NEW uc \in UseCases, NEW value \in Powers, NEW changeable \in BOOLEAN,
           SetFailsafeActivePowerLimit(uc, value, changeable)
    PROVE  Registers!SetFailsafe(uc)
<1> DEFINE s == [value |-> value, isChangeable |-> changeable]
<1>1. value \in Nat
  BY CsDataAssumption
<1>2. /\ uc \in added /\ added' = added /\ request' = <<"failsafe", uc, value, changeable>>
      /\ loadControl' = loadControl /\ electricalConnection' = electricalConnection
      /\ deviceConfiguration' = UpdateKeyValueDataForFilter(deviceConfiguration,
                                    KeyData(value, changeable), [keyName |-> FailsafeKey(uc)])
  BY DEF SetFailsafeActivePowerLimit, Call
<1>3. FailsafeKey(uc) \in KeysOf(added)
  BY <1>2 DEF KeysOf
<1>4. /\ KeyValue(FailsafeKey(uc))' = s
      /\ \A k \in FailsafeKeys \ {FailsafeKey(uc)} : KeyValue(k)' = KeyValue(k)
  BY <1>1, <1>2, <1>3, SetKeyStep
<1> HIDE DEF s
<1>5. FailsafeRegister' = [FailsafeRegister EXCEPT ![uc] = s]
  <2>1. \A m \in UseCases \ {uc} : FailsafeKey(m) \in FailsafeKeys \ {FailsafeKey(uc)}
    BY Names
  <2> QED
    BY <1>4, <2>1, FailsafeRegisterSet
<1>6. FailsafeDurationMinimum' = FailsafeDurationMinimum
  BY <1>4, Names DEF FailsafeDurationMinimum
<1>7. LimitRegister' = LimitRegister /\ NominalRegister' = NominalRegister
  BY <1>2, SameLimitRegister, SameNominalRegister
<1> QED
  BY <1>2, <1>5, <1>6, <1>7
     DEF Registers!SetFailsafe, Registers!Setting, s, LimitRegister, FailsafeRegister, NominalRegister

\* the failsafe duration,
LEMMA SetDurationSets ==
    ASSUME StoredInv, NEW hours \in Durations, NEW changeable \in BOOLEAN,
           SetFailsafeDurationMinimum(hours, changeable)
    PROVE  Registers!SetDuration
<1> DEFINE s == [value |-> hours, isChangeable |-> changeable]
<1>1. hours \in Nat
  BY CsDataAssumption
<1>2. /\ added # {} /\ added' = added /\ request' = <<"duration", hours, changeable>>
      /\ hours \in PermittedDurations
      /\ loadControl' = loadControl /\ electricalConnection' = electricalConnection
      /\ deviceConfiguration' = UpdateKeyValueDataForFilter(deviceConfiguration,
                                    KeyData(hours, changeable), [keyName |-> DurationKey])
  BY DEF SetFailsafeDurationMinimum, Call
<1>3. DurationKey \in KeysOf(added)
  BY <1>2 DEF KeysOf
<1>4. /\ KeyValue(DurationKey)' = s
      /\ \A k \in FailsafeKeys \ {DurationKey} : KeyValue(k)' = KeyValue(k)
  BY <1>1, <1>2, <1>3, SetKeyStep
<1> HIDE DEF s
<1>5. FailsafeRegister' = FailsafeRegister
  <2>1. \A m \in UseCases : FailsafeKey(m) \in FailsafeKeys \ {DurationKey}
    BY Names
  <2>2. \A m \in UseCases : KeyValue(FailsafeKey(m))' = KeyValue(FailsafeKey(m))
    BY <1>4, <2>1
  <2> QED
    BY <2>2 DEF FailsafeRegister
<1>6. FailsafeDurationMinimum' = s
  BY <1>4 DEF FailsafeDurationMinimum
<1>7. LimitRegister' = LimitRegister /\ NominalRegister' = NominalRegister
  BY <1>2, SameLimitRegister, SameNominalRegister
<1> QED
  BY <1>2, <1>5, <1>6, <1>7
     DEF Registers!SetDuration, Registers!Setting, s, LimitRegister, FailsafeRegister, NominalRegister

\* a nominal maximum.
LEMMA SetNominalSets ==
    ASSUME StoredInv, NEW uc \in UseCases, NEW value \in Powers, SetNominalMax(uc, value)
    PROVE  Registers!SetNominal(uc)
<1>1. value \in Nat
  BY CsDataAssumption
<1>2. /\ added' = added /\ request' = <<"nominal", uc, value>>
      /\ loadControl' = loadControl /\ deviceConfiguration' = deviceConfiguration
  BY DEF SetNominalMax, Call
<1>3. NominalRegister' = [NominalRegister EXCEPT ![uc] = value]
  <2>1. /\ NominalMaxOf(uc)' = value
        /\ \A m \in UseCases \ {uc} : NominalMaxOf(m)' = NominalMaxOf(m)
    BY <1>1, SetNominalStep
  <2> QED
    BY <2>1, NominalRegisterSet
<1>4. /\ FailsafeRegister' = FailsafeRegister /\ FailsafeDurationMinimum' = FailsafeDurationMinimum
      /\ LimitRegister' = LimitRegister
  BY <1>2, SameKeyRegisters, SameLimitRegister
<1> QED
  BY <1>2, <1>3, <1>4 DEF Registers!SetNominal, LimitRegister, FailsafeRegister, NominalRegister

\* The limit of a use case that was added can be read.
LEMMA LimitsHaveValues == StoredInv => \A uc \in added : LimitOf(uc) # Nil
<1> SUFFICES ASSUME StoredInv, NEW uc \in added PROVE LimitOf(uc) # Nil
  OBVIOUS
<1>1. PICK desc, item : LimitsAre(loadControl, added, added, desc, item)
  BY DEF StoredInv, LimitsInv
<1>2. LimitOf(uc) = AsLimit(item[uc])
  BY <1>1, LimitsReadHolds DEF LimitsRead
<1>3. item[uc] \in StoredLimit
  BY <1>1 DEF LimitsAre
<1> QED
  BY <1>2, <1>3, StoredIsLimit, NilIsNoValue

NamedFailsafes(written) == {uc \in UseCases : FailsafeKey(uc) \in DOMAIN written}

\* A write changes the registers it names, if they may be changed.
LEMMA WriteLimitsWrites ==
    ASSUME StoredInv, NEW items \in SUBSET LimitItems,
           \A i, j \in items : i.uc = j.uc => i = j, WriteLimits(items)
    PROVE  Registers!WriteLimits(NamedUseCases(items))
<1> DEFINE M == NamedUseCases(items)
<1>1. /\ added' = added /\ request' = <<"write limits", M>>
      /\ deviceConfiguration' = deviceConfiguration /\ electricalConnection' = electricalConnection
  BY DEF WriteLimits, Call, NamedUseCases
<1>2. /\ M \subseteq added
      /\ \A m \in M : LimitOf(m).isChangeable /\ LimitOf(m)'.isChangeable
      /\ \A m \in added \ M : LimitOf(m)' = LimitOf(m)
  BY WriteLimitsStep
<1> HIDE DEF M
<1>3. \A m \in added : LimitOf(m) # Nil
  BY LimitsHaveValues
<1>4. added \subseteq UseCases
  BY DEF StoredInv
<1>5. ASSUME NEW m \in UseCases
      PROVE  IF LimitRegister[m] = Nil THEN LimitRegister'[m] = Nil
             ELSE Registers!Written(LimitRegister[m], LimitRegister'[m], m \in M)
  <2>1. CASE m \notin added
    BY <1>1, <2>1 DEF LimitRegister
  <2>2. CASE m \in M
    <3>1. LimitRegister[m] = LimitOf(m) /\ LimitRegister'[m] = LimitOf(m)'
      BY <1>1, <1>2, <2>2 DEF LimitRegister
    <3> QED
      BY <1>2, <1>3, <2>2, <3>1 DEF Registers!Written
  <2>3. CASE m \in added \ M
    <3>1. LimitRegister[m] = LimitOf(m) /\ LimitRegister'[m] = LimitOf(m)
      BY <1>1, <1>2, <2>3 DEF LimitRegister
    <3> QED
      BY <1>3, <2>3, <3>1 DEF Registers!Written
  <2> QED
    BY <2>1, <2>2, <2>3
<1>6. /\ FailsafeRegister' = FailsafeRegister /\ FailsafeDurationMinimum' = FailsafeDurationMinimum
      /\ NominalRegister' = NominalRegister
  BY <1>1, SameKeyRegisters, SameNominalRegister
<1> QED
  BY <1>1, <1>5, <1>6 DEF Registers!WriteLimits, LimitRegister, FailsafeRegister, NominalRegister, M

\* The same for failsafe values.
LEMMA WriteFailsafeWrites ==
    ASSUME StoredInv, NEW written \in KeyWrites, WriteFailsafe(written)
    PROVE  Registers!WriteFailsafe(NamedFailsafes(written), DurationKey \in DOMAIN written)
<1> DEFINE W == DOMAIN written
<1>1. /\ added' = added /\ request' = <<"write failsafe", NamedFailsafes(written), DurationKey \in W>>
      /\ loadControl' = loadControl /\ electricalConnection' = electricalConnection
      /\ \A k \in W : KeyValue(k) # Nil
  BY DEF WriteFailsafe, Call, NamedFailsafes
<1>2. /\ \A k \in W : KeyValue(k).isChangeable /\ KeyValue(k)'.isChangeable
      /\ \A k \in FailsafeKeys \ W : KeyValue(k)' = KeyValue(k)
  BY WriteFailsafeStep
<1> HIDE DEF W
<1>3. \A m \in UseCases : m \in NamedFailsafes(written) <=> FailsafeKey(m) \in W
  BY DEF NamedFailsafes, W
<1>4. ASSUME NEW k \in FailsafeKeys
      PROVE  IF KeyValue(k) = Nil THEN KeyValue(k)' = Nil
             ELSE Registers!Written(KeyValue(k), KeyValue(k)', k \in W)
  BY <1>1, <1>2 DEF Registers!Written
<1>5. Registers!Written(FailsafeDurationMinimum, FailsafeDurationMinimum', DurationKey \in W)
  BY <1>2, Names DEF Registers!Written, FailsafeDurationMinimum
<1>6. ASSUME NEW m \in UseCases
      PROVE  IF FailsafeRegister[m] = Nil THEN FailsafeRegister'[m] = Nil
             ELSE Registers!Written(FailsafeRegister[m], FailsafeRegister'[m], m \in NamedFailsafes(written))
  <2>1. FailsafeKey(m) \in FailsafeKeys
    BY Names
  <2>2. /\ FailsafeRegister[m] = KeyValue(FailsafeKey(m))
        /\ FailsafeRegister'[m] = KeyValue(FailsafeKey(m))'
    BY DEF FailsafeRegister
  <2>3. CASE FailsafeKey(m) \in W
    BY <1>1, <1>2, <1>3, <2>2, <2>3 DEF Registers!Written
  <2>4. CASE FailsafeKey(m) \notin W
    BY <1>2, <1>3, <2>1, <2>2, <2>4 DEF Registers!Written
  <2> QED
    BY <2>3, <2>4
<1>7. LimitRegister' = LimitRegister /\ NominalRegister' = NominalRegister
  BY <1>1, SameLimitRegister, SameNominalRegister
<1> QED
  BY <1>1, <1>5, <1>6, <1>7
     DEF Registers!WriteFailsafe, LimitRegister, FailsafeRegister, NominalRegister, W

\* The shared features act as independent named registers: a call changes the
\* value it names, to what was asked for, and no value of the other use case
\* (ActsAsRegisters).
THEOREM ActsAsRegistersHolds == Spec => ActsAsRegisters
<1>1. ASSUME Inductive, [Next]_vars PROVE [Registers!Next]_Registers!vars
  <2>0. StoredInv /\ "lpc" \in UseCases /\ "lpp" \in UseCases
    BY <1>1 DEF Inductive, UseCases
  <2>1. ASSUME NEW uc \in UseCases, AddUseCase(uc) PROVE Registers!Next
    <3>1. Registers!Announce(uc)
      BY <2>0, <2>1, AddAnnounces
    <3> QED
      BY <3>1 DEF Registers!Next
  <2>2. ASSUME NEW l \in Limits, SetConsumptionLimit(l) \/ SetProductionLimit(l) PROVE Registers!Next
    <3>1. \E uc \in UseCases : Registers!SetLimit(uc)
      BY <2>0, <2>2, SetLimitSets DEF SetConsumptionLimit, SetProductionLimit
    <3> QED
      BY <3>1 DEF Registers!Next
  <2>3. ASSUME NEW v \in Powers, NEW c \in BOOLEAN,
               \/ SetFailsafeConsumptionActivePowerLimit(v, c)
               \/ SetFailsafeProductionActivePowerLimit(v, c)
        PROVE  Registers!Next
    <3>1. \E uc \in UseCases : Registers!SetFailsafe(uc)
      BY <2>0, <2>3, SetFailsafeSets
         DEF SetFailsafeConsumptionActivePowerLimit, SetFailsafeProductionActivePowerLimit
    <3> QED
      BY <3>1 DEF Registers!Next
  <2>4. ASSUME NEW v \in Powers, SetConsumptionNominalMax(v) \/ SetProductionNominalMax(v)
        PROVE  Registers!Next
    <3>1. \E uc \in UseCases : Registers!SetNominal(uc)
      BY <2>0, <2>4, SetNominalSets DEF SetConsumptionNominalMax, SetProductionNominalMax
    <3> QED
      BY <3>1 DEF Registers!Next
  <2>5. ASSUME NEW d \in Durations, NEW c \in BOOLEAN, SetFailsafeDurationMinimum(d, c)
        PROVE  Registers!Next
    <3>1. Registers!SetDuration
      BY <2>0, <2>5, SetDurationSets
    <3> QED
      BY <3>1 DEF Registers!Next
  <2>6. ASSUME request' = request, added' = added, loadControl' = loadControl,
               deviceConfiguration' = deviceConfiguration, electricalConnection' = electricalConnection
        PROVE  UNCHANGED Registers!vars
    <3>1. /\ LimitRegister' = LimitRegister /\ FailsafeRegister' = FailsafeRegister
          /\ NominalRegister' = NominalRegister
          /\ FailsafeDurationMinimum' = FailsafeDurationMinimum
      BY <2>6, SameLimitRegister, SameKeyRegisters, SameNominalRegister
    <3> QED
      BY <2>6, <3>1 DEF Registers!vars, LimitRegister, FailsafeRegister, NominalRegister
  <2>7. ASSUME NEW items \in (SUBSET LimitItems) \ {{}},
               \A i, j \in items : i.uc = j.uc => i = j, WriteLimits(items)
        PROVE  Registers!Next
    <3>1. Registers!WriteLimits(NamedUseCases(items))
      BY <2>0, <2>7, WriteLimitsWrites
    <3>2. NamedUseCases(items) \in SUBSET UseCases
      BY <2>0, <2>7, WriteLimitsStep DEF StoredInv
    <3> QED
      BY <3>1, <3>2 DEF Registers!Next
  <2>8. ASSUME NEW written \in KeyWrites, WriteFailsafe(written) PROVE Registers!Next
    <3>1. Registers!WriteFailsafe(NamedFailsafes(written), DurationKey \in DOMAIN written)
      BY <2>0, <2>8, WriteFailsafeWrites
    <3>2. NamedFailsafes(written) \in SUBSET UseCases /\ (DurationKey \in DOMAIN written) \in BOOLEAN
      BY DEF NamedFailsafes
    <3> QED
      BY <3>1, <3>2 DEF Registers!Next
  <2>9. ASSUME \/ Start \/ UNCHANGED vars \/ \E h \in handlers : HandleEvent(h)
        PROVE  UNCHANGED Registers!vars
    <3>1. /\ request' = request /\ added' = added /\ loadControl' = loadControl
          /\ deviceConfiguration' = deviceConfiguration /\ electricalConnection' = electricalConnection
      BY <2>9 DEF Start, HandleEvent, vars, features
    <3> QED
      BY <2>6, <3>1
  <2> QED
    BY <1>1, <2>1, <2>2, <2>3, <2>4, <2>5, <2>7, <2>8, <2>9 DEF Next
<1> QED
  BY <1>1, InitRegisters, InductiveHolds, PTL DEF Spec, Registers!Spec, ActsAsRegisters

=============================================================================
