--------------------------- MODULE EnergyGuardProofs ---------------------------
(***************************************************************************)
(* Proofs about the energy guard's writes, for every set of limits, powers *)
(* and durations asked for: type correctness, and that the values of the   *)
(* device act as the registers of RemoteRegisters.                         *)
(***************************************************************************)
EXTENDS EnergyGuard, FiniteSetTheorems, SequenceTheorems, TLAPS

-----------------------------------------------------------------------------
(* The inductive invariant.                                                *)

KeyItem == [keyId : Nat, value : Nat]
Registers == UseCases \union Keys

\* The limits of both use cases are in the list, once; keys may be missing.
LimitList(list) == /\ list \in SUBSET LimitItem /\ UniqueIn(list, "limitId")
                   /\ {i.limitId : i \in list} = {LimitId(uc) : uc \in UseCases}
KeyList(list) == list \in SUBSET KeyItem /\ UniqueIn(list, "keyId")
GoodList(name, list) == IF name = "limits" THEN LimitList(list) ELSE KeyList(list)

\* The value of a register in the list that it belongs to.
InList(list, r) ==
    IF r \in UseCases THEN CHOOSE item \in list : item.limitId = LimitId(r)
    ELSE LET found == SearchFilterInList(list, [keyId |-> KeyId(r)])
         IN IF found = {} THEN Nil ELSE First(found, "keyId").value

Deletions == [selector : [limitId : Nat], elements : {{"timePeriod"}}] \union {NoDeletion}
DeviceMessage ==
    [list : {"limits", "keys"}, whole : BOOLEAN,
     data : (SUBSET LimitItem) \union (SUBSET KeyItem), deletion : Deletions]
News == [list : {"limits", "keys"}, data : (SUBSET LimitItem) \union (SUBSET KeyItem)]
Answer == [answers : Nat \ {0}, result : {"accepted", "denied"}]
Decisions == {"open", "accepted", "denied"}
Tellings == {"none", "accepted", "denied"}
WriteEntry ==
    [register : UseCases, request : Limit, decision : Decisions, told : Tellings]
    \union [register : Keys, request : Nat, decision : Decisions, told : Tellings]

\* Types, and that every list, stored or under way, is complete.
ListsInv ==
    /\ partial \in BOOLEAN
    /\ device \in [limits : SUBSET LimitItem, keys : SUBSET KeyItem]
    /\ LimitList(device.limits) /\ KeyList(device.keys)
    /\ cache \in [limits : SUBSET LimitItem, keys : SUBSET KeyItem]
    /\ cache.limits = {} \/ LimitList(cache.limits)
    /\ KeyList(cache.keys)
    /\ toDevice \in Seq(DeviceMessage)
    /\ toGuard \in Seq(News \union Answer)
    /\ \A i \in DOMAIN toGuard :
          toGuard[i] \in News => GoodList(toGuard[i].list, toGuard[i].data)
    /\ writes \in Seq(WriteEntry)
    /\ held = [r \in Registers |-> held[r]]

\* The values of a list are values that its registers had.
HeldIn(name, list) == \A r \in Registers : ListOf[r] = name => InList(list, r) \in held[r]

HeldInv ==
    /\ \A name \in {"limits", "keys"} : HeldIn(name, device[name])
    /\ cache.limits # {} => HeldIn("limits", cache.limits)
    /\ HeldIn("keys", cache.keys)
    /\ \A i \in DOMAIN toGuard :
          toGuard[i] \in News => HeldIn(toGuard[i].list, toGuard[i].data)

\* The messages to the device are the writes that are open, in their order.
OrderInv ==
    /\ Len(toDevice) <= Len(writes)
    /\ \A n \in DOMAIN writes :
          writes[n].decision = "open" <=> n > Len(writes) - Len(toDevice)

\* The item and the deletion that ask for a write.
ItemFor(r, request) ==
    IF r \in UseCases
    THEN [limitId |-> LimitId(r), value |-> request.value, isLimitActive |-> request.isActive,
          isLimitChangeable |-> Nil, timePeriod |-> Period(request.duration)]
    ELSE [keyId |-> KeyId(r), value |-> request]
DeletionFor(r, request) ==
    IF r \in UseCases THEN LimitDeletion(LimitId(r), request) ELSE NoDeletion

\* A message asks for its write and, in a list with values the other registers had, for
\* nothing else.
Carries(m, r, request) ==
    /\ m.list = ListOf[r] /\ m.whole = ~partial
    /\ partial => /\ m.data = {ItemFor(r, request)}
                  /\ m.deletion = DeletionFor(r, request)
    /\ ~partial => /\ GoodList(m.list, m.data)
                   /\ \E old \in held[r] : InList(m.data, r) = Requested(r, old, request)
                   /\ \A o \in Registers \ {r} :
                         ListOf[o] = ListOf[r] => InList(m.data, o) \in held[o]

WriteOf(k) == writes[Len(writes) - Len(toDevice) + k]

CarriesInv ==
    \A k \in DOMAIN toDevice : Carries(toDevice[k], WriteOf(k).register, WriteOf(k).request)

\* An answer is the decision about its write, which is told at most once.
TellInv ==
    /\ registering \union callbacks \subseteq DOMAIN writes
    /\ registering \intersect callbacks = {}
    /\ \A n \in registering \union callbacks : writes[n].told = "none"
    /\ \A i \in DOMAIN toGuard : toGuard[i] \in Answer =>
          /\ toGuard[i].answers \in DOMAIN writes
          /\ toGuard[i].result = writes[toGuard[i].answers].decision

Inductive == ListsInv /\ HeldInv /\ OrderInv /\ CarriesInv /\ TellInv

-----------------------------------------------------------------------------
(* Operators.                                                              *)

\* Every register lies in one list, under an identifier of its own.
LEMMA Ids ==
    /\ UseCases \intersect Keys = {}
    /\ \A uc \in UseCases : LimitId(uc) \in Nat /\ ListOf[uc] = "limits"
    /\ \A a, b \in UseCases : LimitId(a) = LimitId(b) => a = b
    /\ \A k \in Keys : KeyId(k) \in Nat /\ ListOf[k] = "keys"
    /\ \A a, b \in Keys : KeyId(a) = KeyId(b) => a = b
    /\ DOMAIN ListOf = Registers
BY DEF UseCases, Keys, LimitId, KeyId, DurationKey, FailsafeKey, ListOf, Registers

\* The limit of a use case in a list is the item with its identifier.
LEMMA LimitInList ==
    ASSUME NEW list, LimitList(list), NEW uc \in UseCases
    PROVE  /\ InList(list, uc) \in list /\ InList(list, uc).limitId = LimitId(uc)
           /\ \A i \in list : i.limitId = LimitId(uc) => i = InList(list, uc)
<1>1. LimitId(uc) \in {i.limitId : i \in list}
  BY DEF LimitList
<1>2. PICK i \in list : i.limitId = LimitId(uc)
  BY <1>1
<1>3. InList(list, uc) \in list /\ InList(list, uc).limitId = LimitId(uc)
  BY <1>2 DEF InList
<1>4. \A j \in list : j.limitId = LimitId(uc) => j = InList(list, uc)
  BY <1>3 DEF LimitList, UniqueIn
<1> QED
  BY <1>3, <1>4

\* The value of a key in a list is that of the item with its identifier.
LEMMA KeyInList ==
    ASSUME NEW list, KeyList(list), NEW k \in Keys
    PROVE  /\ \A i \in list : i.keyId = KeyId(k) => InList(list, k) = i.value
           /\ (\A i \in list : i.keyId # KeyId(k)) => InList(list, k) = Nil
<1> DEFINE found == SearchFilterInList(list, [keyId |-> KeyId(k)])
<1>1. found = {i \in list : i.keyId = KeyId(k)}
  BY DEF SearchFilterInList, SearchFilterInItem, KeyList, KeyItem
<1>2. InList(list, k) = IF found = {} THEN Nil ELSE First(found, "keyId").value
  BY Ids DEF InList
<1> HIDE DEF found
<1>3. ASSUME NEW i \in list, i.keyId = KeyId(k) PROVE InList(list, k) = i.value
  <2>1. found = {i}
    BY <1>1, <1>3 DEF KeyList, UniqueIn
  <2>2. i.keyId \in Nat
    BY <1>3, Ids
  <2>3. First(found, "keyId") = i
    BY <2>1, <2>2 DEF First
  <2> QED
    BY <1>2, <2>1, <2>3
<1>4. (\A i \in list : i.keyId # KeyId(k)) => InList(list, k) = Nil
  BY <1>1, <1>2
<1> QED
  BY <1>3, <1>4

\* A limit that is asked for has the fields of a limit.
LEMMA RequestedLimit ==
    ASSUME NEW uc \in UseCases, NEW request \in Limit, NEW i \in LimitItem
    PROVE  /\ Requested(uc, i, request)
                = [limitId |-> i.limitId, value |-> request.value,
                   isLimitActive |-> request.isActive,
                   isLimitChangeable |-> i.isLimitChangeable,
                   timePeriod |-> IF request.duration > 0 THEN request.duration
                                  ELSE IF request.deleteDuration THEN Nil ELSE i.timePeriod]
           /\ Requested(uc, i, request) \in LimitItem
<1> DEFINE period == IF request.duration > 0 THEN request.duration
                     ELSE IF request.deleteDuration THEN Nil ELSE i.timePeriod
<1>1. /\ i.limitId \in Nat /\ i.isLimitChangeable \in BOOLEAN \union {Nil}
      /\ request.value \in Nat /\ request.isActive \in BOOLEAN
      /\ period \in (Nat \ {0}) \union {Nil}
  BY DEF LimitItem, Limit
<1>2. Requested(uc, i, request)
        = [i EXCEPT !.value = request.value, !.isLimitActive = request.isActive,
                    !.timePeriod = period]
  BY DEF Requested
<1> HIDE DEF period
<1>3. Requested(uc, i, request)
        = [limitId |-> i.limitId, value |-> request.value,
           isLimitActive |-> request.isActive,
           isLimitChangeable |-> i.isLimitChangeable, timePeriod |-> period]
  BY <1>2 DEF LimitItem
<1>4. Requested(uc, i, request) \in LimitItem
  BY <1>1, <1>3 DEF LimitItem
<1> QED
  BY <1>3, <1>4 DEF period

\* A write of a limit changes that limit alone, as it was asked for.
LEMMA ApplyLimit ==
    ASSUME NEW uc \in UseCases, NEW request \in Limit, NEW list, LimitList(list),
           NEW new, new = UpdateData(Deleted(list, DeletionFor(uc, request)),
                                     {ItemFor(uc, request)}, {"limitId"})
    PROVE  /\ LimitList(new)
           /\ InList(new, uc) = Requested(uc, InList(list, uc), request)
           /\ \A o \in UseCases \ {uc} : InList(new, o) = InList(list, o)
<1> DEFINE id == LimitId(uc)
           item == ItemFor(uc, request)
           without == Deleted(list, DeletionFor(uc, request))
           Clear(i) == IF i.limitId = id /\ request.deleteDuration
                       THEN [i EXCEPT !.timePeriod = Nil] ELSE i
           Change(i) == IF i.limitId = id THEN Requested(uc, i, request) ELSE i
<1>0. /\ list \in SUBSET LimitItem /\ id \in Nat /\ Nil \notin Nat \union BOOLEAN
      /\ request.value \in Nat /\ request.isActive \in BOOLEAN
      /\ request.duration \in Nat /\ request.deleteDuration \in BOOLEAN
  BY Ids, EnergyGuardAssumption DEF LimitList, Limit
<1>1. without = {Clear(i) : i \in list}
  <2>1. CASE ~request.deleteDuration
    <3>1. DeletionFor(uc, request) = NoDeletion
      BY <2>1 DEF DeletionFor, LimitDeletion
    <3> QED
      BY <2>1, <3>1 DEF Deleted, NoDeletion
  <2>2. CASE request.deleteDuration
    <3>1. DeletionFor(uc, request) = [selector |-> [limitId |-> id], elements |-> {"timePeriod"}]
      BY <2>2 DEF DeletionFor, LimitDeletion
    <3>2. [limitId |-> id] # Nil
      BY <1>0, EnergyGuardAssumption
    <3> DEFINE hit == SearchFilterInList(list, [limitId |-> id])
    <3>3. hit = {i \in list : i.limitId = id}
      BY <1>0 DEF SearchFilterInList, SearchFilterInItem
    <3> HIDE DEF hit
    <3>4. without = (list \ hit) \union
                       {[f \in DOMAIN i |-> IF f \in {"timePeriod"} THEN Nil ELSE i[f]] : i \in hit}
      BY <3>1, <3>2 DEF Deleted, hit
    <3>5. \A i \in LimitItem : [f \in DOMAIN i |-> IF f \in {"timePeriod"} THEN Nil ELSE i[f]]
                                 = [i EXCEPT !.timePeriod = Nil]
      BY DEF LimitItem
    <3> QED
      BY <1>0, <2>2, <3>3, <3>4, <3>5
  <2> QED
    BY <1>0, <2>1, <2>2
<1>2. /\ \A i \in list : Clear(i) \in LimitItem /\ Clear(i).limitId = i.limitId
      /\ item.limitId = id
  BY <1>0 DEF LimitItem, ItemFor
<1>3. new = {Change(i) : i \in list}
  <2>1. \A i \in list : SameItem(Clear(i), item, {"limitId"}) <=> i.limitId = id
    BY <1>2 DEF SameItem
  <2>2. \A i \in list : (CHOOSE n \in {item} : SameItem(Clear(i), n, {"limitId"})) = item
                        \/ i.limitId # id
    BY <2>1
  <2>3. \A i \in list : i.limitId = id => Merge(Clear(i), item) = Change(i)
    <3> SUFFICES ASSUME NEW i \in list, i.limitId = id
                 PROVE  Merge(Clear(i), item) = Requested(uc, i, request)
      OBVIOUS
    <3>1. i \in LimitItem
      BY <1>0
    <3>2. Clear(i) = IF request.deleteDuration THEN [i EXCEPT !.timePeriod = Nil] ELSE i
      OBVIOUS
    <3>3. item = [limitId |-> id, value |-> request.value, isLimitActive |-> request.isActive,
                  isLimitChangeable |-> Nil,
                  timePeriod |-> IF request.duration > 0 THEN request.duration ELSE Nil]
      BY DEF ItemFor, Period
    <3> HIDE DEF item, Clear, id
    <3>4. Merge(Clear(i), item)
            = [limitId |-> id, value |-> request.value, isLimitActive |-> request.isActive,
               isLimitChangeable |-> i.isLimitChangeable,
               timePeriod |-> IF request.duration > 0 THEN request.duration
                              ELSE IF request.deleteDuration THEN Nil ELSE i.timePeriod]
      BY <1>0, <3>1, <3>2, <3>3 DEF Merge, LimitItem
    <3> QED
      <4>1. i.limitId = id
        BY DEF id
      <4> QED
        BY <3>1, <3>4, <4>1, RequestedLimit
  <2>4. \E i \in list : i.limitId = id
    BY LimitInList
  <2> HIDE DEF Clear, Change, item, id
  <2> DEFINE Updated(old) ==
        IF \E n \in {item} : SameItem(old, n, {"limitId"})
        THEN Merge(old, CHOOSE n \in {item} : SameItem(old, n, {"limitId"})) ELSE old
  <2>5. new = {Updated(old) : old \in without}
              \union {n \in {item} : \A old \in without : ~SameItem(old, n, {"limitId"})}
    BY DEF UpdateData, item
  <2>6. {n \in {item} : \A old \in without : ~SameItem(old, n, {"limitId"})} = {}
    BY <1>1, <2>1, <2>4
  <2>7. \A i \in list : Updated(Clear(i)) = Change(i)
    <3>1. ASSUME NEW i \in list, i.limitId = id PROVE Updated(Clear(i)) = Change(i)
      BY <2>1, <2>2, <2>3, <3>1
    <3>2. ASSUME NEW i \in list, i.limitId # id PROVE Updated(Clear(i)) = Change(i)
      BY <2>1, <3>2 DEF Clear, Change
    <3> QED
      BY <3>1, <3>2
  <2> HIDE DEF Updated
  <2>8. {Updated(old) : old \in without} = {Change(i) : i \in list}
    BY <1>1, <2>7
  <2> QED
    BY <2>5, <2>6, <2>8
<1>4. \A i \in list : Change(i) \in LimitItem /\ Change(i).limitId = i.limitId
  <2> SUFFICES ASSUME NEW i \in list
               PROVE  Change(i) \in LimitItem /\ Change(i).limitId = i.limitId
    OBVIOUS
  <2>1. i \in LimitItem
    BY <1>0
  <2>2. Requested(uc, i, request) \in LimitItem
        /\ Requested(uc, i, request).limitId = i.limitId
    BY <2>1, RequestedLimit
  <2> QED
    BY <2>1, <2>2
<1>5. LimitList(new)
  <2> HIDE DEF Change
  <2>1. new \in SUBSET LimitItem
    BY <1>3, <1>4
  <2>2. UniqueIn(new, "limitId")
    <3> SUFFICES ASSUME NEW i \in list, NEW j \in list,
                        Change(i).limitId = Change(j).limitId
                 PROVE  Change(i) = Change(j)
      BY <1>3 DEF UniqueIn
    <3>1. i.limitId = j.limitId
      BY <1>4
    <3> QED
      BY <3>1 DEF UniqueIn, LimitList
  <2>3. {i.limitId : i \in new} = {i.limitId : i \in list}
    <3>1. \A n \in new : \E i \in list : n.limitId = i.limitId
      BY <1>3, <1>4
    <3>2. \A i \in list : \E n \in new : n.limitId = i.limitId
      BY <1>3, <1>4
    <3> QED
      BY ONLY <3>1, <3>2
  <2> QED
    BY <2>1, <2>2, <2>3 DEF LimitList
<1>6. \A o \in UseCases : InList(new, o) = Change(InList(list, o))
  <2> TAKE o \in UseCases
  <2> HIDE DEF Change
  <2>1. Change(InList(list, o)) \in new /\ Change(InList(list, o)).limitId = LimitId(o)
    BY <1>3, <1>4, LimitInList
  <2> QED
    BY <1>5, <2>1, LimitInList
<1>7. \A o \in UseCases : /\ InList(list, o) \in list
                          /\ InList(list, o).limitId = id <=> o = uc
  BY LimitInList, Ids
<1> HIDE DEF Clear, item, id
<1>8. InList(new, uc) = Requested(uc, InList(list, uc), request)
  BY <1>6, <1>7
<1>9. \A o \in UseCases \ {uc} : InList(new, o) = InList(list, o)
  BY <1>6, <1>7
<1> QED
  BY <1>5, <1>8, <1>9

\* A write of a key changes that key alone, whether or not it was there.
LEMMA ApplyKey ==
    ASSUME NEW k \in Keys, NEW request \in Nat, NEW list, KeyList(list),
           NEW new, new = UpdateData(Deleted(list, DeletionFor(k, request)),
                                     {ItemFor(k, request)}, {"keyId"})
    PROVE  /\ KeyList(new)
           /\ InList(new, k) = request
           /\ \A o \in Keys \ {k} : InList(new, o) = InList(list, o)
<1> DEFINE id == KeyId(k)
           item == [keyId |-> id, value |-> request]
<1>0. list \in SUBSET KeyItem /\ id \in Nat /\ Nil \notin Nat /\ item \in KeyItem
  BY Ids, EnergyGuardAssumption DEF KeyList, KeyItem
<1>1. new = UpdateData(list, {item}, {"keyId"})
  BY Ids DEF DeletionFor, ItemFor, Deleted, NoDeletion
<1>2. \A i \in list : SameItem(i, item, {"keyId"}) <=> i.keyId = id
  BY DEF SameItem
<1>3. \A i \in list : i.keyId = id => Merge(i, item) = item
  BY <1>0 DEF Merge, KeyItem
<1> DEFINE Change(i) == IF i.keyId = id THEN item ELSE i
<1>4. \A i \in list :
           (IF \E n \in {item} : SameItem(i, n, {"keyId"})
            THEN Merge(i, CHOOSE n \in {item} : SameItem(i, n, {"keyId"})) ELSE i) = Change(i)
  <2> HIDE DEF item, id
  <2>1. ASSUME NEW i \in list, i.keyId = id
        PROVE  (IF \E n \in {item} : SameItem(i, n, {"keyId"})
                THEN Merge(i, CHOOSE n \in {item} : SameItem(i, n, {"keyId"})) ELSE i) = item
    <3>1. (CHOOSE n \in {item} : SameItem(i, n, {"keyId"})) = item
      BY <1>2, <2>1
    <3> QED
      BY <1>2, <1>3, <2>1, <3>1
  <2>2. ASSUME NEW i \in list, i.keyId # id
        PROVE  (IF \E n \in {item} : SameItem(i, n, {"keyId"})
                THEN Merge(i, CHOOSE n \in {item} : SameItem(i, n, {"keyId"})) ELSE i) = i
    BY <1>2, <2>2
  <2> QED
    BY <2>1, <2>2
<1>5. new = {i \in list : i.keyId # id} \union {item}
  <2> HIDE DEF item, id, Change
  <2>1. {n \in {item} : \A old \in list : ~SameItem(old, n, {"keyId"})}
          = IF \E i \in list : i.keyId = id THEN {} ELSE {item}
    BY <1>2
  <2> DEFINE Updated(i) ==
        IF \E n \in {item} : SameItem(i, n, {"keyId"})
        THEN Merge(i, CHOOSE n \in {item} : SameItem(i, n, {"keyId"})) ELSE i
  <2>3. new = {Updated(i) : i \in list}
              \union {n \in {item} : \A old \in list : ~SameItem(old, n, {"keyId"})}
    BY <1>1 DEF UpdateData
  <2>4. \A i \in list : Updated(i) = Change(i)
    BY <1>4
  <2> HIDE DEF Updated
  <2>2. new = {Change(i) : i \in list}
              \union {n \in {item} : \A old \in list : ~SameItem(old, n, {"keyId"})}
    BY <2>3, <2>4
  <2> QED
    BY <2>1, <2>2 DEF Change
<1>6. KeyList(new)
  <2>1. item.keyId = id
    OBVIOUS
  <2> HIDE DEF item, id
  <2>2. \A a, b \in new : a.keyId = b.keyId => a = b
    BY <1>5, <2>1 DEF KeyList, UniqueIn
  <2>3. new \in SUBSET KeyItem
    BY <1>0, <1>5
  <2> QED
    BY <2>2, <2>3 DEF KeyList, UniqueIn
<1>7. InList(new, k) = request
  <2>1. item \in new /\ item.keyId = KeyId(k) /\ item.value = request
    BY <1>5
  <2> QED
    BY <1>6, <2>1, KeyInList
<1>8. ASSUME NEW o \in Keys \ {k} PROVE InList(new, o) = InList(list, o)
  <2>1. KeyId(o) # id
    BY <1>8, Ids
  <2>2. CASE \E i \in list : i.keyId = KeyId(o)
    <3>1. PICK i \in list : i.keyId = KeyId(o)
      BY <2>2
    <3>2. i \in new
      BY <1>5, <2>1, <3>1
    <3> QED
      BY <1>6, <3>1, <3>2, KeyInList
  <2>3. CASE \A i \in list : i.keyId # KeyId(o)
    <3>1. \A i \in new : i.keyId # KeyId(o)
      BY <1>5, <2>1, <2>3
    <3> QED
      BY <1>6, <2>3, <3>1, KeyInList
  <2> QED
    BY <2>2, <2>3
<1> QED
  BY <1>6, <1>7, <1>8

-----------------------------------------------------------------------------
(* What the steps have in common.                                          *)

\* The value of a register is read in its list.
LEMMA ValueInList ==
    ASSUME NEW lists, NEW r \in Registers
    PROVE  ValueIn(lists, r) = InList(lists[ListOf[r]], r)
BY DEF ValueIn, InList, ListOf, Registers

Grows == partial' = partial /\ \A r \in Registers : held[r] \subseteq held'[r]

\* What a value was, it stays.
LEMMA HeldGrows ==
    ASSUME Grows
    PROVE  /\ \A name, list : HeldIn(name, list) =>
                 \A r \in Registers : ListOf[r] = name => InList(list, r) \in held'[r]
           /\ \A m, r, request : r \in Registers /\ Carries(m, r, request) =>
                 /\ m.list = ListOf[r] /\ m.whole = ~partial'
                 /\ partial' => /\ m.data = {ItemFor(r, request)}
                                /\ m.deletion = DeletionFor(r, request)
                 /\ ~partial' =>
                      /\ GoodList(m.list, m.data)
                      /\ \E old \in held'[r] : InList(m.data, r) = Requested(r, old, request)
                      /\ \A o \in Registers \ {r} :
                            ListOf[o] = ListOf[r] => InList(m.data, o) \in held'[o]
<1>1. \A name, list : HeldIn(name, list) =>
         \A r \in Registers : ListOf[r] = name => InList(list, r) \in held'[r]
  BY DEF HeldIn, Grows
<1>2. ASSUME NEW m, NEW r \in Registers, NEW request, Carries(m, r, request)
      PROVE  /\ m.list = ListOf[r] /\ m.whole = ~partial'
             /\ partial' => /\ m.data = {ItemFor(r, request)}
                            /\ m.deletion = DeletionFor(r, request)
             /\ ~partial' =>
                  /\ GoodList(m.list, m.data)
                  /\ \E old \in held'[r] : InList(m.data, r) = Requested(r, old, request)
                  /\ \A o \in Registers \ {r} :
                        ListOf[o] = ListOf[r] => InList(m.data, o) \in held'[o]
  BY <1>2 DEF Carries, Grows
<1> QED
  BY <1>1, <1>2

\* Everything that is not about the latest step alone.
LEMMA HeldKept ==
    ASSUME Grows, HeldInv,
           \A name \in {"limits", "keys"} :
               \A r \in Registers : ListOf[r] = name => InList(device'[name], r) \in held'[r],
           cache' = cache \/ \E name \in {"limits", "keys"} : \E data :
               HeldIn(name, data) /\ cache' = [cache EXCEPT ![name] = data],
           cache \in [limits : SUBSET LimitItem, keys : SUBSET KeyItem],
           \A i \in DOMAIN toGuard' : toGuard'[i] \in News =>
               \/ \E j \in DOMAIN toGuard : toGuard'[i] = toGuard[j]
               \/ toGuard'[i].data = device'[toGuard'[i].list]
    PROVE  HeldInv'
<1>1. \A name \in {"limits", "keys"} : HeldIn(name, device[name])'
  BY DEF HeldIn
<1>2. (cache.limits # {} => HeldIn("limits", cache.limits))'
  <2>1. CASE cache' = cache
    BY <2>1, HeldGrows DEF HeldInv, HeldIn
  <2>2. ASSUME NEW name \in {"limits", "keys"}, NEW data, HeldIn(name, data),
               cache' = [cache EXCEPT ![name] = data]
        PROVE  (cache.limits # {} => HeldIn("limits", cache.limits))'
    <3>1. CASE name = "limits"
      <4>1. cache'.limits = data
        BY <2>2, <3>1
      <4> QED
        BY <2>2, <3>1, <4>1, HeldGrows DEF HeldIn
    <3>2. CASE name = "keys"
      <4>1. cache'.limits = cache.limits
        BY <2>2, <3>2
      <4> QED
        BY <4>1, HeldGrows DEF HeldInv, HeldIn
    <3> QED
      BY <3>1, <3>2
  <2> QED
    BY <2>1, <2>2
<1>3. HeldIn("keys", cache.keys)'
  <2>1. CASE cache' = cache
    BY <2>1, HeldGrows DEF HeldInv, HeldIn
  <2>2. ASSUME NEW name \in {"limits", "keys"}, NEW data, HeldIn(name, data),
               cache' = [cache EXCEPT ![name] = data]
        PROVE  HeldIn("keys", cache.keys)'
    <3>1. CASE name = "keys"
      <4>1. cache'.keys = data
        BY <2>2, <3>1
      <4> QED
        BY <2>2, <3>1, <4>1, HeldGrows DEF HeldIn
    <3>2. CASE name = "limits"
      <4>1. cache'.keys = cache.keys
        BY <2>2, <3>2
      <4> QED
        BY <4>1, HeldGrows DEF HeldInv, HeldIn
    <3> QED
      BY <3>1, <3>2
  <2> QED
    BY <2>1, <2>2
<1>4. ASSUME NEW i \in DOMAIN toGuard', toGuard'[i] \in News
      PROVE  HeldIn(toGuard[i].list, toGuard[i].data)'
  <2>1. toGuard'[i].list \in {"limits", "keys"}
    BY <1>4 DEF News
  <2>2. CASE toGuard'[i].data = device'[toGuard'[i].list]
    BY <1>1, <2>1, <2>2 DEF HeldIn
  <2>3. ASSUME NEW j \in DOMAIN toGuard, toGuard'[i] = toGuard[j]
        PROVE  HeldIn(toGuard[i].list, toGuard[i].data)'
    <3>1. HeldIn(toGuard[j].list, toGuard[j].data)
      BY <1>4, <2>3 DEF HeldInv
    <3> QED
      BY <2>3, <3>1, HeldGrows DEF HeldIn
  <2> QED
    BY <1>4, <2>2, <2>3
<1> QED
  BY <1>1, <1>2, <1>3, <1>4 DEF HeldInv, News

\* The device decides about the first write that is open.
LEMMA NextOpen ==
    ASSUME ListsInv, OrderInv, toDevice # <<>>
    PROVE  /\ NextWrite = Len(writes) - Len(toDevice) + 1
           /\ NextWrite \in DOMAIN writes
           /\ writes[NextWrite] = WriteOf(1)
           /\ writes[NextWrite].decision = "open"
           /\ \A m \in DOMAIN writes : m < NextWrite => writes[m].decision # "open"
           /\ Len(Tail(toDevice)) = Len(toDevice) - 1 /\ Len(toDevice) \in Nat
           /\ Len(writes) \in Nat /\ 1 \in DOMAIN toDevice /\ Head(toDevice) = toDevice[1]
           /\ \A k \in 1..Len(Tail(toDevice)) :
                 Tail(toDevice)[k] = toDevice[k + 1] /\ k + 1 \in DOMAIN toDevice
<1>0. toDevice \in Seq(DeviceMessage) /\ writes \in Seq(WriteEntry)
  BY DEF ListsInv
<1>1. /\ Len(toDevice) \in Nat /\ Len(writes) \in Nat
      /\ DOMAIN writes = 1..Len(writes) /\ DOMAIN toDevice = 1..Len(toDevice)
      /\ Len(toDevice) # 0
  BY <1>0, EmptySeq
<1> DEFINE n == Len(writes) - Len(toDevice) + 1
<1>2. n \in DOMAIN writes /\ 1 \in DOMAIN toDevice
  BY <1>1 DEF OrderInv
<1>3. \A m \in DOMAIN writes : writes[m].decision = "open" <=> m >= n
  <2>1. \A m \in DOMAIN writes : m > Len(writes) - Len(toDevice) <=> m >= n
    BY <1>1
  <2> QED
    BY <2>1 DEF OrderInv
<1>4. n \in Nat /\ \A m \in 1..(n - 1) : m \in DOMAIN writes
  BY <1>1, <1>2
<1>5. writes[n].decision = "open"
  BY <1>1, <1>2, <1>3
<1> HIDE DEF n
<1>6. \A m \in 1..(n - 1) : writes[m].decision # "open"
  BY <1>3, <1>4
<1>7. ASSUME NEW m \in DOMAIN writes, writes[m].decision = "open",
             \A l \in 1..(m - 1) : writes[l].decision # "open"
      PROVE  m = n
  <2>1. m >= n /\ m \in Nat
    BY <1>1, <1>3, <1>7
  <2>2. CASE m > n
    <3>1. n \in 1..(m - 1)
      BY <1>1, <1>2, <1>4, <2>1, <2>2
    <3> QED
      BY <1>5, <1>7, <3>1
  <2> QED
    BY <1>4, <2>1, <2>2
<1>8. NextWrite = n
  BY <1>2, <1>5, <1>6, <1>7 DEF NextWrite
<1>9. \A m \in DOMAIN writes : m < n => writes[m].decision # "open"
  BY <1>1, <1>3, <1>4
<1>10. /\ Len(Tail(toDevice)) = Len(toDevice) - 1 /\ Head(toDevice) = toDevice[1]
       /\ \A k \in 1..Len(Tail(toDevice)) : Tail(toDevice)[k] = toDevice[k + 1]
  BY <1>0, HeadTailProperties
<1>11. \A k \in 1..Len(Tail(toDevice)) : k + 1 \in DOMAIN toDevice
  BY <1>1, <1>10
<1> QED
  BY <1>1, <1>2, <1>5, <1>8, <1>9, <1>10, <1>11 DEF n, WriteOf

-----------------------------------------------------------------------------
(* Writes of the application.                                              *)

\* What a register may be asked for.
RequestsOf(r) == IF r \in UseCases THEN LoadLimits[r]
                 ELSE IF r = DurationKey THEN PermittedDurations ELSE Powers

\* A write that can be asked for of register r; of a limit, the guard knows it.
Sends(r, request) ==
    /\ request \in RequestsOf(r)
    /\ r \in UseCases => cache.limits # {}
    /\ Send(r, request, Message(ListOf[r], ItemFor(r, request), DeletionFor(r, request)))
    /\ registering' \in {registering, registering \union {Len(writes) + 1}}

\* A call that writes a limit is a request to its register,
LEMMA LimitSends ==
    ASSUME ListsInv, NEW uc \in UseCases, NEW limit \in LoadLimits[uc],
           WriteLoadControlLimit(uc, limit)
    PROVE  Sends(uc, limit)
<1> DEFINE current == GetLimitDataForFilter(Cached("limits"), LimitFilter(uc))
<1>0. /\ cache.limits \in SUBSET LimitItem /\ UniqueIn(cache.limits, "limitId")
      /\ LimitId(uc) \in Nat
  <2>1. CASE cache.limits = {}
    BY <2>1, Ids DEF UniqueIn
  <2>2. CASE LimitList(cache.limits)
    BY <2>2, Ids DEF LimitList
  <2> QED
    BY <2>1, <2>2 DEF ListsInv
<1>1. GetLimitDescriptionsForFilter(Cached("limits"), LimitFilter(uc))
        = {[limitId |-> LimitId(uc), limitType |-> "signDependentAbsValueLimit",
            limitDirection |-> LimitDirection(uc), scopeType |-> "activePowerLimit"]}
  <2>1. \A u \in UseCases : LimitDirection(u) = LimitDirection(uc) => u = uc
    BY DEF UseCases, LimitDirection
  <2> QED
    BY <2>1 DEF GetLimitDescriptionsForFilter, SearchFilterInList, SearchFilterInItem,
                Cached, Descriptions, LimitFilter
<1>2. current = {i \in cache.limits : i.limitId = LimitId(uc)}
  <2> DEFINE d == [limitId |-> LimitId(uc), limitType |-> "signDependentAbsValueLimit",
                   limitDirection |-> LimitDirection(uc), scopeType |-> "activePowerLimit"]
  <2>1. GetLimitDescriptionsForFilter(Cached("limits"), LimitFilter(uc)) = {d}
        /\ d.limitId = LimitId(uc)
    BY <1>1
  <2> HIDE DEF d
  <2>2. Cached("limits").data = cache.limits
    BY DEF Cached
  <2>3. current = SearchFilterInList(cache.limits, [limitId |-> LimitId(uc)])
    BY <2>1, <2>2 DEF GetLimitDataForFilter
  <2> QED
    BY <1>0, <2>3 DEF SearchFilterInList, SearchFilterInItem
<1> HIDE DEF current
<1>3. Cardinality(current) = 1
  BY DEF WriteLoadControlLimit, current
<1>4. current # {}
  BY <1>3, FS_EmptySet
<1>5. First(current, "limitId").limitId = LimitId(uc)
  <2>1. PICK i \in current : current = {i}
    BY <1>2, <1>4, <1>0 DEF UniqueIn
  <2>2. First(current, "limitId") = i
    BY <1>0, <1>2, <2>1 DEF First
  <2> QED
    BY <1>2, <2>1, <2>2
<1>6. ItemFor(uc, limit)
        = [limitId |-> LimitId(uc), value |-> limit.value, isLimitActive |-> limit.isActive,
           isLimitChangeable |-> Nil, timePeriod |-> Period(limit.duration)]
  BY DEF ItemFor
<1>7. DeletionFor(uc, limit) = LimitDeletion(LimitId(uc), limit) /\ ListOf[uc] = "limits"
  BY Ids DEF DeletionFor
<1>8. Send(uc, limit, Message("limits", ItemFor(uc, limit), DeletionFor(uc, limit)))
      /\ registering' = registering \union {Len(writes) + 1}
  BY <1>5, <1>6, <1>7 DEF WriteLoadControlLimit, current
<1> QED
  BY <1>2, <1>4, <1>7, <1>8 DEF Sends, RequestsOf

\* and so is one that writes a failsafe value.
LEMMA KeySends ==
    ASSUME ListsInv, NEW k \in Keys, NEW request \in RequestsOf(k),
           WriteKeyValue(k, KeyId(k), request)
    PROVE  Sends(k, request)
BY Ids DEF Sends, WriteKeyValue, ItemFor, DeletionFor

\* Each write of the application asks one register for what it may hold.
LEMMA ApplicationSends ==
    ASSUME ListsInv,
           \/ \E l \in LoadLimits["lpc"] : WriteConsumptionLimit(l)
           \/ \E l \in LoadLimits["lpp"] : WriteProductionLimit(l)
           \/ \E v \in Powers : \/ WriteFailsafeConsumptionActivePowerLimit(v)
                                \/ WriteFailsafeProductionActivePowerLimit(v)
           \/ \E d \in Durations : WriteFailsafeDurationMinimum(d)
    PROVE  \E r \in Registers : \E request \in RequestsOf(r) : Sends(r, request)
<1>0. "lpc" \in UseCases /\ "lpp" \in UseCases
  BY DEF UseCases
<1>1. ASSUME NEW l \in LoadLimits["lpc"], WriteConsumptionLimit(l)
      PROVE  Sends("lpc", l) /\ "lpc" \in Registers /\ l \in RequestsOf("lpc")
  BY <1>0, <1>1, LimitSends DEF WriteConsumptionLimit, Registers, RequestsOf
<1>2. ASSUME NEW l \in LoadLimits["lpp"], WriteProductionLimit(l)
      PROVE  Sends("lpp", l) /\ "lpp" \in Registers /\ l \in RequestsOf("lpp")
  BY <1>0, <1>2, LimitSends DEF WriteProductionLimit, Registers, RequestsOf
<1>3. ASSUME NEW uc \in UseCases, NEW v \in Powers, WriteFailsafeActivePowerLimit(uc, v)
      PROVE  \E r \in Registers : \E request \in RequestsOf(r) : Sends(r, request)
  <2> DEFINE k == FailsafeKey(uc)
             found == GetKeyValueDescriptionsForFilter(Cached("keys"), [keyName |-> FailsafeKey(uc)])
  <2>1. k \in Keys /\ k # DurationKey /\ k \notin UseCases
    BY DEF Keys, FailsafeKey, DurationKey, UseCases
  <2>2. found = {[keyId |-> KeyId(k), keyName |-> k]}
    BY <2>1 DEF GetKeyValueDescriptionsForFilter, SearchFilterInList, SearchFilterInItem,
                Cached, Descriptions
  <2>3. KeyId(k) \in Nat
    BY <2>1, Ids
  <2> HIDE DEF k
  <2>4. First(found, "keyId").keyId = KeyId(k)
    <3> DEFINE d == [keyId |-> KeyId(k), keyName |-> k]
    <3>1. found = {d} /\ d.keyId = KeyId(k)
      BY <2>2
    <3> HIDE DEF d, found
    <3>2. First(found, "keyId") = d
      BY <2>3, <3>1 DEF First
    <3> QED
      BY <3>1, <3>2
  <2>5. WriteKeyValue(k, KeyId(k), v)
    BY <1>3, <2>4 DEF WriteFailsafeActivePowerLimit, k
  <2>6. v \in RequestsOf(k)
    BY <2>1 DEF RequestsOf
  <2> QED
    BY <2>1, <2>5, <2>6, KeySends DEF Registers
<1>4. ASSUME NEW d \in Durations, WriteFailsafeDurationMinimum(d)
      PROVE  \E r \in Registers : \E request \in RequestsOf(r) : Sends(r, request)
  <2> DEFINE k == DurationKey
             descs == GetKeyValueDescriptionsForFilter(Cached("keys"), [keyName |-> DurationKey])
             found == GetKeyValueDataForFilter(Cached("keys"), [keyName |-> DurationKey])
  <2>1. k \in Keys /\ k \notin UseCases
    BY DEF Keys, DurationKey, UseCases
  <2>2. descs = {[keyId |-> KeyId(k), keyName |-> k]}
    BY <2>1 DEF GetKeyValueDescriptionsForFilter, SearchFilterInList, SearchFilterInItem,
                Cached, Descriptions
  <2>3. KeyId(k) \in Nat /\ cache.keys \in SUBSET KeyItem /\ UniqueIn(cache.keys, "keyId")
    BY <2>1, Ids DEF ListsInv, KeyList
  <2>4. First(descs, "keyId").keyId = KeyId(k)
    <3> DEFINE e == [keyId |-> KeyId(k), keyName |-> k]
    <3>1. descs = {e} /\ e.keyId = KeyId(k)
      BY <2>2
    <3> HIDE DEF e, descs
    <3>2. First(descs, "keyId") = e
      BY <2>3, <3>1 DEF First
    <3> QED
      BY <3>1, <3>2
  <2>5. found = {i \in cache.keys : i.keyId = KeyId(k)}
    <3>1. found = SearchFilterInList(cache.keys, [keyId |-> KeyId(k)])
      BY <2>2, <2>4 DEF GetKeyValueDataForFilter, Cached
    <3> QED
      BY <2>3, <3>1 DEF SearchFilterInList, SearchFilterInItem
  <2>6. found # {} /\ d \in PermittedDurations
    BY <1>4 DEF WriteFailsafeDurationMinimum
  <2> HIDE DEF found, k
  <2>7. First(found, "keyId").keyId = KeyId(k)
    <3>1. PICK i \in found : found = {i}
      BY <2>3, <2>5, <2>6 DEF UniqueIn
    <3>2. First(found, "keyId") = i
      BY <2>3, <2>5, <3>1 DEF First
    <3> QED
      BY <2>5, <3>1, <3>2
  <2>8. WriteKeyValue(k, KeyId(k), d)
    BY <1>4, <2>7 DEF WriteFailsafeDurationMinimum, found, k
  <2>9. d \in RequestsOf(k)
    BY <2>1, <2>6 DEF RequestsOf, k
  <2> QED
    BY <2>1, <2>8, <2>9, KeySends DEF Registers
<1> QED
  BY <1>0, <1>1, <1>2, <1>3, <1>4
     DEF WriteFailsafeConsumptionActivePowerLimit, WriteFailsafeProductionActivePowerLimit

\* Requests are of the right type.
LEMMA RequestTypes ==
    ASSUME NEW r \in Registers, NEW request \in RequestsOf(r)
    PROVE  IF r \in UseCases THEN request \in Limit ELSE request \in Nat
<1>1. ASSUME r \in UseCases PROVE request \in Limit
  BY <1>1, EnergyGuardAssumption DEF RequestsOf
<1>2. PermittedDurations \subseteq Nat /\ Powers \subseteq Nat
  BY EnergyGuardAssumption DEF PermittedDurations
<1>3. ASSUME r \notin UseCases PROVE request \in Nat
  BY <1>2, <1>3 DEF RequestsOf
<1> QED
  BY <1>1, <1>3

\* The message of a write asks for it.
LEMMA MessageCarries ==
    ASSUME ListsInv, HeldInv, NEW r \in Registers, NEW request \in RequestsOf(r),
           r \in UseCases => cache.limits # {},
           NEW m, m = Message(ListOf[r], ItemFor(r, request), DeletionFor(r, request))
    PROVE  m \in DeviceMessage /\ Carries(m, r, request)
<1> DEFINE item == ItemFor(r, request)
           deletion == DeletionFor(r, request)
<1>1. /\ deletion \in Deletions
      /\ item \in LimitItem \union KeyItem /\ {item} \in (SUBSET LimitItem) \union (SUBSET KeyItem)
  <2>1. CASE r \in UseCases
    <3>1. request \in Limit /\ LimitId(r) \in Nat
      BY <2>1, RequestTypes, Ids
    <3>2. item \in LimitItem
      BY <2>1, <3>1, EnergyGuardAssumption DEF ItemFor, Period, Limit, LimitItem
    <3>3. deletion \in Deletions
      BY <2>1, <3>1 DEF DeletionFor, LimitDeletion, Deletions, Limit
    <3> QED
      BY <3>2, <3>3
  <2>2. CASE r \notin UseCases
    <3>1. request \in Nat /\ KeyId(r) \in Nat
      BY <2>2, RequestTypes, Ids DEF Registers
    <3> QED
      <4>1. item = [keyId |-> KeyId(r), value |-> request] /\ deletion = NoDeletion
        BY <2>2 DEF ItemFor, DeletionFor
      <4>2. [keyId |-> KeyId(r), value |-> request] \in KeyItem
        BY <3>1 DEF KeyItem
      <4>3. NoDeletion \in Deletions
        BY DEF Deletions
      <4> HIDE DEF item, deletion
      <4>4. item \in KeyItem /\ deletion \in Deletions
        BY <4>1, <4>2, <4>3
      <4>5. {item} \in SUBSET KeyItem
        BY <4>4
      <4> QED
        BY <4>4, <4>5
  <2> QED
    BY <2>1, <2>2
<1>2. ListOf[r] \in {"limits", "keys"}
  BY Ids DEF Registers
<1>3. CASE partial
  <2>1. m = [list |-> ListOf[r], whole |-> FALSE, data |-> {item}, deletion |-> deletion]
    BY <1>3 DEF Message
  <2> HIDE DEF item, deletion
  <2>2. m \in DeviceMessage
    BY <1>1, <1>2, <2>1 DEF DeviceMessage
  <2>3. m.list = ListOf[r] /\ m.data = {item} /\ m.deletion = deletion /\ m.whole = FALSE
    BY <2>1
  <2>4. m.whole = ~partial
    BY <1>3, <2>3
  <2> QED
    BY <1>3, <2>2, <2>3, <2>4 DEF Carries, item, deletion
<1>4. CASE ~partial
  <2> DEFINE data == UpdateData(Deleted(cache[ListOf[r]], deletion), {item}, {IdOf[ListOf[r]]})
  <2>1. m = [list |-> ListOf[r], whole |-> TRUE, deletion |-> NoDeletion, data |-> data]
    BY <1>4 DEF Message
  <2>2. NoDeletion \in Deletions
    BY DEF Deletions
  <2>3. GoodList(ListOf[r], data) /\ data \in (SUBSET LimitItem) \union (SUBSET KeyItem)
        /\ (\E old \in held[r] : InList(data, r) = Requested(r, old, request))
        /\ (\A o \in Registers \ {r} : ListOf[o] = ListOf[r] => InList(data, o) \in held[o])
    <3>1. CASE r \in UseCases
      <4>1. /\ ListOf[r] = "limits" /\ LimitList(cache.limits) /\ HeldIn("limits", cache.limits)
            /\ request \in Limit
        BY <3>1, Ids, RequestTypes DEF ListsInv, HeldInv
      <4>2. data = UpdateData(Deleted(cache.limits, deletion), {item}, {"limitId"})
        BY <4>1 DEF IdOf
      <4>3. /\ LimitList(data) /\ InList(data, r) = Requested(r, InList(cache.limits, r), request)
            /\ \A o \in UseCases \ {r} : InList(data, o) = InList(cache.limits, o)
        BY <3>1, <4>1, <4>2, ApplyLimit
      <4> HIDE DEF data
      <4>4. \A o \in Registers : ListOf[o] = "limits" => o \in UseCases
        BY Ids DEF Registers
      <4> QED
        BY <4>1, <4>3, <4>4 DEF GoodList, LimitList, HeldIn
    <3>2. CASE r \notin UseCases
      <4>1. /\ r \in Keys /\ ListOf[r] = "keys" /\ KeyList(cache.keys)
            /\ HeldIn("keys", cache.keys) /\ request \in Nat
        BY <3>2, Ids, RequestTypes DEF ListsInv, HeldInv, Registers
      <4>2. data = UpdateData(Deleted(cache.keys, deletion), {item}, {"keyId"})
        BY <4>1 DEF IdOf
      <4>3. /\ KeyList(data) /\ InList(data, r) = request
            /\ \A o \in Keys \ {r} : InList(data, o) = InList(cache.keys, o)
        BY <4>1, <4>2, ApplyKey
      <4> HIDE DEF data
      <4>4. \A o \in Registers : ListOf[o] = "keys" => o \in Keys
        BY Ids DEF Registers
      <4>5. InList(cache.keys, r) \in held[r]
        BY <4>1 DEF HeldIn
      <4>6. \A old : Requested(r, old, request) = request
        BY <3>2 DEF Requested
      <4>7. \A o \in Registers \ {r} : ListOf[o] = ListOf[r] => InList(data, o) \in held[o]
        BY <4>1, <4>3, <4>4 DEF HeldIn
      <4>8. \E old \in held[r] : InList(data, r) = Requested(r, old, request)
        BY <4>3, <4>5, <4>6
      <4>9. GoodList(ListOf[r], data) /\ data \in (SUBSET LimitItem) \union (SUBSET KeyItem)
        <5>1. GoodList("keys", data)
          BY <4>3 DEF GoodList
        <5>2. data \in SUBSET KeyItem
          BY <4>3 DEF KeyList
        <5> QED
          BY <4>1, <5>1, <5>2
      <4> QED
        BY <4>7, <4>8, <4>9
    <3> QED
      BY <3>1, <3>2
  <2> HIDE DEF data
  <2>4. m \in DeviceMessage
    BY <1>2, <2>1, <2>2, <2>3 DEF DeviceMessage
  <2>5. m.list = ListOf[r] /\ m.data = data /\ m.whole = TRUE
    BY <2>1
  <2>6. m.whole = ~partial
    BY <1>4, <2>5
  <2> QED
    BY <1>4, <2>3, <2>4, <2>5, <2>6 DEF Carries
<1> QED
  BY <1>3, <1>4

-----------------------------------------------------------------------------
(* Each step keeps the invariant.                                          *)

\* The invariant is kept by a call that writes.
LEMMA SendStep ==
    ASSUME Inductive, NEW r \in Registers, NEW request \in RequestsOf(r), Sends(r, request)
    PROVE  Inductive'
<1> DEFINE m == Message(ListOf[r], ItemFor(r, request), DeletionFor(r, request))
           e == [register |-> r, request |-> request, decision |-> "open", told |-> "none"]
<1>0. ListsInv /\ HeldInv /\ OrderInv /\ CarriesInv /\ TellInv
  BY DEF Inductive
<1>1. m \in DeviceMessage /\ Carries(m, r, request)
  BY <1>0, MessageCarries DEF Sends
<1>2. e \in WriteEntry /\ e.register = r /\ e.request = request /\ e.decision = "open"
      /\ e.told = "none"
  BY RequestTypes DEF WriteEntry, Registers, Decisions, Tellings
<1>3. /\ toDevice' = Append(toDevice, m) /\ writes' = Append(writes, e)
      /\ UNCHANGED <<partial, device, cache, toGuard, callbacks, held>>
      /\ registering' \in {registering, registering \union {Len(writes) + 1}}
  BY DEF Sends, Send
<1> HIDE DEF m, e
<1>4. /\ toDevice \in Seq(DeviceMessage) /\ writes \in Seq(WriteEntry)
      /\ Len(toDevice) \in Nat /\ Len(writes) \in Nat /\ Len(toDevice) <= Len(writes)
      /\ DOMAIN writes = 1..Len(writes) /\ DOMAIN toDevice = 1..Len(toDevice)
  BY <1>0 DEF ListsInv, OrderInv
<1>5. /\ toDevice' \in Seq(DeviceMessage) /\ Len(toDevice') = Len(toDevice) + 1
      /\ \A k \in 1..Len(toDevice) : toDevice'[k] = toDevice[k]
      /\ toDevice'[Len(toDevice) + 1] = m
      /\ DOMAIN toDevice' = 1..(Len(toDevice) + 1)
  BY <1>1, <1>3, <1>4, AppendProperties
<1>6. /\ writes' \in Seq(WriteEntry) /\ Len(writes') = Len(writes) + 1
      /\ \A k \in 1..Len(writes) : writes'[k] = writes[k]
      /\ writes'[Len(writes) + 1] = e
      /\ DOMAIN writes' = 1..(Len(writes) + 1)
  BY <1>2, <1>3, <1>4, AppendProperties
<1>7. ListsInv'
  BY <1>0, <1>3, <1>5, <1>6 DEF ListsInv
<1>8. HeldInv'
  BY <1>0, <1>3 DEF HeldInv, HeldIn
<1>9. OrderInv'
  <2>1. Len(toDevice') <= Len(writes') /\ Len(writes') - Len(toDevice') = Len(writes) - Len(toDevice)
    BY <1>4, <1>5, <1>6
  <2>2. ASSUME NEW n \in DOMAIN writes'
        PROVE  writes'[n].decision = "open" <=> n > Len(writes) - Len(toDevice)
    <3>1. CASE n \in 1..Len(writes)
      BY <1>0, <1>4, <1>6, <3>1 DEF OrderInv
    <3>2. CASE n = Len(writes) + 1
      BY <1>2, <1>4, <1>6, <3>2
    <3> QED
      BY <1>4, <1>6, <2>2, <3>1, <3>2
  <2> QED
    BY <2>1, <2>2 DEF OrderInv
<1>10. CarriesInv'
  <2>1. ASSUME NEW k \in 1..Len(toDevice)
        PROVE  toDevice'[k] = toDevice[k] /\ WriteOf(k)' = WriteOf(k)
    <3>1. Len(writes') - Len(toDevice') + k = Len(writes) - Len(toDevice) + k
      BY <1>4, <1>5, <1>6
    <3>2. Len(writes) - Len(toDevice) + k \in 1..Len(writes)
      BY <1>4, <2>1
    <3> QED
      BY <1>5, <1>6, <2>1, <3>1, <3>2 DEF WriteOf
  <2>2. ASSUME NEW k, k = Len(toDevice) + 1 PROVE toDevice'[k] = m /\ WriteOf(k)' = e
    <3>1. Len(writes') - Len(toDevice') + k = Len(writes) + 1
      BY <1>4, <1>5, <1>6, <2>2
    <3> QED
      BY <1>5, <1>6, <2>2, <3>1 DEF WriteOf
  <2>3. ASSUME NEW x, NEW o \in Registers, NEW q, Carries(x, o, q)
        PROVE  Carries(x, o, q)'
    BY <1>3, <2>3 DEF Carries
  <2>4. ASSUME NEW k \in 1..Len(toDevice)
        PROVE  Carries(toDevice[k], WriteOf(k).register, WriteOf(k).request)
               /\ WriteOf(k).register \in Registers
    <3>1. Len(writes) - Len(toDevice) + k \in 1..Len(writes)
      BY <1>4, <2>4
    <3>2. WriteOf(k) \in WriteEntry
      BY <1>4, <3>1 DEF WriteOf
    <3>3. WriteOf(k).register \in Registers
      BY <3>2 DEF WriteEntry, Registers
    <3> QED
      BY <1>0, <1>4, <2>4, <3>3 DEF CarriesInv
  <2>5. ASSUME NEW k \in DOMAIN toDevice'
        PROVE  Carries(toDevice[k], WriteOf(k).register, WriteOf(k).request)'
    <3>1. CASE k \in 1..Len(toDevice)
      BY <2>1, <2>3, <2>4, <3>1
    <3>2. CASE k = Len(toDevice) + 1
      BY <1>1, <1>2, <2>2, <2>3, <3>2
    <3> QED
      BY <1>4, <1>5, <2>5, <3>1, <3>2
  <2> QED
    BY <2>5 DEF CarriesInv
<1>11. TellInv'
  <2>1. \A n \in registering' \union callbacks' : n \in 1..Len(writes) \/ n = Len(writes) + 1
    BY <1>0, <1>3, <1>4 DEF TellInv
  <2>2. Len(writes) + 1 \notin DOMAIN writes
    BY <1>4
  <2>3. registering' \intersect callbacks' = {}
    BY <1>0, <1>3, <2>2 DEF TellInv
  <2>4. registering' \union callbacks' \subseteq DOMAIN writes'
    BY <1>4, <1>6, <2>1
  <2>5. \A n \in registering' \union callbacks' : writes'[n].told = "none"
    BY <1>0, <1>2, <1>3, <1>4, <1>6 DEF TellInv
  <2>6. \A i \in DOMAIN toGuard' : toGuard'[i] \in Answer =>
          /\ toGuard'[i].answers \in DOMAIN writes'
          /\ toGuard'[i].result = writes'[toGuard'[i].answers].decision
    BY <1>0, <1>3, <1>4, <1>6 DEF TellInv
  <2> QED
    BY <2>3, <2>4, <2>5, <2>6 DEF TellInv, Answer
<1> QED
  BY <1>7, <1>8, <1>9, <1>10, <1>11 DEF Inductive

\* The first write that is open is decided, with the first message.
LEMMA DecideStep ==
    ASSUME ListsInv, OrderInv, CarriesInv, Grows, toDevice # <<>>,
           NEW d \in {"accepted", "denied"},
           toDevice' = Tail(toDevice),
           writes' = [writes EXCEPT ![NextWrite].decision = d]
    PROVE  /\ OrderInv' /\ CarriesInv'
           /\ writes' \in Seq(WriteEntry) /\ toDevice' \in Seq(DeviceMessage)
           /\ DOMAIN writes' = DOMAIN writes
           /\ \A n \in DOMAIN writes : n # NextWrite => writes'[n] = writes[n]
           /\ writes'[NextWrite].decision = d
           /\ \A n \in DOMAIN writes : writes'[n].told = writes[n].told
<1>1. /\ NextWrite = Len(writes) - Len(toDevice) + 1 /\ NextWrite \in DOMAIN writes
      /\ Len(Tail(toDevice)) = Len(toDevice) - 1 /\ Len(toDevice) \in Nat
      /\ Len(writes) \in Nat
      /\ \A k \in 1..Len(Tail(toDevice)) :
            Tail(toDevice)[k] = toDevice[k + 1] /\ k + 1 \in DOMAIN toDevice
  BY NextOpen
<1>2. /\ toDevice \in Seq(DeviceMessage) /\ writes \in Seq(WriteEntry)
      /\ DOMAIN writes = 1..Len(writes)
  BY DEF ListsInv
<1> DEFINE n == NextWrite
           e == [writes[n] EXCEPT !.decision = d]
<1>3. writes' = [writes EXCEPT ![n] = e]
  OBVIOUS
<1>4. writes[n] \in WriteEntry
  BY <1>1, <1>2
<1>5. /\ e \in WriteEntry /\ e.decision = d /\ e.told = writes[n].told
      /\ e.register = writes[n].register /\ e.request = writes[n].request
  BY <1>4 DEF WriteEntry, Decisions, Tellings
<1> HIDE DEF e
<1>6. n \in 1..Len(writes)
  BY <1>1, <1>2
<1>7. /\ writes' \in Seq(WriteEntry) /\ Len(writes') = Len(writes)
      /\ writes'[n] = e /\ \A k \in 1..Len(writes) : k # n => writes'[k] = writes[k]
      /\ DOMAIN writes' = 1..Len(writes)
  <2>1. writes' \in Seq(WriteEntry) /\ Len(writes') = Len(writes) /\ DOMAIN writes' = 1..Len(writes)
    BY ONLY <1>2, <1>3, <1>5, <1>6
  <2>2. writes'[n] = e /\ \A k \in 1..Len(writes) : k # n => writes'[k] = writes[k]
    BY ONLY <1>2, <1>3, <1>6
  <2> QED
    BY <2>1, <2>2
<1>8. toDevice' \in Seq(DeviceMessage) /\ Len(toDevice') = Len(toDevice) - 1
  BY <1>1, <1>2, HeadTailProperties
<1>9. OrderInv'
  <2>1. Len(toDevice') <= Len(writes') /\ Len(writes') - Len(toDevice') = n
    BY <1>1, <1>7, <1>8 DEF OrderInv
  <2>2. ASSUME NEW k \in 1..Len(writes)
        PROVE  writes'[k].decision = "open" <=> k > n
    <3>1. CASE k = n
      BY <1>5, <1>6, <1>7, <3>1
    <3>2. CASE k # n
      <4>1. writes'[k].decision = "open" <=> k > Len(writes) - Len(toDevice)
        BY <1>2, <1>7, <2>2, <3>2 DEF OrderInv
      <4>2. k > Len(writes) - Len(toDevice) <=> k > n
        BY <1>1, <2>2, <3>2
      <4> QED
        BY <4>1, <4>2
    <3> QED
      BY <3>1, <3>2
  <2> QED
    BY <1>7, <2>1, <2>2 DEF OrderInv
<1>10. CarriesInv'
  <2>1. ASSUME NEW k \in DOMAIN toDevice'
        PROVE  Carries(toDevice[k], WriteOf(k).register, WriteOf(k).request)'
    <3>1. k \in 1..Len(Tail(toDevice)) /\ k \in Nat
      BY <1>8, <2>1
    <3>2. toDevice'[k] = toDevice[k + 1] /\ k + 1 \in DOMAIN toDevice
      BY <1>1, <3>1
    <3> DEFINE j == Len(writes) - Len(toDevice) + (k + 1)
    <3>3. Len(writes') - Len(toDevice') + k = j /\ j \in 1..Len(writes)
      <4>1. Len(toDevice) <= Len(writes)
        BY DEF OrderInv
      <4>2. Len(writes') = Len(writes) /\ Len(toDevice') = Len(toDevice) - 1
            /\ k \in 1..(Len(toDevice) - 1)
        BY <1>1, <1>7, <1>8, <3>1
      <4>3. Len(toDevice) \in Nat /\ Len(writes) \in Nat
        BY <1>1
      <4>4. /\ Len(writes') - Len(toDevice') + k = Len(writes) - Len(toDevice) + (k + 1)
            /\ Len(writes) - Len(toDevice) + (k + 1) \in 1..Len(writes)
        BY ONLY <4>1, <4>2, <4>3
      <4> QED
        BY <4>4
    <3> HIDE DEF j
    <3>4. /\ WriteOf(k).register' = writes[j].register
          /\ WriteOf(k).request' = writes[j].request
      BY <1>5, <1>7, <3>3 DEF WriteOf
    <3>5. Carries(toDevice[k + 1], writes[j].register, writes[j].request)
      BY <3>2 DEF CarriesInv, WriteOf, j
    <3>6. writes[j] \in WriteEntry
      BY <1>2, <3>3
    <3>7. writes[j].register \in Registers
      BY <3>6 DEF WriteEntry, Registers
    <3> DEFINE m == toDevice[k + 1]
               o == writes[j].register
               q == writes[j].request
    <3>8. /\ m.list = ListOf[o] /\ m.whole = ~partial'
          /\ partial' => /\ m.data = {ItemFor(o, q)} /\ m.deletion = DeletionFor(o, q)
          /\ ~partial' =>
               /\ GoodList(m.list, m.data)
               /\ \E old \in held'[o] : InList(m.data, o) = Requested(o, old, q)
               /\ \A x \in Registers \ {o} :
                     ListOf[x] = ListOf[o] => InList(m.data, x) \in held'[x]
      BY <3>5, <3>7, HeldGrows
    <3>9. /\ toDevice'[k] = m /\ WriteOf(k).register' = o /\ WriteOf(k).request' = q
      BY <3>2, <3>4
    <3> HIDE DEF m, o, q
    <3> QED
      BY <3>8, <3>9 DEF Carries
  <2> QED
    BY <2>1 DEF CarriesInv
<1> QED
  BY <1>2, <1>5, <1>7, <1>8, <1>9, <1>10

\* What comes back is a new list or an answer.
LEMMA NewsOrAnswer ==
    /\ \A m \in News : m \notin Answer /\ "list" \in DOMAIN m /\ "answers" \notin DOMAIN m
    /\ \A m \in Answer : m \notin News /\ "answers" \in DOMAIN m /\ "list" \notin DOMAIN m
BY DEF News, Answer

\* What the first message to the device makes of its list.
Taken(m) == IF m.whole THEN m.data
            ELSE UpdateData(Deleted(device[m.list], m.deletion), m.data, {IdOf[m.list]})

\* What a write that is taken makes of the device's list.
LEMMA TakenList ==
    ASSUME ListsInv, HeldInv, NEW m, NEW r \in Registers, NEW request,
           IF r \in UseCases THEN request \in Limit ELSE request \in Nat, Carries(m, r, request)
    PROVE  /\ m.list = ListOf[r] /\ GoodList(m.list, Taken(m))
           /\ partial => /\ InList(Taken(m), r)
                              = Requested(r, InList(device[m.list], r), request)
                         /\ \A o \in Registers \ {r} : ListOf[o] = m.list =>
                               InList(Taken(m), o) = InList(device[m.list], o)
           /\ ~partial => /\ \E old \in held[r] : InList(Taken(m), r) = Requested(r, old, request)
                          /\ \A o \in Registers \ {r} : ListOf[o] = m.list =>
                               InList(Taken(m), o) \in held[o]
<1>1. CASE ~partial
  <2>1. m.whole
    BY <1>1 DEF Carries
  <2> QED
    BY <1>1, <2>1 DEF Carries, Taken
<1>2. CASE partial
  <2>1. /\ ~m.whole /\ m.list = ListOf[r] /\ m.data = {ItemFor(r, request)}
        /\ m.deletion = DeletionFor(r, request)
    BY <1>2 DEF Carries
  <2>2. CASE r \in UseCases
    <3>1. ListOf[r] = "limits" /\ LimitList(device.limits) /\ request \in Limit
      BY <2>2, Ids DEF ListsInv
    <3>2. Taken(m) = UpdateData(Deleted(device.limits, DeletionFor(r, request)),
                                {ItemFor(r, request)}, {"limitId"})
      BY <2>1, <3>1 DEF Taken, IdOf
    <3>3. /\ LimitList(Taken(m))
          /\ InList(Taken(m), r) = Requested(r, InList(device.limits, r), request)
          /\ \A o \in UseCases \ {r} : InList(Taken(m), o) = InList(device.limits, o)
      BY <2>2, <3>1, <3>2, ApplyLimit
    <3>4. \A o \in Registers : ListOf[o] = "limits" => o \in UseCases
      BY Ids DEF Registers
    <3>5. GoodList("limits", Taken(m))
      BY <3>3 DEF GoodList
    <3> QED
      BY <1>2, <2>1, <3>1, <3>3, <3>4, <3>5
  <2>3. CASE r \notin UseCases
    <3>1. r \in Keys /\ ListOf[r] = "keys" /\ KeyList(device.keys) /\ request \in Nat
      BY <2>3, Ids DEF ListsInv, Registers
    <3>2. Taken(m) = UpdateData(Deleted(device.keys, DeletionFor(r, request)),
                                {ItemFor(r, request)}, {"keyId"})
      BY <2>1, <3>1 DEF Taken, IdOf
    <3>3. /\ KeyList(Taken(m)) /\ InList(Taken(m), r) = request
          /\ \A o \in Keys \ {r} : InList(Taken(m), o) = InList(device.keys, o)
      BY <3>1, <3>2, ApplyKey
    <3>4. \A o \in Registers : ListOf[o] = "keys" => o \in Keys
      BY Ids DEF Registers
    <3>5. GoodList("keys", Taken(m))
      BY <3>3 DEF GoodList
    <3>6. \A old : Requested(r, old, request) = request
      BY <2>3 DEF Requested
    <3> QED
      BY <1>2, <2>1, <3>1, <3>3, <3>4, <3>5, <3>6
  <2> QED
    BY <2>2, <2>3
<1> QED
  BY <1>1, <1>2

\* The invariant is kept when the device takes a write,
LEMMA AcceptStep ==
    ASSUME Inductive, DeviceAccepts
    PROVE  Inductive'
<1>0. ListsInv /\ HeldInv /\ OrderInv /\ CarriesInv /\ TellInv
  BY DEF Inductive
<1> DEFINE m == Head(toDevice)
           n == NextWrite
           r == writes[n].register
           request == writes[n].request
           list == Taken(m)
           notify == [list |-> m.list, data |-> list]
           result == [answers |-> n, result |-> "accepted"]
<1>1. /\ toDevice # <<>> /\ toDevice' = Tail(toDevice)
      /\ device' = [device EXCEPT ![m.list] = list] /\ held' = Held(device')
      /\ writes' = [writes EXCEPT ![n].decision = "accepted"]
      /\ UNCHANGED <<partial, cache, registering, callbacks>>
  BY DEF DeviceAccepts, Taken
<1>2. /\ n \in DOMAIN writes /\ n \in Nat \ {0} /\ writes[n] = WriteOf(1)
      /\ 1 \in DOMAIN toDevice /\ m = toDevice[1] /\ writes[n] \in WriteEntry
      /\ writes[n].decision = "open"
  BY <1>0, <1>1, NextOpen DEF ListsInv
<1>3. /\ r \in Registers /\ IF r \in UseCases THEN request \in Limit ELSE request \in Nat
      /\ Carries(m, r, request)
  <2>1. r \in Registers /\ IF r \in UseCases THEN request \in Limit ELSE request \in Nat
    BY <1>2, Ids DEF WriteEntry, Registers
  <2> QED
    BY <1>0, <1>2, <2>1 DEF CarriesInv
<1>4. /\ m.list = ListOf[r] /\ m.list \in {"limits", "keys"} /\ GoodList(m.list, list)
  BY <1>0, <1>3, TakenList, Ids DEF Registers
<1>5. /\ device \in [limits : SUBSET LimitItem, keys : SUBSET KeyItem]
      /\ device'[m.list] = list
      /\ \A name \in {"limits", "keys"} : name # m.list => device'[name] = device[name]
  BY <1>0, <1>1, <1>4 DEF ListsInv
<1>6. toGuard' \in {toGuard \o <<result, notify>>, toGuard \o <<notify, result>>}
  <2>1. device'[m.list] = list
    BY <1>5
  <2> QED
    BY <1>5 DEF DeviceAccepts, Taken
<1>7. Grows
  <2>1. held' = [x \in Registers |-> held[x] \union {ValueIn(device', x)}]
    BY <1>0, <1>1 DEF Held, ListsInv
  <2> QED
    BY <1>1, <2>1 DEF Grows
<1>8. /\ OrderInv' /\ CarriesInv'
      /\ writes' \in Seq(WriteEntry) /\ toDevice' \in Seq(DeviceMessage)
      /\ DOMAIN writes' = DOMAIN writes
      /\ \A k \in DOMAIN writes : k # n => writes'[k] = writes[k]
      /\ writes'[n].decision = "accepted"
      /\ \A k \in DOMAIN writes : writes'[k].told = writes[k].told
  BY <1>0, <1>1, <1>7, DecideStep
<1>9. notify \in News /\ result \in Answer
  <2>1. list \in (SUBSET LimitItem) \union (SUBSET KeyItem)
    BY <1>4 DEF GoodList, LimitList, KeyList
  <2> HIDE DEF list, m, n
  <2> QED
    BY <1>2, <1>4, <2>1 DEF News, Answer
<1>10. /\ notify.list = m.list /\ notify.data = list
       /\ result.answers = n /\ result.result = "accepted"
  OBVIOUS
<1> HIDE DEF notify, result, list, m, n, r, request
<1>11. /\ toGuard' \in Seq(News \union Answer)
       /\ \A i \in DOMAIN toGuard' : \/ \E j \in DOMAIN toGuard : toGuard'[i] = toGuard[j]
                                     \/ toGuard'[i] = notify \/ toGuard'[i] = result
  <2>1. toGuard \in Seq(News \union Answer)
    BY <1>0 DEF ListsInv
  <2>2. ASSUME NEW a \in News \union Answer, NEW b \in News \union Answer,
               toGuard' = toGuard \o <<a, b>>
        PROVE  /\ toGuard' \in Seq(News \union Answer)
               /\ \A i \in DOMAIN toGuard' : \/ \E j \in DOMAIN toGuard : toGuard'[i] = toGuard[j]
                                             \/ toGuard'[i] = a \/ toGuard'[i] = b
    <3>1. /\ <<a, b>> \in Seq(News \union Answer) /\ Len(<<a, b>>) = 2
          /\ <<a, b>>[1] = a /\ <<a, b>>[2] = b
      OBVIOUS
    <3>2. /\ toGuard' \in Seq(News \union Answer) /\ Len(toGuard') = Len(toGuard) + 2
          /\ \A i \in 1..(Len(toGuard) + 2) :
                toGuard'[i] = IF i <= Len(toGuard) THEN toGuard[i] ELSE <<a, b>>[i - Len(toGuard)]
      BY <2>1, <2>2, <3>1, ConcatProperties
    <3>3. DOMAIN toGuard = 1..Len(toGuard) /\ Len(toGuard) \in Nat
          /\ DOMAIN toGuard' = 1..(Len(toGuard) + 2)
      BY <2>1, <3>2
    <3>4. ASSUME NEW i \in DOMAIN toGuard'
          PROVE  \/ \E j \in DOMAIN toGuard : toGuard'[i] = toGuard[j]
                 \/ toGuard'[i] = a \/ toGuard'[i] = b
      <4>1. CASE i <= Len(toGuard)
        BY <3>2, <3>3, <3>4, <4>1
      <4>2. CASE ~(i <= Len(toGuard))
        <5>1. i - Len(toGuard) \in {1, 2} /\ toGuard'[i] = <<a, b>>[i - Len(toGuard)]
          BY <3>2, <3>3, <3>4, <4>2
        <5> QED
          BY <3>1, <5>1
      <4> QED
        BY <4>1, <4>2
    <3> QED
      BY <3>2, <3>4
  <2>3. toGuard' = toGuard \o <<result, notify>> \/ toGuard' = toGuard \o <<notify, result>>
    BY <1>6
  <2>4. result \in News \union Answer /\ notify \in News \union Answer
    BY <1>9
  <2>5. CASE toGuard' = toGuard \o <<result, notify>>
    BY <2>2, <2>4, <2>5
  <2>6. CASE toGuard' = toGuard \o <<notify, result>>
    BY <2>2, <2>4, <2>6
  <2> QED
    BY <2>3, <2>5, <2>6
<1>12. ListsInv'
  <2>1. /\ device' \in [limits : SUBSET LimitItem, keys : SUBSET KeyItem]
        /\ LimitList(device'.limits) /\ KeyList(device'.keys)
    <3>1. CASE m.list = "limits"
      <4>1. device' = [device EXCEPT !.limits = list] /\ LimitList(list)
        BY <1>1, <1>4, <3>1 DEF GoodList
      <4> QED
        BY <1>0, <1>5, <4>1 DEF ListsInv, LimitList
    <3>2. CASE m.list = "keys"
      <4>1. device' = [device EXCEPT !.keys = list] /\ KeyList(list)
        BY <1>1, <1>4, <3>2 DEF GoodList
      <4> QED
        BY <1>0, <1>5, <4>1 DEF ListsInv, KeyList
    <3> QED
      BY <1>4, <3>1, <3>2
  <2>2. \A i \in DOMAIN toGuard' :
          toGuard'[i] \in News => GoodList(toGuard'[i].list, toGuard'[i].data)
    BY <1>0, <1>4, <1>9, <1>10, <1>11, NewsOrAnswer DEF ListsInv
  <2>3. held' = [x \in Registers |-> held'[x]]
    <3>1. held' = [x \in Registers |-> held[x] \union {ValueIn(device', x)}]
      BY <1>0, <1>1 DEF Held, ListsInv
    <3> QED
      BY <3>1
  <2> QED
    BY <1>0, <1>1, <1>8, <1>11, <2>1, <2>2, <2>3 DEF ListsInv
<1>13. HeldInv'
  <2>1. \A x \in Registers : ValueIn(device', x) \in held'[x]
    <3>1. held' = [x \in Registers |-> held[x] \union {ValueIn(device', x)}]
      BY <1>0, <1>1 DEF Held, ListsInv
    <3> QED
      BY <3>1
  <2>2. \A name \in {"limits", "keys"} :
          \A x \in Registers : ListOf[x] = name => InList(device'[name], x) \in held'[x]
    BY <2>1, ValueInList
  <2>3. \A i \in DOMAIN toGuard' : toGuard'[i] \in News =>
          \/ \E j \in DOMAIN toGuard : toGuard'[i] = toGuard[j]
          \/ toGuard'[i].data = device'[toGuard'[i].list]
    BY <1>5, <1>9, <1>10, <1>11, NewsOrAnswer
  <2>4. cache' = cache /\ cache \in [limits : SUBSET LimitItem, keys : SUBSET KeyItem]
    BY <1>0, <1>1 DEF ListsInv
  <2> QED
    BY <1>0, <1>7, <2>2, <2>3, <2>4, HeldKept
<1>14. TellInv'
  <2>1. \A i \in DOMAIN toGuard' : toGuard'[i] \in Answer =>
          /\ toGuard'[i].answers \in DOMAIN writes'
          /\ toGuard'[i].result = writes'[toGuard'[i].answers].decision
    <3>1. ASSUME NEW i \in DOMAIN toGuard', toGuard'[i] \in Answer
          PROVE  /\ toGuard'[i].answers \in DOMAIN writes'
                 /\ toGuard'[i].result = writes'[toGuard'[i].answers].decision
      <4>1. CASE toGuard'[i] = result
        BY <1>2, <1>8, <1>10, <4>1
      <4>2. ASSUME NEW j \in DOMAIN toGuard, toGuard'[i] = toGuard[j]
            PROVE  /\ toGuard'[i].answers \in DOMAIN writes'
                   /\ toGuard'[i].result = writes'[toGuard'[i].answers].decision
        <5>1. /\ toGuard[j].answers \in DOMAIN writes
              /\ toGuard[j].result = writes[toGuard[j].answers].decision
              /\ toGuard[j].result # "open"
          BY <1>0, <3>1, <4>2 DEF TellInv, Answer
        <5>2. toGuard[j].answers # n
          BY <1>2, <5>1
        <5> QED
          BY <1>8, <4>2, <5>1, <5>2
      <4>3. toGuard'[i] # notify
        BY <1>9, <3>1, NewsOrAnswer
      <4> QED
        BY <1>11, <3>1, <4>1, <4>2, <4>3
    <3> QED
      BY <3>1
  <2> QED
    BY <1>0, <1>1, <1>8, <2>1 DEF TellInv, Answer
<1> QED
  BY <1>8, <1>12, <1>13, <1>14 DEF Inductive

\* Decided by the steps that leave the messages to the device alone.
LEMMA OrderKept ==
    ASSUME ListsInv, OrderInv, CarriesInv, Grows, UNCHANGED toDevice,
           writes' \in Seq(WriteEntry), Len(writes') = Len(writes),
           \A n \in DOMAIN writes : /\ writes'[n].register = writes[n].register
                                    /\ writes'[n].request = writes[n].request
                                    /\ writes'[n].decision = writes[n].decision
    PROVE  OrderInv' /\ CarriesInv'
<1>1. /\ Len(toDevice) \in Nat /\ Len(writes) \in Nat /\ Len(toDevice) <= Len(writes)
      /\ DOMAIN writes = 1..Len(writes) /\ DOMAIN writes' = 1..Len(writes)
      /\ DOMAIN toDevice = 1..Len(toDevice) /\ writes \in Seq(WriteEntry)
  BY DEF ListsInv, OrderInv
<1>2. OrderInv'
  BY <1>1 DEF OrderInv
<1>3. ASSUME NEW x, NEW o \in Registers, NEW q, Carries(x, o, q)
      PROVE  Carries(x, o, q)'
  <2>1. /\ x.list = ListOf[o] /\ x.whole = ~partial'
        /\ partial' => /\ x.data = {ItemFor(o, q)} /\ x.deletion = DeletionFor(o, q)
        /\ ~partial' =>
             /\ GoodList(x.list, x.data)
             /\ \E old \in held'[o] : InList(x.data, o) = Requested(o, old, q)
             /\ \A y \in Registers \ {o} :
                   ListOf[y] = ListOf[o] => InList(x.data, y) \in held'[y]
    BY <1>3, HeldGrows
  <2> QED
    BY <2>1 DEF Carries
<1>4. ASSUME NEW k \in 1..Len(toDevice)
      PROVE  /\ toDevice'[k] = toDevice[k] /\ WriteOf(k).register \in Registers
             /\ WriteOf(k).register' = WriteOf(k).register
             /\ WriteOf(k).request' = WriteOf(k).request
  <2>1. Len(writes') - Len(toDevice') + k = Len(writes) - Len(toDevice) + k
    OBVIOUS
  <2>2. Len(writes) - Len(toDevice) + k \in 1..Len(writes)
    BY <1>1, <1>4
  <2>3. WriteOf(k) \in WriteEntry
    BY <1>1, <2>2 DEF WriteOf
  <2>4. WriteOf(k).register \in Registers
    BY <2>3 DEF WriteEntry, Registers
  <2> QED
    BY <1>1, <2>1, <2>2, <2>4 DEF WriteOf
<1>5. ASSUME NEW k \in DOMAIN toDevice'
      PROVE  Carries(toDevice[k], WriteOf(k).register, WriteOf(k).request)'
  <2>1. k \in 1..Len(toDevice)
    BY <1>1, <1>5
  <2>2. Carries(toDevice[k], WriteOf(k).register, WriteOf(k).request)
    BY <1>1, <2>1 DEF CarriesInv
  <2> QED
    BY <1>3, <1>4, <2>1, <2>2
<1> QED
  BY <1>2, <1>5 DEF CarriesInv

\* when it refuses one,
LEMMA DenyStep ==
    ASSUME Inductive, DeviceDenies
    PROVE  Inductive'
<1> DEFINE n == NextWrite
           answer == [answers |-> n, result |-> "denied"]
<1>0. ListsInv /\ HeldInv /\ OrderInv /\ CarriesInv /\ TellInv
  BY DEF Inductive
<1>1. /\ toDevice # <<>> /\ toDevice' = Tail(toDevice)
      /\ writes' = [writes EXCEPT ![n].decision = "denied"]
      /\ toGuard' = Append(toGuard, answer)
      /\ UNCHANGED <<partial, device, cache, registering, callbacks, held>>
  BY DEF DeviceDenies
<1>2. n \in DOMAIN writes /\ n \in Nat \ {0} /\ writes[n].decision = "open"
  <2>1. n \in DOMAIN writes /\ writes[n].decision = "open"
    BY <1>0, <1>1, NextOpen
  <2> QED
    BY <1>0, <2>1 DEF ListsInv
<1>3. /\ OrderInv' /\ CarriesInv'
      /\ writes' \in Seq(WriteEntry) /\ toDevice' \in Seq(DeviceMessage)
      /\ DOMAIN writes' = DOMAIN writes
      /\ \A k \in DOMAIN writes : k # n => writes'[k] = writes[k]
      /\ writes'[n].decision = "denied"
      /\ \A k \in DOMAIN writes : writes'[k].told = writes[k].told
  <2>1. Grows
    BY <1>1 DEF Grows
  <2> QED
    BY <1>0, <1>1, <2>1, DecideStep
<1>4. answer \in Answer /\ answer.answers = n /\ answer.result = "denied"
  BY <1>2 DEF Answer
<1> HIDE DEF n, answer
<1>5. /\ toGuard' \in Seq(News \union Answer)
      /\ \A i \in DOMAIN toGuard' : \/ i \in DOMAIN toGuard /\ toGuard'[i] = toGuard[i]
                                    \/ toGuard'[i] = answer
  <2>1. toGuard \in Seq(News \union Answer)
    BY <1>0 DEF ListsInv
  <2> QED
    BY <1>1, <1>4, <2>1, AppendProperties
<1>6. ListsInv'
  <2>1. \A i \in DOMAIN toGuard' :
          toGuard'[i] \in News => GoodList(toGuard'[i].list, toGuard'[i].data)
    BY <1>0, <1>4, <1>5, NewsOrAnswer DEF ListsInv
  <2> QED
    BY <1>0, <1>1, <1>3, <1>5, <2>1 DEF ListsInv
<1>7. HeldInv'
  BY <1>0, <1>1, <1>4, <1>5, NewsOrAnswer DEF HeldInv, HeldIn
<1>8. TellInv'
  <2>1. ASSUME NEW i \in DOMAIN toGuard', toGuard'[i] \in Answer
        PROVE  /\ toGuard'[i].answers \in DOMAIN writes'
               /\ toGuard'[i].result = writes'[toGuard'[i].answers].decision
    <3>1. CASE toGuard'[i] = answer
      BY <1>2, <1>3, <1>4, <3>1
    <3>2. CASE i \in DOMAIN toGuard /\ toGuard'[i] = toGuard[i]
      <4>1. /\ toGuard[i].answers \in DOMAIN writes
            /\ toGuard[i].result = writes[toGuard[i].answers].decision
            /\ toGuard[i].result # "open"
        BY <1>0, <2>1, <3>2 DEF TellInv, Answer
      <4>2. toGuard[i].answers # n
        BY <1>2, <4>1
      <4> QED
        BY <1>3, <3>2, <4>1, <4>2
    <3> QED
      BY <1>5, <2>1, <3>1, <3>2
  <2> QED
    BY <1>0, <1>1, <1>3, <2>1 DEF TellInv, Answer
<1> QED
  BY <1>3, <1>6, <1>7, <1>8 DEF Inductive

\* A change of the device: one limit gets other values.
LEMMA ChangedList ==
    ASSUME NEW uc \in UseCases, NEW limit \in DeviceLimits, NEW list, LimitList(list),
           NEW new, NEW item,
           item = [limitId |-> LimitId(uc), value |-> limit.value,
                   isLimitActive |-> limit.isLimitActive,
                   isLimitChangeable |-> limit.isLimitChangeable,
                   timePeriod |-> limit.timePeriod],
           new = {IF i.limitId = item.limitId THEN item ELSE i : i \in list}
    PROVE  LimitList(new) /\ \A o \in UseCases \ {uc} : InList(new, o) = InList(list, o)
<1>1. item \in LimitItem /\ item.limitId = LimitId(uc)
  <2>1. limit \in [value : Nat, isLimitActive : BOOLEAN, isLimitChangeable : BOOLEAN,
                   timePeriod : (Nat \ {0}) \union {Nil}]
    BY EnergyGuardAssumption
  <2>2. LimitId(uc) \in Nat
    BY Ids
  <2> QED
    BY <2>1, <2>2 DEF LimitItem
<1> DEFINE Change(i) == IF i.limitId = LimitId(uc) THEN item ELSE i
<1>2. new = {Change(i) : i \in list}
  BY <1>1
<1>3. \A i \in list : Change(i) \in LimitItem /\ Change(i).limitId = i.limitId
  BY <1>1 DEF LimitList
<1> HIDE DEF Change
<1>4. LimitList(new)
  <2>1. new \in SUBSET LimitItem
    BY <1>2, <1>3
  <2>2. UniqueIn(new, "limitId")
    <3> SUFFICES ASSUME NEW i \in list, NEW j \in list,
                        Change(i).limitId = Change(j).limitId
                 PROVE  Change(i) = Change(j)
      BY <1>2 DEF UniqueIn
    <3>1. i.limitId = j.limitId
      BY <1>3
    <3> QED
      BY <3>1 DEF UniqueIn, LimitList
  <2>3. {i.limitId : i \in new} = {i.limitId : i \in list}
    BY <1>2, <1>3
  <2> QED
    BY <2>1, <2>2, <2>3 DEF LimitList
<1>5. ASSUME NEW o \in UseCases \ {uc} PROVE InList(new, o) = InList(list, o)
  <2>1. Change(InList(list, o)) = InList(list, o) /\ InList(list, o) \in list
        /\ InList(list, o).limitId = LimitId(o)
    BY <1>5, LimitInList, Ids DEF Change
  <2>2. InList(list, o) \in new
    BY <1>2, <2>1
  <2> QED
    BY <1>4, <2>1, <2>2, LimitInList
<1> QED
  BY <1>4, <1>5

\* What a change of the device does to the lists and their registers.
LEMMA Changed ==
    ASSUME ListsInv, NEW uc \in UseCases, NEW limit \in DeviceLimits, DeviceChanges(uc, limit)
    PROVE  /\ LimitList(device'.limits) /\ device' = [device EXCEPT !.limits = device'.limits]
           /\ \A o \in UseCases \ {uc} : InList(device'.limits, o) = InList(device.limits, o)
<1> DEFINE item == [limitId |-> LimitId(uc), value |-> limit.value,
                    isLimitActive |-> limit.isLimitActive,
                    isLimitChangeable |-> limit.isLimitChangeable,
                    timePeriod |-> limit.timePeriod]
           new == {IF i.limitId = item.limitId THEN item ELSE i : i \in device.limits}
<1>1. device' = [device EXCEPT !.limits = new]
  BY DEF DeviceChanges
<1>2. device \in [limits : SUBSET LimitItem, keys : SUBSET KeyItem] /\ LimitList(device.limits)
  BY DEF ListsInv
<1>3. LimitList(new) /\ \A o \in UseCases \ {uc} : InList(new, o) = InList(device.limits, o)
  <2>1. \A x, y : x = item /\ y = {IF i.limitId = x.limitId THEN x ELSE i : i \in device.limits} =>
          LimitList(y) /\ \A o \in UseCases \ {uc} : InList(y, o) = InList(device.limits, o)
    BY <1>2, ChangedList
  <2> HIDE DEF item
  <2> QED
    BY <2>1
<1> HIDE DEF new
<1>4. device'.limits = new
  BY <1>1, <1>2
<1> QED
  BY <1>1, <1>3, <1>4

\* when it changes a limit by itself,
LEMMA ChangeStep ==
    ASSUME Inductive, NEW uc \in UseCases, NEW limit \in DeviceLimits, DeviceChanges(uc, limit)
    PROVE  Inductive'
<1>0. ListsInv /\ HeldInv /\ OrderInv /\ CarriesInv /\ TellInv
  BY DEF Inductive
<1> DEFINE news == [list |-> "limits", data |-> device'.limits]
<1>1. /\ held' = Held(device')
      /\ toGuard' = Append(toGuard, news)
      /\ UNCHANGED <<partial, cache, toDevice, registering, callbacks, writes>>
  BY DEF DeviceChanges
<1>2. /\ LimitList(device'.limits) /\ device' = [device EXCEPT !.limits = device'.limits]
      /\ device' \in [limits : SUBSET LimitItem, keys : SUBSET KeyItem]
      /\ device'.keys = device.keys
  <2>1. LimitList(device'.limits) /\ device' = [device EXCEPT !.limits = device'.limits]
    BY <1>0, Changed
  <2>2. device \in [limits : SUBSET LimitItem, keys : SUBSET KeyItem]
    BY <1>0 DEF ListsInv
  <2>3. device'.limits \in SUBSET LimitItem
    BY <2>1 DEF LimitList
  <2> QED
    BY <2>1, <2>2, <2>3
<1>3. held' = [x \in Registers |-> held[x] \union {ValueIn(device', x)}]
  BY <1>0, <1>1 DEF Held, ListsInv
<1>4. Grows /\ \A x \in Registers : ValueIn(device', x) \in held'[x]
  BY <1>1, <1>3 DEF Grows
<1>5. news \in News /\ news.list = "limits" /\ news.data = device'.limits
  BY <1>2 DEF News
<1> HIDE DEF news
<1>6. /\ toGuard' \in Seq(News \union Answer)
      /\ \A i \in DOMAIN toGuard' : \/ i \in DOMAIN toGuard /\ toGuard'[i] = toGuard[i]
                                    \/ toGuard'[i] = news
  <2>1. toGuard \in Seq(News \union Answer)
    BY <1>0 DEF ListsInv
  <2> QED
    BY <1>1, <1>5, <2>1, AppendProperties
<1>7. ListsInv'
  <2>1. \A i \in DOMAIN toGuard' :
          toGuard'[i] \in News => GoodList(toGuard'[i].list, toGuard'[i].data)
    BY <1>0, <1>2, <1>5, <1>6 DEF ListsInv, GoodList
  <2>2. held' = [x \in Registers |-> held'[x]]
    BY <1>3
  <2>3. KeyList(device'.keys)
    BY <1>0, <1>2 DEF ListsInv
  <2> QED
    BY <1>0, <1>1, <1>2, <1>6, <2>1, <2>2, <2>3 DEF ListsInv
<1>8. HeldInv'
  <2>1. \A name \in {"limits", "keys"} :
          \A x \in Registers : ListOf[x] = name => InList(device'[name], x) \in held'[x]
    BY <1>4, ValueInList
  <2>2. cache' = cache /\ cache \in [limits : SUBSET LimitItem, keys : SUBSET KeyItem]
    BY <1>0, <1>1 DEF ListsInv
  <2> QED
    BY <1>0, <1>4, <1>5, <1>6, <2>1, <2>2, HeldKept
<1>9. OrderInv' /\ CarriesInv'
  <2>1. writes' = writes /\ writes \in Seq(WriteEntry)
    BY <1>0, <1>1 DEF ListsInv
  <2> QED
    BY <1>0, <1>1, <1>4, <2>1, OrderKept
<1>10. TellInv'
  BY <1>0, <1>1, <1>5, <1>6, NewsOrAnswer DEF TellInv
<1> QED
  BY <1>7, <1>8, <1>9, <1>10 DEF Inductive

\* when a callback is registered,
LEMMA CallbackStep ==
    ASSUME Inductive, NEW n \in registering, AddResponseCallback(n)
    PROVE  Inductive'
<1>0. ListsInv /\ HeldInv /\ OrderInv /\ CarriesInv /\ TellInv
  BY DEF Inductive
<1>1. /\ registering' = registering \ {n} /\ callbacks' = callbacks \union {n}
      /\ UNCHANGED <<partial, device, cache, toDevice, toGuard, writes, held>>
  BY DEF AddResponseCallback, Registered
<1>2. ListsInv'
  BY <1>0, <1>1 DEF ListsInv
<1>3. HeldInv'
  BY <1>0, <1>1 DEF HeldInv, HeldIn
<1>4. OrderInv' /\ CarriesInv'
  <2>1. Grows /\ writes' = writes /\ writes \in Seq(WriteEntry)
    BY <1>0, <1>1 DEF Grows, ListsInv
  <2> QED
    BY <1>0, <1>1, <2>1, OrderKept
<1>5. TellInv'
  BY <1>0, <1>1 DEF TellInv
<1> QED
  BY <1>2, <1>3, <1>4, <1>5 DEF Inductive

\* The first message of the device is taken from the others.
LEMMA TailOfGuard ==
    ASSUME ListsInv, toGuard # <<>>
    PROVE  /\ Tail(toGuard) \in Seq(News \union Answer)
           /\ Head(toGuard) = toGuard[1] /\ 1 \in DOMAIN toGuard
           /\ toGuard[1] \in News \union Answer
           /\ \A i \in DOMAIN Tail(toGuard) :
                 \E j \in DOMAIN toGuard : Tail(toGuard)[i] = toGuard[j]
<1>1. toGuard \in Seq(News \union Answer)
  BY DEF ListsInv
<1>2. Len(toGuard) \in Nat /\ DOMAIN toGuard = 1..Len(toGuard) /\ Len(toGuard) # 0
  BY <1>1, EmptySeq
<1>3. /\ Tail(toGuard) \in Seq(News \union Answer) /\ Head(toGuard) = toGuard[1]
      /\ Len(Tail(toGuard)) = Len(toGuard) - 1
      /\ \A i \in 1..Len(Tail(toGuard)) : Tail(toGuard)[i] = toGuard[i + 1]
  BY <1>1, HeadTailProperties
<1>4. \A i \in 1..(Len(toGuard) - 1) : i + 1 \in 1..Len(toGuard)
  BY <1>2
<1>5. DOMAIN Tail(toGuard) = 1..(Len(toGuard) - 1)
  BY <1>3
<1>6. 1 \in DOMAIN toGuard
  BY <1>2
<1> QED
  BY <1>1, <1>2, <1>3, <1>4, <1>5, <1>6

\* when a new list arrives,
LEMMA ReceiveListStep ==
    ASSUME Inductive, ReceiveList
    PROVE  Inductive'
<1>0. ListsInv /\ HeldInv /\ OrderInv /\ CarriesInv /\ TellInv
  BY DEF Inductive
<1> DEFINE m == Head(toGuard)
<1>1. /\ toGuard # <<>> /\ "list" \in DOMAIN m
      /\ toGuard' = Tail(toGuard) /\ cache' = [cache EXCEPT ![m.list] = m.data]
      /\ UNCHANGED <<partial, device, toDevice, registering, callbacks, writes, held>>
  BY DEF ReceiveList
<1>2. /\ toGuard' \in Seq(News \union Answer) /\ m = toGuard[1] /\ 1 \in DOMAIN toGuard
      /\ \A i \in DOMAIN toGuard' : \E j \in DOMAIN toGuard : toGuard'[i] = toGuard[j]
      /\ m \in News
  BY <1>0, <1>1, TailOfGuard, NewsOrAnswer
<1>3. m.list \in {"limits", "keys"} /\ GoodList(m.list, m.data) /\ HeldIn(m.list, m.data)
  BY <1>0, <1>2 DEF ListsInv, HeldInv, News
<1> HIDE DEF m
<1>4. Grows
  BY <1>1 DEF Grows
<1>5. cache \in [limits : SUBSET LimitItem, keys : SUBSET KeyItem]
  BY <1>0 DEF ListsInv
<1>6. ListsInv'
  <2>1. /\ cache' \in [limits : SUBSET LimitItem, keys : SUBSET KeyItem]
        /\ cache'.limits = {} \/ LimitList(cache'.limits)
        /\ KeyList(cache'.keys)
    <3>1. CASE m.list = "limits"
      <4>1. cache' = [cache EXCEPT !.limits = m.data] /\ LimitList(m.data)
        BY <1>1, <1>3, <3>1 DEF GoodList
      <4>2. m.data \in SUBSET LimitItem
        BY <4>1 DEF LimitList
      <4>3. cache'.limits = m.data /\ cache'.keys = cache.keys
        BY <1>5, <4>1
      <4>4. cache' \in [limits : SUBSET LimitItem, keys : SUBSET KeyItem]
        BY <1>5, <4>1, <4>2
      <4> QED
        BY <1>0, <4>1, <4>3, <4>4 DEF ListsInv
    <3>2. CASE m.list = "keys"
      <4>1. cache' = [cache EXCEPT !.keys = m.data] /\ KeyList(m.data)
        BY <1>1, <1>3, <3>2 DEF GoodList
      <4>2. m.data \in SUBSET KeyItem
        BY <4>1 DEF KeyList
      <4>3. cache'.keys = m.data /\ cache'.limits = cache.limits
        BY <1>5, <4>1
      <4>4. cache' \in [limits : SUBSET LimitItem, keys : SUBSET KeyItem]
        BY <1>5, <4>1, <4>2
      <4> QED
        BY <1>0, <4>1, <4>3, <4>4 DEF ListsInv
    <3> QED
      BY <1>3, <3>1, <3>2
  <2>2. \A i \in DOMAIN toGuard' :
          toGuard'[i] \in News => GoodList(toGuard'[i].list, toGuard'[i].data)
    BY <1>0, <1>2 DEF ListsInv
  <2> QED
    BY <1>0, <1>1, <1>2, <2>1, <2>2 DEF ListsInv
<1>7. HeldInv'
  <2>1. \A name \in {"limits", "keys"} :
          \A r \in Registers : ListOf[r] = name => InList(device'[name], r) \in held'[r]
    BY <1>0, <1>1 DEF HeldInv, HeldIn
  <2>2. \E name \in {"limits", "keys"} : \E data :
           HeldIn(name, data) /\ cache' = [cache EXCEPT ![name] = data]
    BY <1>1, <1>3
  <2> QED
    BY <1>0, <1>2, <1>4, <1>5, <2>1, <2>2, HeldKept
<1>8. OrderInv' /\ CarriesInv'
  <2>1. writes' = writes /\ writes \in Seq(WriteEntry)
    BY <1>0, <1>1 DEF ListsInv
  <2> QED
    BY <1>0, <1>1, <1>4, <2>1, OrderKept
<1>9. TellInv'
  BY <1>0, <1>1, <1>2 DEF TellInv
<1> QED
  BY <1>6, <1>7, <1>8, <1>9 DEF Inductive

\* An answer is the decision about its write, told only where a callback waits.
LEMMA AnswerTold ==
    ASSUME Inductive, ReceiveAnswer
    PROVE  /\ Inductive'
           /\ \/ writes' = writes
              \/ \E n \in DOMAIN writes :
                    /\ writes[n].decision # "open" /\ writes[n].told = "none"
                    /\ writes' = [writes EXCEPT ![n].told = writes[n].decision]
<1>0. ListsInv /\ HeldInv /\ OrderInv /\ CarriesInv /\ TellInv
  BY DEF Inductive
<1> DEFINE m == Head(toGuard)
           n == m.answers
<1>1. /\ toGuard # <<>> /\ "answers" \in DOMAIN m /\ toGuard' = Tail(toGuard)
      /\ callbacks' = callbacks \ {n}
      /\ writes' = IF n \in callbacks THEN [writes EXCEPT ![n].told = m.result] ELSE writes
      /\ UNCHANGED <<partial, device, cache, toDevice, registering, held>>
  BY DEF ReceiveAnswer
<1>2. /\ toGuard' \in Seq(News \union Answer) /\ m = toGuard[1] /\ 1 \in DOMAIN toGuard
      /\ \A i \in DOMAIN toGuard' : \E j \in DOMAIN toGuard : toGuard'[i] = toGuard[j]
      /\ m \in Answer
  BY <1>0, <1>1, TailOfGuard, NewsOrAnswer
<1>3. n \in DOMAIN writes /\ m.result = writes[n].decision /\ m.result \in {"accepted", "denied"}
  BY <1>0, <1>2 DEF TellInv, Answer
<1> HIDE DEF m, n
<1>4. Grows
  BY <1>1 DEF Grows
<1>5. /\ writes \in Seq(WriteEntry) /\ writes[n] \in WriteEntry
      /\ DOMAIN writes = 1..Len(writes)
  BY <1>0, <1>3 DEF ListsInv
<1> DEFINE e == [writes[n] EXCEPT !.told = m.result]
<1>6. /\ e \in WriteEntry /\ e.register = writes[n].register /\ e.request = writes[n].request
      /\ e.decision = writes[n].decision
  BY <1>3, <1>5 DEF WriteEntry, Tellings
<1>7. n \in callbacks => writes' = [writes EXCEPT ![n] = e]
  BY <1>1
<1> HIDE DEF e
<1>8. /\ writes' \in Seq(WriteEntry) /\ Len(writes') = Len(writes)
      /\ DOMAIN writes' = DOMAIN writes
      /\ \A k \in DOMAIN writes : k # n => writes'[k] = writes[k]
      /\ \A k \in DOMAIN writes : /\ writes'[k].register = writes[k].register
                                  /\ writes'[k].request = writes[k].request
                                  /\ writes'[k].decision = writes[k].decision
  <2>1. CASE n \in callbacks
    <3>1. writes' = [writes EXCEPT ![n] = e]
      BY <1>7, <2>1
    <3>2. /\ writes' \in Seq(WriteEntry) /\ Len(writes') = Len(writes)
          /\ writes'[n] = e /\ \A k \in 1..Len(writes) : k # n => writes'[k] = writes[k]
          /\ DOMAIN writes' = 1..Len(writes)
      BY <1>3, <1>5, <1>6, <3>1
    <3> QED
      BY <1>5, <1>6, <3>2
  <2>2. CASE n \notin callbacks
    BY <1>1, <1>5, <2>2
  <2> QED
    BY <2>1, <2>2
<1>9. ListsInv'
  <2>1. \A i \in DOMAIN toGuard' :
          toGuard'[i] \in News => GoodList(toGuard'[i].list, toGuard'[i].data)
    BY <1>0, <1>2 DEF ListsInv
  <2> QED
    BY <1>0, <1>1, <1>2, <1>8, <2>1 DEF ListsInv
<1>10. HeldInv'
  <2>1. HeldIn("limits", device.limits) /\ HeldIn("keys", device.keys)
    BY <1>0 DEF HeldInv
  <2>2. \A name \in {"limits", "keys"} :
          \A r \in Registers : ListOf[r] = name => InList(device'[name], r) \in held'[r]
    BY <1>0, <1>1 DEF HeldInv, HeldIn
  <2>3. cache' = cache /\ cache \in [limits : SUBSET LimitItem, keys : SUBSET KeyItem]
    BY <1>0, <1>1 DEF ListsInv
  <2> QED
    BY <1>0, <1>2, <1>4, <2>2, <2>3, HeldKept
<1>11. OrderInv' /\ CarriesInv'
  <2>1. UNCHANGED toDevice
    BY <1>1
  <2> QED
    BY <1>0, <1>4, <1>8, <2>1, OrderKept
<1>12. TellInv'
  <2>1. \A i \in DOMAIN toGuard' : toGuard'[i] \in Answer =>
          /\ toGuard'[i].answers \in DOMAIN writes'
          /\ toGuard'[i].result = writes'[toGuard'[i].answers].decision
    BY <1>0, <1>2, <1>8 DEF TellInv
  <2>2. \A k \in registering' \union callbacks' : writes'[k].told = "none"
    <3>1. ASSUME NEW k \in registering' \union callbacks' PROVE writes'[k].told = "none"
      <4>1. k \in registering \union callbacks /\ k \in DOMAIN writes /\ writes[k].told = "none"
        BY <1>0, <1>1 DEF TellInv
      <4>2. CASE k = n
        <5>1. n \notin callbacks
          BY <1>0, <1>1, <3>1, <4>2 DEF TellInv
        <5> QED
          BY <1>1, <4>1, <5>1
      <4>3. CASE k # n
        BY <1>8, <4>1, <4>3
      <4> QED
        BY <4>2, <4>3
    <3> QED
      BY <3>1
  <2> QED
    BY <1>0, <1>1, <1>8, <2>1, <2>2 DEF TellInv
<1>13. \/ writes' = writes
       \/ \E k \in DOMAIN writes :
             /\ writes[k].decision # "open" /\ writes[k].told = "none"
             /\ writes' = [writes EXCEPT ![k].told = writes[k].decision]
  <2>1. n \in callbacks => writes[n].told = "none"
    BY <1>0 DEF TellInv
  <2> QED
    BY <1>1, <1>3, <2>1
<1> QED
  BY <1>9, <1>10, <1>11, <1>12, <1>13 DEF Inductive

-----------------------------------------------------------------------------
(* The invariant holds.                                                    *)

\* and it holds at first.
LEMMA InitHolds ==
    ASSUME Init
    PROVE  Inductive
<1> DEFINE LimitOf(uc) == [limitId |-> LimitId(uc), value |-> 0, isLimitActive |-> TRUE,
                           isLimitChangeable |-> TRUE, timePeriod |-> 3]
           KeyOf(k) == [keyId |-> KeyId(k), value |-> 2]
           limits == {LimitOf(uc) : uc \in UseCases}
           keys == {KeyOf(k) : k \in Keys}
<1>1. /\ partial \in BOOLEAN /\ device = [limits |-> limits, keys |-> keys]
      /\ cache = [limits |-> {}, keys |-> {}] /\ toDevice = <<>>
      /\ toGuard = <<[list |-> "limits", data |-> limits], [list |-> "keys", data |-> keys]>>
      /\ registering = {} /\ callbacks = {} /\ writes = <<>>
  BY DEF Init
<1>2. /\ \A uc \in UseCases : LimitOf(uc) \in LimitItem /\ LimitOf(uc).limitId = LimitId(uc)
      /\ \A k \in Keys : KeyOf(k) \in KeyItem
      /\ \A a, b \in Keys : KeyOf(a).keyId = KeyOf(b).keyId => a = b
      /\ \A a, b \in UseCases : LimitOf(a).limitId = LimitOf(b).limitId => a = b
  BY Ids DEF LimitItem, KeyItem
<1> HIDE DEF LimitOf, KeyOf
<1>3. LimitList(limits) /\ KeyList(keys)
  <2>1. {i.limitId : i \in limits} = {LimitId(uc) : uc \in UseCases}
    BY <1>2
  <2>2. limits \in SUBSET LimitItem /\ keys \in SUBSET KeyItem
    BY <1>2
  <2>3. UniqueIn(limits, "limitId") /\ UniqueIn(keys, "keyId")
    BY <1>2 DEF UniqueIn
  <2> QED
    BY <2>1, <2>2, <2>3 DEF LimitList, KeyList
<1> HIDE DEF limits, keys
<1>4. /\ device \in [limits : SUBSET LimitItem, keys : SUBSET KeyItem]
      /\ cache \in [limits : SUBSET LimitItem, keys : SUBSET KeyItem]
      /\ device.limits = limits /\ device.keys = keys
      /\ cache.limits = {} /\ cache.keys = {}
  BY <1>1, <1>3 DEF LimitList, KeyList
<1> DEFINE a == [list |-> "limits", data |-> limits]
           b == [list |-> "keys", data |-> keys]
<1>5. a \in News /\ b \in News
  BY <1>3 DEF LimitList, KeyList, News
<1>6. a.list = "limits" /\ a.data = limits /\ b.list = "keys" /\ b.data = keys
  OBVIOUS
<1>7. toGuard = <<a, b>>
  BY <1>1
<1> HIDE DEF a, b
<1>8. /\ toGuard \in Seq(News \union Answer) /\ DOMAIN toGuard = {1, 2}
      /\ toGuard[1] = a /\ toGuard[2] = b
  BY <1>5, <1>7
<1>9. KeyList({}) /\ \A k \in Keys : InList({}, k) = Nil
  <2>1. KeyList({})
    BY DEF KeyList, UniqueIn
  <2> QED
    BY <2>1, KeyInList
<1>10. held = [r \in Registers |-> {ValueIn(device, r)} \union IF r \in Keys THEN {Nil} ELSE {}]
  BY Ids DEF Init
<1>11. ListsInv
  <2>1. \A i \in DOMAIN toGuard : GoodList(toGuard[i].list, toGuard[i].data)
    BY <1>3, <1>6, <1>8 DEF GoodList
  <2>2. held = [r \in Registers |-> held[r]]
    BY <1>10
  <2>3. /\ LimitList(device.limits) /\ KeyList(device.keys)
        /\ cache.limits = {} /\ KeyList(cache.keys)
    BY <1>3, <1>4, <1>9
  <2>4. toDevice \in Seq(DeviceMessage) /\ writes \in Seq(WriteEntry)
    BY <1>1
  <2> QED
    BY <1>1, <1>4, <1>8, <2>1, <2>2, <2>3, <2>4 DEF ListsInv
<1>12. HeldInv
  <2>1. \A r \in Registers : ValueIn(device, r) \in held[r]
    BY <1>10
  <2>2. \A name \in {"limits", "keys"} : HeldIn(name, device[name])
    BY <2>1, ValueInList DEF HeldIn
  <2>3. HeldIn("keys", cache.keys)
    <3>1. \A r \in Registers : ListOf[r] = "keys" => r \in Keys
      BY Ids DEF Registers
    <3> QED
      BY <1>4, <1>9, <1>10, <3>1 DEF HeldIn
  <2>4. HeldIn("limits", limits) /\ HeldIn("keys", keys)
    BY <1>4, <2>2
  <2>5. \A i \in DOMAIN toGuard : HeldIn(toGuard[i].list, toGuard[i].data)
    BY <1>6, <1>8, <2>4
  <2> QED
    BY <1>4, <2>2, <2>3, <2>5 DEF HeldInv
<1>13. OrderInv /\ CarriesInv
  BY <1>1 DEF OrderInv, CarriesInv
<1>14. TellInv
  BY <1>1, <1>5, <1>8, NewsOrAnswer DEF TellInv
<1> QED
  BY <1>11, <1>12, <1>13, <1>14 DEF Inductive

\* A stuttering step keeps the invariant.
LEMMA StutterStep ==
    ASSUME Inductive, UNCHANGED vars
    PROVE  Inductive'
<1>0. ListsInv /\ HeldInv /\ OrderInv /\ CarriesInv /\ TellInv
  BY DEF Inductive
<1>1. UNCHANGED <<partial, device, cache, toDevice, toGuard, registering, callbacks, writes, held>>
  BY DEF vars
<1>2. ListsInv'
  BY <1>0, <1>1 DEF ListsInv
<1>3. HeldInv'
  BY <1>0, <1>1 DEF HeldInv, HeldIn
<1>4. OrderInv' /\ CarriesInv'
  <2>1. Grows /\ writes' = writes /\ writes \in Seq(WriteEntry)
    BY <1>0, <1>1 DEF Grows, ListsInv
  <2> QED
    BY <1>0, <1>1, <2>1, OrderKept
<1>5. TellInv'
  BY <1>0, <1>1 DEF TellInv
<1> QED
  BY <1>2, <1>3, <1>4, <1>5 DEF Inductive

\* The steps, with all the writes of the application as one.
LEMMA StepCases ==
    ASSUME Inductive, [Next]_vars
    PROVE  \/ \E r \in Registers : \E request \in RequestsOf(r) : Sends(r, request)
           \/ \E uc \in UseCases, l \in DeviceLimits : DeviceChanges(uc, l)
           \/ \E n \in registering : AddResponseCallback(n)
           \/ DeviceAccepts \/ DeviceDenies
           \/ ReceiveList \/ ReceiveAnswer
           \/ UNCHANGED vars
<1>1. ListsInv
  BY DEF Inductive
<1> QED
  BY <1>1, ApplicationSends DEF Next

\* What the device holds, sends and answers fits the writes at every time:
\* lists are complete and of values that the registers had, the messages under
\* way ask for the open writes in their order and for nothing else, and the
\* answers under way are the decisions (WriteLoadControlLimit, WriteKeyValues,
\* AddResponseCallback).
THEOREM InductiveHolds == Spec => []Inductive
<1>1. Init => Inductive
  BY InitHolds
<1>2. ASSUME Inductive, [Next]_vars PROVE Inductive'
  BY <1>2, StepCases, SendStep, ChangeStep, CallbackStep, AcceptStep, DenyStep,
     ReceiveListStep, AnswerTold, StutterStep
<1> QED
  BY <1>1, <1>2, PTL DEF Spec

\* The lists of the device and the copy of them that the guard reads have the
\* right types and one item per identifier, whatever is written: no write
\* leaves a limit without an active flag or with a period that is over, and a
\* callback waits for a write that was sent (WriteLoadControlLimit,
\* WriteLimitData, WriteKeyValues).
THEOREM TypeCorrect == Spec => []TypeOK
<1>1. ASSUME Inductive PROVE TypeOK
  <2>1. /\ LimitList(device.limits) /\ KeyList(device.keys)
        /\ cache.limits = {} \/ LimitList(cache.limits)
        /\ KeyList(cache.keys)
    BY <1>1 DEF Inductive, ListsInv
  <2>2. device.limits \subseteq LimitItem /\ UniqueIn(device.limits, "limitId")
    BY <2>1 DEF LimitList
  <2>3. cache.limits \subseteq LimitItem /\ UniqueIn(cache.limits, "limitId")
    BY <2>1 DEF LimitList, UniqueIn
  <2>4. /\ device.keys \subseteq [keyId : Nat, value : Nat] /\ UniqueIn(device.keys, "keyId")
        /\ cache.keys \subseteq [keyId : Nat, value : Nat] /\ UniqueIn(cache.keys, "keyId")
    BY <2>1 DEF KeyList, KeyItem
  <2>5. registering \union callbacks \subseteq DOMAIN writes
        /\ registering \intersect callbacks = {}
    BY <1>1 DEF Inductive, TellInv
  <2> QED
    BY <2>2, <2>3, <2>4, <2>5 DEF TypeOK
<1> QED
  BY <1>1, InductiveHolds, PTL

-----------------------------------------------------------------------------
(* The values of the device are registers.                                 *)

Value == [r \in DOMAIN ListOf |-> ValueIn(device, r)]

\* The value of a register is what the device's list holds for it,
LEMMA ValueFacts ==
    /\ DOMAIN Value = Registers
    /\ \A r \in Registers : Value[r] = InList(device[ListOf[r]], r)
BY Ids, ValueInList DEF Value

\* before and after a step.
LEMMA ValueChanges ==
    /\ DOMAIN Value' = Registers
    /\ \A r \in Registers : Value'[r] = InList(device'[ListOf[r]], r)
<1>1. DOMAIN ListOf = Registers
  BY Ids
<1>2. Value' = [r \in Registers |-> ValueIn(device', r)]
  BY <1>1 DEF Value
<1> QED
  BY <1>2, ValueInList

\* A write of the application is the write of a register.
LEMMA SendsWrites ==
    ASSUME NEW r \in Registers, NEW request \in RequestsOf(r), Sends(r, request)
    PROVE  RemoteRegistersSpec!Write(r)
<1>1. /\ writes' = Append(writes, [register |-> r, request |-> request,
                                   decision |-> "open", told |-> "none"])
      /\ UNCHANGED <<partial, device, held>>
  BY DEF Sends, Send
<1>2. r \in DOMAIN ListOf
  BY Ids
<1> QED
  BY <1>1, <1>2 DEF RemoteRegistersSpec!Write, RequestsOf

\* The write the device looks at next is undecided.
LEMMA NextIsOpen ==
    ASSUME ListsInv, OrderInv, toDevice # <<>>
    PROVE  NextWrite \in DOMAIN writes /\ RemoteRegistersSpec!IsNext(NextWrite)
<1>1. /\ NextWrite \in DOMAIN writes /\ writes[NextWrite].decision = "open"
      /\ \A m \in DOMAIN writes : m < NextWrite => writes[m].decision # "open"
  BY NextOpen
<1>2. writes \in Seq(WriteEntry)
  BY DEF ListsInv
<1>3. \A m \in 1..(NextWrite - 1) : m \in DOMAIN writes /\ m < NextWrite
  BY <1>1, <1>2
<1> QED
  BY <1>1, <1>3 DEF RemoteRegistersSpec!IsNext

\* The values held after a step are those held before and the new one.
LEMMA HeldStep ==
    ASSUME ListsInv, held' = Held(device')
    PROVE  held' = [r \in Registers |-> held[r] \union {Value'[r]}]
<1>1. held' = [r \in Registers |-> held[r] \union {ValueIn(device', r)}]
  BY DEF Held, ListsInv
<1>2. \A r \in Registers : Value'[r] = ValueIn(device', r)
  BY ValueChanges, ValueInList
<1> QED
  BY <1>1, <1>2

\* The refinement, step by step: the device takes a write,
LEMMA AcceptTakes ==
    ASSUME Inductive, DeviceAccepts
    PROVE  \E n \in DOMAIN writes : RemoteRegistersSpec!Take(n)
<1>0. ListsInv /\ HeldInv /\ OrderInv /\ CarriesInv
  BY DEF Inductive
<1> DEFINE m == Head(toDevice)
           n == NextWrite
           r == writes[n].register
           request == writes[n].request
           list == Taken(m)
<1>1. /\ toDevice # <<>>
      /\ device' = [device EXCEPT ![m.list] = list] /\ held' = Held(device')
      /\ writes' = [writes EXCEPT ![n].decision = "accepted"]
      /\ UNCHANGED partial
  BY DEF DeviceAccepts, Taken
<1>2. n \in DOMAIN writes /\ RemoteRegistersSpec!IsNext(n)
  BY <1>0, <1>1, NextIsOpen
<1>3. /\ r \in Registers /\ IF r \in UseCases THEN request \in Limit ELSE request \in Nat
      /\ Carries(m, r, request)
  <2>1. /\ writes[n] = WriteOf(1) /\ 1 \in DOMAIN toDevice /\ m = toDevice[1]
        /\ writes[n] \in WriteEntry
    BY <1>0, <1>1, NextOpen DEF ListsInv
  <2>2. r \in Registers /\ IF r \in UseCases THEN request \in Limit ELSE request \in Nat
    BY <2>1, Ids DEF WriteEntry, Registers
  <2> QED
    BY <1>0, <2>1, <2>2 DEF CarriesInv
<1>4. /\ m.list = ListOf[r]
      /\ partial => /\ InList(list, r) = Requested(r, InList(device[m.list], r), request)
                    /\ \A o \in Registers \ {r} : ListOf[o] = m.list =>
                          InList(list, o) = InList(device[m.list], o)
      /\ ~partial => /\ \E old \in held[r] : InList(list, r) = Requested(r, old, request)
                     /\ \A o \in Registers \ {r} : ListOf[o] = m.list =>
                          InList(list, o) \in held[o]
  BY <1>0, <1>3, TakenList
<1> HIDE DEF list, m, n, r, request
<1>5. /\ device'[m.list] = list
      /\ \A o \in Registers : ListOf[o] # m.list => device'[ListOf[o]] = device[ListOf[o]]
  <2>1. device \in [limits : SUBSET LimitItem, keys : SUBSET KeyItem]
    BY <1>0 DEF ListsInv
  <2>2. \A o \in Registers : ListOf[o] \in {"limits", "keys"}
    BY Ids DEF Registers
  <2> QED
    BY <1>1, <1>3, <1>4, <2>1, <2>2
<1>6. /\ Value'[r] = InList(list, r)
      /\ \A o \in Registers : ListOf[o] = m.list => Value'[o] = InList(list, o)
      /\ \A o \in Registers : ListOf[o] # m.list => Value'[o] = Value[o]
      /\ Value[r] = InList(device[m.list], r)
      /\ \A o \in Registers : ListOf[o] = m.list => Value[o] = InList(device[m.list], o)
  BY <1>3, <1>4, <1>5, ValueFacts, ValueChanges
<1>7. partial => Value' = [Value EXCEPT ![r] = Requested(r, @, request)]
  <2> SUFFICES ASSUME partial PROVE Value' = [Value EXCEPT ![r] = Requested(r, @, request)]
    OBVIOUS
  <2>1. Value'[r] = Requested(r, Value[r], request)
    BY <1>4, <1>6
  <2>2. \A o \in Registers \ {r} : Value'[o] = Value[o]
    BY <1>4, <1>6
  <2>3. Value = [o \in Registers |-> Value[o]] /\ Value' = [o \in Registers |-> Value'[o]]
    <3>1. Value = [o \in Registers |-> ValueIn(device, o)]
      BY Ids DEF Value
    <3>2. Value' = [o \in Registers |-> ValueIn(device', o)]
      BY Ids DEF Value
    <3> QED
      BY <3>1, <3>2
  <2>4. DOMAIN Value = Registers /\ DOMAIN Value' = Registers
    BY ValueFacts, ValueChanges
  <2> QED
    BY <2>1, <2>2, <2>3, <2>4
<1>8. ~partial => /\ \E old \in held[r] : Value'[r] = Requested(r, old, request)
                  /\ \A o \in Registers \ {r} :
                        Value'[o] \in IF ListOf[o] = ListOf[r] THEN held[o] ELSE {Value[o]}
  BY <1>4, <1>6
<1>9. held' = [o \in Registers |-> held[o] \union {Value'[o]}]
  BY <1>0, <1>1, HeldStep
<1>10. DOMAIN ListOf = Registers
  BY Ids
<1>11. RemoteRegistersSpec!Take(n)
  <2>1. r = writes[n].register /\ request = writes[n].request
    BY DEF r, request
  <2> QED
    BY <1>1, <1>2, <1>7, <1>8, <1>9, <1>10, <2>1
       DEF RemoteRegistersSpec!Take, RemoteRegistersSpec!Held,
           RemoteRegistersSpec!Registers, Value
<1> QED
  BY <1>2, <1>11

\* refuses one,
LEMMA DenyRefuses ==
    ASSUME Inductive, DeviceDenies
    PROVE  \E n \in DOMAIN writes : RemoteRegistersSpec!Refuse(n)
<1>1. NextWrite \in DOMAIN writes /\ RemoteRegistersSpec!IsNext(NextWrite)
  BY NextIsOpen DEF DeviceDenies, Inductive
<1>2. /\ writes' = [writes EXCEPT ![NextWrite].decision = "denied"]
      /\ UNCHANGED <<partial, device, held>>
  BY DEF DeviceDenies
<1> QED
  BY <1>1, <1>2 DEF RemoteRegistersSpec!Refuse

\* changes a limit by itself,
LEMMA ChangeChanges ==
    ASSUME Inductive, NEW uc \in UseCases, NEW limit \in DeviceLimits, DeviceChanges(uc, limit)
    PROVE  RemoteRegistersSpec!Change(uc)
<1>0. ListsInv
  BY DEF Inductive
<1>1. held' = Held(device') /\ UNCHANGED <<partial, writes>>
  BY DEF DeviceChanges
<1>2. /\ device' = [device EXCEPT !.limits = device'.limits]
      /\ \A o \in UseCases \ {uc} : InList(device'.limits, o) = InList(device.limits, o)
  BY <1>0, Changed
<1>3. device'.keys = device.keys
  <2>1. device \in [limits : SUBSET LimitItem, keys : SUBSET KeyItem]
    BY <1>0 DEF ListsInv
  <2> QED
    BY <1>2, <2>1
<1>4. \A o \in Registers \ {uc} : Value'[o] = Value[o]
  <2>1. \A o \in Registers : \/ o \in UseCases /\ ListOf[o] = "limits"
                             \/ ListOf[o] = "keys"
    BY Ids DEF Registers
  <2> QED
    BY <1>2, <1>3, <2>1, ValueFacts, ValueChanges
<1>5. held' = [o \in Registers |-> held[o] \union {Value'[o]}]
  BY <1>0, <1>1, HeldStep
<1>6. DOMAIN ListOf = Registers
  BY Ids
<1> QED
  BY <1>1, <1>4, <1>5, <1>6
     DEF RemoteRegistersSpec!Change, RemoteRegistersSpec!Held,
         RemoteRegistersSpec!Registers, Value

\* and an answer is told.
LEMMA AnswerTells ==
    ASSUME Inductive, ReceiveAnswer
    PROVE  \/ UNCHANGED RemoteRegistersSpec!vars
           \/ \E n \in DOMAIN writes : RemoteRegistersSpec!Tell(n)
<1>1. UNCHANGED <<partial, device, held>>
  BY DEF ReceiveAnswer
<1>2. \/ writes' = writes
      \/ \E n \in DOMAIN writes :
            /\ writes[n].decision # "open" /\ writes[n].told = "none"
            /\ writes' = [writes EXCEPT ![n].told = writes[n].decision]
  BY AnswerTold
<1> QED
  BY <1>1, <1>2 DEF RemoteRegistersSpec!Tell, RemoteRegistersSpec!vars

\* Towards the application the values of the device are registers: a write
\* changes its own value, once and as it was asked for, and an answer that is
\* told is the answer to that write, although both use cases share the
\* features, the lists and the connection; only in the lists of a device that
\* takes no parts may earlier values come back (WriteLoadControlLimit,
\* WriteLimitData, WriteKeyValues).
THEOREM ActsAsRemoteRegistersHolds == Spec => ActsAsRemoteRegisters
<1>1. Init => RemoteRegistersSpec!Init
  <2> SUFFICES ASSUME Init PROVE RemoteRegistersSpec!Init
    OBVIOUS
  <2>1. held = [r \in DOMAIN ListOf |->
                   {ValueIn(device, r)} \union IF r \in Keys THEN {Nil} ELSE {}]
    BY DEF Init
  <2>2. partial \in BOOLEAN /\ writes = <<>>
    BY DEF Init
  <2> QED
    BY <2>1, <2>2 DEF RemoteRegistersSpec!Init, RemoteRegistersSpec!Registers
<1>2. ASSUME Inductive, [Next]_vars PROVE [RemoteRegistersSpec!Next]_RemoteRegistersSpec!vars
  <2>1. ASSUME NEW r \in Registers, NEW request \in RequestsOf(r), Sends(r, request)
        PROVE  RemoteRegistersSpec!Next
    <3>1. RemoteRegistersSpec!Write(r) /\ r \in DOMAIN ListOf
      BY <2>1, SendsWrites, Ids
    <3> QED
      BY <3>1 DEF RemoteRegistersSpec!Next, RemoteRegistersSpec!Registers
  <2>2. ASSUME NEW uc \in UseCases, NEW l \in DeviceLimits, DeviceChanges(uc, l)
        PROVE  RemoteRegistersSpec!Next
    <3>1. RemoteRegistersSpec!Change(uc) /\ uc \in DOMAIN ListOf
      BY <1>2, <2>2, ChangeChanges, Ids DEF Registers
    <3> QED
      BY <3>1 DEF RemoteRegistersSpec!Next, RemoteRegistersSpec!Registers
  <2>3. ASSUME NEW n \in registering, AddResponseCallback(n)
        PROVE  UNCHANGED RemoteRegistersSpec!vars
    BY <2>3 DEF AddResponseCallback, RemoteRegistersSpec!vars
  <2>4. ASSUME DeviceAccepts PROVE RemoteRegistersSpec!Next
    <3>1. \E n \in DOMAIN writes : RemoteRegistersSpec!Take(n)
      BY <1>2, <2>4, AcceptTakes
    <3> QED
      BY <3>1 DEF RemoteRegistersSpec!Next
  <2>5. ASSUME DeviceDenies PROVE RemoteRegistersSpec!Next
    <3>1. \E n \in DOMAIN writes : RemoteRegistersSpec!Refuse(n)
      BY <1>2, <2>5, DenyRefuses
    <3> QED
      BY <3>1 DEF RemoteRegistersSpec!Next
  <2>6. ASSUME ReceiveList PROVE UNCHANGED RemoteRegistersSpec!vars
    BY <2>6 DEF ReceiveList, RemoteRegistersSpec!vars
  <2>7. ASSUME ReceiveAnswer
        PROVE  RemoteRegistersSpec!Next \/ UNCHANGED RemoteRegistersSpec!vars
    <3>1. CASE UNCHANGED RemoteRegistersSpec!vars
      BY <3>1
    <3>2. CASE \E n \in DOMAIN writes : RemoteRegistersSpec!Tell(n)
      BY <3>2 DEF RemoteRegistersSpec!Next
    <3> QED
      BY <1>2, <2>7, <3>1, <3>2, AnswerTells
  <2>8. ASSUME UNCHANGED vars PROVE UNCHANGED RemoteRegistersSpec!vars
    BY <2>8 DEF vars, RemoteRegistersSpec!vars
  <2> QED
    BY <1>2, <2>1, <2>2, <2>3, <2>4, <2>5, <2>6, <2>7, <2>8, StepCases
<1> QED
  BY <1>1, <1>2, InductiveHolds, PTL
     DEF Spec, RemoteRegistersSpec!Spec, ActsAsRemoteRegisters

=============================================================================
