-------------------------- MODULE UseCaseBaseProofs --------------------------
(***************************************************************************)
(* Proofs about the list of remote entities of a use case, for every set   *)
(* of entities, scenarios and handlers: type correctness, that an index    *)
(* stays right until it is used unless a removal overlaps, that the        *)
(* application is told of every change, and that the list is current when  *)
(* events come one at a time.                                              *)
(***************************************************************************)
EXTENDS UseCaseBase, SequenceTheorems, WellFoundedInduction, TLAPS

-----------------------------------------------------------------------------
(* Operators.                                                              *)

\* A set of naturals that is not empty has a least element.
LEMMA LeastExists ==
    ASSUME NEW S, S \subseteq Nat, S # {}
    PROVE  \E i \in S : \A j \in S : i <= j
<1> DEFINE R == OpToRel(<, Nat)
<1>1. IsWellFoundedOn(R, Nat)
  BY NatLessThanWellFounded
<1>2. \A x, y \in Nat : x < y => <<x, y>> \in R
  BY DEF OpToRel
<1> HIDE DEF R
<1>3. PICK i \in S : \A j \in S : ~(<<j, i>> \in R)
  BY <1>1, WFMin, Zenon
<1>4. \A j \in S : ~(j < i)
  BY <1>2, <1>3
<1> QED
  BY <1>4

\* A handler with something to look at takes one of its updates.
LEMMA NextUpdateIn ==
    ASSUME TypeOK, NEW h \in Handlers, todo[h] # {}
    PROVE  NextUpdate(todo[h]) \in todo[h]
<1> DEFINE entries == {u.entry : u \in todo[h]}
<1>1. todo[h] \subseteq Update /\ Entities \subseteq Nat
  BY UseCaseAssumption DEF TypeOK
<1>2. PICK m \in entries : \A j \in entries : m <= j
  <2>1. entries # {} /\ entries \subseteq Nat
    BY <1>1 DEF Update
  <2> HIDE DEF entries
  <2> QED
    BY <2>1, LeastExists
<1> DEFINE firsts == {u \in todo[h] : u.entry = m}
           targets == {u.entity : u \in firsts}
<1>3. PICK n \in targets : \A j \in targets : n <= j
  <2>1. targets # {} /\ targets \subseteq Nat
    BY <1>1, <1>2 DEF Update
  <2> HIDE DEF targets
  <2> QED
    BY <2>1, LeastExists
<1>4. PICK u \in firsts : u.entity = n
  BY <1>3
<1>5. \A v \in todo[h] : Earlier(u, v)
  <2> SUFFICES ASSUME NEW v \in todo[h] PROVE Earlier(u, v)
    OBVIOUS
  <2>1. u.entry \in Nat /\ v.entry \in Nat /\ u.entry <= v.entry
    BY <1>1, <1>2, <1>4 DEF Update
  <2>2. u.entry = v.entry => u.entity <= v.entity
    BY <1>3, <1>4
  <2> QED
    BY <2>1, <2>2 DEF Earlier
<1> QED
  BY <1>4, <1>5 DEF NextUpdate

\* That update is about one of the device's entities.
LEMMA NextUpdateType ==
    ASSUME TypeOK, NEW h \in Handlers, todo[h] # {}
    PROVE  Target(h) \in Entities /\ ScenarioValues(h) \in SUBSET Scenarios
BY NextUpdateIn DEF Target, ScenarioValues, TypeOK, Update

\* The first position of an entity in the list is one.
LEMMA FirstIndexIn ==
    ASSUME TypeOK, NEW e, IndicesOf(e) # {}
    PROVE  /\ FirstIndexOf(e) \in 1..Len(available)
           /\ available[FirstIndexOf(e)].entity = e
<1>1. IndicesOf(e) \subseteq 1..Len(available)
  BY DEF TypeOK, IndicesOf
<1>2. IndicesOf(e) \subseteq Nat
  BY <1>1
<1>3. \E i \in IndicesOf(e) : \A j \in IndicesOf(e) : i <= j
  BY <1>2, LeastExists
<1>4. FirstIndexOf(e) \in IndicesOf(e)
  BY <1>3 DEF FirstIndexOf
<1> QED
  BY <1>1, <1>4 DEF IndicesOf

\* Removal of the element at position k.
Shortened(t, s, k) == t = SubSeq(s, 1, k - 1) \o SubSeq(s, k + 1, Len(s))

\* The elements before it keep their positions, those after it move up.
LEMMA Without ==
    ASSUME NEW S, NEW s \in Seq(S), NEW k \in 1..Len(s), NEW t, Shortened(t, s, k)
    PROVE  /\ t \in Seq(S)
           /\ Len(t) = Len(s) - 1
           /\ \A i \in 1..Len(t) : t[i] = IF i < k THEN s[i] ELSE s[i + 1]
<1>1. /\ SubSeq(s, 1, k - 1) \in Seq(S) /\ Len(SubSeq(s, 1, k - 1)) = k - 1
      /\ \A i \in 1..(k - 1) : SubSeq(s, 1, k - 1)[i] = s[i]
  BY SubSeqProperties
<1>2. /\ SubSeq(s, k + 1, Len(s)) \in Seq(S)
      /\ Len(SubSeq(s, k + 1, Len(s))) = Len(s) - k
      /\ \A i \in 1..(Len(s) - k) : SubSeq(s, k + 1, Len(s))[i] = s[k + i]
  BY SubSeqProperties
<1> DEFINE a == SubSeq(s, 1, k - 1)
           b == SubSeq(s, k + 1, Len(s))
<1>3. a \in Seq(S) /\ b \in Seq(S) /\ Len(a) = k - 1 /\ Len(b) = Len(s) - k
  BY <1>1, <1>2
<1>4. \A i \in 1..(k - 1) : a[i] = s[i]
  BY <1>1
<1>5. \A i \in 1..(Len(s) - k) : b[i] = s[k + i]
  BY <1>2
<1> HIDE DEF a, b
<1>0. Len(s) \in Nat /\ k \in Nat /\ 1 <= k /\ k <= Len(s)
  OBVIOUS
<1>6. /\ t \in Seq(S) /\ Len(t) = Len(a) + Len(b)
      /\ \A i \in 1..(Len(a) + Len(b)) :
            t[i] = IF i <= Len(a) THEN a[i] ELSE b[i - Len(a)]
  <2>1. t = a \o b
    BY DEF Shortened, a, b
  <2> QED
    BY <1>3, <2>1, ConcatProperties
<1>7. Len(t) = Len(s) - 1
  BY ONLY <1>0, <1>3, <1>6
<1>8. ASSUME NEW i \in 1..Len(t) PROVE t[i] = IF i < k THEN s[i] ELSE s[i + 1]
  <2>1. CASE i < k
    <3>1. t[i] = a[i] /\ i \in 1..(k - 1)
      BY ONLY <1>0, <1>3, <1>6, <1>7, <2>1, i \in 1..Len(t)
    <3> QED
      BY <1>4, <2>1, <3>1
  <2>2. CASE ~(i < k)
    <3>1. t[i] = b[i - (k - 1)] /\ i - (k - 1) \in 1..(Len(s) - k)
      BY ONLY <1>0, <1>3, <1>6, <1>7, <2>2, i \in 1..Len(t)
    <3>2. k + (i - (k - 1)) = i + 1
      BY <2>2
    <3> QED
      BY <1>5, <2>2, <3>1, <3>2
  <2> QED
    BY <2>1, <2>2
<1> QED
  BY <1>6, <1>7, <1>8

-----------------------------------------------------------------------------
\* The device has been connected when it is, and where a handler stands tells what
\* it still has to look at and which indices it holds.
StandingInv ==
    /\ connected => connection > 0
    /\ \A h \in Handlers :
         /\ todo[h] # {} => phase[h] \in {"lookup", "append", "compare", "write", "notify"}
         /\ phase[h] \in {"lookup", "append", "compare", "write"} => todo[h] # {}
         /\ phase[h] \in {"compare", "write", "remove"} => index[h] # <<>>

\* What a removal that is under way does with the list, it does alone.
RemovingInv ==
    ~removalOverlapped =>
        \A g, h \in Handlers : Removing(h) /\ phase[g] # "idle" => g = h

\* The indices of h are those of the whole list, the last one first.
WholeList(h) ==
    /\ Len(index[h]) = Len(available)
    /\ \A i \in DOMAIN index[h] : index[h][i] = Len(available) + 1 - i

\* Each index that a handler holds is that of its entity, or of the whole list.
IndexInv ==
    ~removalOverlapped =>
        /\ ~crashed
        /\ \A h \in Handlers : phase[h] \in {"compare", "write"} =>
              IndexInRange(h) /\ available[Head(index[h])].entity = Target(h)
        /\ \A h \in Handlers : phase[h] = "remove" =>
              IndexInRange(h) /\ (Len(index[h]) > 1 => WholeList(h))

\* A list that the application has not read is one that a handler will tell it of.
InformedInv ==
    view # available => \E h \in Handlers : phase[h] \in {"remove", "notify"}

\* The list has the scenarios that e supports now.
Right(e) ==
    \E i \in DOMAIN available :
        /\ available[i].entity = e
        /\ available[i].scenarios = (UNION announced[connection][e]) \cap Featured[e]

\* One event at a time: its handler works alone, on the object of this connection.
AloneInv ==
    ~overlapped =>
        /\ ~removalOverlapped
        /\ \A g, h \in Handlers : phase[g] # "idle" /\ phase[h] # "idle" => g = h
        /\ \A h \in Handlers : phase[h] # "idle" => device[h] = connection

\* No entity is listed twice.
EachOnce ==
    \A i, j \in DOMAIN available : available[i].entity = available[j].entity => i = j

\* The device is gone: its handler empties the list.
GoneInv ==
    /\ \A h \in Handlers : phase[h] \in {"idle", "device", "remove", "notify"}
    /\ \A h \in Handlers : phase[h] = "remove" => WholeList(h)
    /\ available # <<>> => \E h \in Handlers : phase[h] \in {"device", "remove"}
    /\ \A h \in Handlers : todo[h] = {}

\* The device is there: what the list has of it is of this connection, and an entity
\* that is gone is being removed.
ThereInv ==
    /\ \A h \in Handlers : phase[h] # "device"
    /\ \A h \in Handlers : phase[h] \in {"entity", "remove"} =>
          entity[h] \notin entities[connection]
    /\ \A h \in Handlers : phase[h] = "remove" =>
          Len(index[h]) = 1 /\ available[Head(index[h])].entity = entity[h]
    /\ \A i \in DOMAIN available :
          /\ available[i].device = connection
          /\ \/ available[i].entity \in entities[connection]
             \/ \E h \in Handlers : /\ phase[h] \in {"entity", "remove"}
                                    /\ entity[h] = available[i].entity
    /\ \A h \in Handlers : \A u \in todo[h] : u.entity \in entities[connection]
    /\ \A h \in Handlers : phase[h] = "append" => IndicesOf(Target(h)) = {}

\* An entity that announces scenarios is listed with them, or will be by a handler
\* that has still to look at it.
KnownInv ==
    AllKnown =>
        /\ \A h \in Handlers : \A u \in todo[h] :
              u.scenarios = (UNION announced[connection][u.entity]) \cap Featured[u.entity]
        /\ \A e \in Entities : announced[connection][e] # {} =>
              \/ Right(e)
              \/ \E h \in Handlers : \/ phase[h] = "start"
                                     \/ \E u \in todo[h] : u.entity = e
        /\ \A h \in Handlers : phase[h] = "notify" /\ todo[h] # {} => Right(Target(h))

\* The list between two events that do not overlap.
ListInv ==
    ~overlapped => /\ EachOnce
                   /\ ~connected => GoneInv
                   /\ connected => ThereInv /\ KnownInv

\* The types, with what they need to be inductive.
TypeInv == TypeOK /\ StandingInv

\* An event starts a handler and changes nothing else that handlers use.
LEMMA PublishTypes ==
    ASSUME TypeInv, NEW first \in {"start", "device", "entity"},
           NEW c \in Connections, NEW e \in Entities \cup {NoEntity},
           Publish(first, c, e)
    PROVE  /\ phase' \in [Handlers -> Phases]
           /\ device' \in [Handlers -> Connections]
           /\ entity' \in [Handlers -> Entities \cup {NoEntity}]
           /\ events' \in 0..MaxEvents
           /\ overlapped' \in BOOLEAN /\ removalOverlapped' \in BOOLEAN
           /\ UNCHANGED <<available, todo, index, crashed, view>>
           /\ \A h \in Handlers :
                 phase'[h] = phase[h] \/ (todo[h] = {} /\ phase'[h] = first)
<1> USE UseCaseAssumption
<1>1. events' \in 0..MaxEvents
  BY DEF TypeInv, TypeOK, Publish
<1>2. overlapped' \in BOOLEAN /\ removalOverlapped' \in BOOLEAN
  BY DEF TypeInv, TypeOK, Publish
<1>3. PICK h \in Handlers \ Active :
         /\ phase' = [phase EXCEPT ![h] = first]
         /\ device' = [device EXCEPT ![h] = c]
         /\ entity' = [entity EXCEPT ![h] = e]
  BY DEF Publish
<1>4. todo[h] = {}
  BY <1>3 DEF TypeInv, StandingInv, Active
<1>5. first \in Phases
  BY DEF Phases
<1>6. /\ phase' \in [Handlers -> Phases]
      /\ device' \in [Handlers -> Connections]
      /\ entity' \in [Handlers -> Entities \cup {NoEntity}]
  BY <1>3, <1>5 DEF TypeInv, TypeOK
<1>7. \A g \in Handlers :
         phase'[g] = phase[g] \/ (todo[g] = {} /\ phase'[g] = first)
  BY <1>3, <1>4 DEF TypeInv, TypeOK
<1>8. UNCHANGED <<available, todo, index, crashed, view>>
  BY DEF Publish
<1> QED
  BY <1>1, <1>2, <1>6, <1>7, <1>8

\* An event leaves a handler that was idle with nothing but its event.
LEMMA PublishTypeInv ==
    ASSUME TypeInv, NEW first \in {"start", "device", "entity"},
           NEW c \in Connections, NEW e \in Entities \cup {NoEntity},
           Publish(first, c, e),
           connection' \in 0..MaxConnections, connected' \in BOOLEAN,
           connected' => connection' > 0,
           entities' \in [Connections -> SUBSET Entities],
           announced' \in [Connections -> [Entities -> Announcements]]
    PROVE  TypeInv'
<1>1. TypeOK'
  BY PublishTypes DEF TypeInv, TypeOK
<1>2. StandingInv'
  BY PublishTypes DEF TypeInv, StandingInv
<1> QED
  BY <1>1, <1>2 DEF TypeInv

\* Whatever the device does, the types stay.
LEMMA RemoteTypes ==
    ASSUME TypeInv, RemoteDevice
    PROVE  TypeInv'
<1> USE UseCaseAssumption
<1>0. connected => connection \in Connections
  BY DEF TypeInv, TypeOK, StandingInv, Connections
<1>1. ASSUME NEW E \in SUBSET Entities, Connect(E) PROVE TypeInv'
  <2>1. connection + 1 \in Connections /\ connection' \in 0..MaxConnections
    BY <1>1 DEF Connect, TypeInv, TypeOK, Connections
  <2>2. entities' \in [Connections -> SUBSET Entities]
    BY <1>1, <2>1 DEF Connect, TypeInv, TypeOK
  <2>3. Publish("start", connection + 1, NoEntity)
    BY <1>1 DEF Connect
  <2> QED
    <3>1. /\ connected' \in BOOLEAN /\ connection' > 0
          /\ announced' \in [Connections -> [Entities -> Announcements]]
      BY <1>1 DEF Connect, TypeInv, TypeOK
    <3>2. NoEntity \in Entities \cup {NoEntity}
      OBVIOUS
    <3> QED
      BY <2>1, <2>2, <2>3, <3>1, <3>2, PublishTypeInv
<1>2. ASSUME NEW e \in Entities, NEW A \in Announcements, UseCaseData(e, A)
      PROVE  TypeInv'
  <2>1. announced' \in [Connections -> [Entities -> Announcements]]
    BY <1>0, <1>2 DEF UseCaseData, TypeInv, TypeOK
  <2>2. Publish("start", connection, NoEntity) /\ connection \in Connections
    BY <1>0, <1>2 DEF UseCaseData
  <2> QED
    BY <1>2, <2>1, <2>2, PublishTypeInv DEF UseCaseData, TypeInv, TypeOK, StandingInv
<1>3. ASSUME NEW e \in Entities, EntityAdded(e) PROVE TypeInv'
  <2>1. entities' \in [Connections -> SUBSET Entities]
    BY <1>0, <1>3 DEF EntityAdded, TypeInv, TypeOK
  <2>2. Publish("start", connection, NoEntity) /\ connection \in Connections
    BY <1>0, <1>3 DEF EntityAdded
  <2> QED
    BY <1>3, <2>1, <2>2, PublishTypeInv DEF EntityAdded, TypeInv, TypeOK, StandingInv
<1>4. ASSUME NEW e \in Entities, EntityRemoved(e) PROVE TypeInv'
  <2>1. entities' \in [Connections -> SUBSET Entities]
    BY <1>0, <1>4 DEF EntityRemoved, TypeInv, TypeOK
  <2>2. Publish("entity", connection, e) /\ connection \in Connections
    BY <1>0, <1>4 DEF EntityRemoved
  <2> QED
    BY <1>4, <2>1, <2>2, PublishTypeInv DEF EntityRemoved, TypeInv, TypeOK, StandingInv
<1>5. CASE DeviceRemoved
  <2>2. Publish("device", connection, NoEntity) /\ connection \in Connections
    BY <1>0, <1>5 DEF DeviceRemoved
  <2> QED
    BY <1>5, <2>2, PublishTypeInv DEF DeviceRemoved, TypeInv, TypeOK, StandingInv
<1> QED
  BY <1>1, <1>2, <1>3, <1>4, <1>5 DEF RemoteDevice

\* What a use case entry asks for are updates.
LEMMA UpdatesType ==
    ASSUME TypeOK, NEW c \in Connections
    PROVE  UseCaseUpdates(c) \in SUBSET Update
<1> SUFFICES ASSUME NEW e \in Entities, NEW u \in EntryUpdates(c, e) PROVE u \in Update
  BY DEF UseCaseUpdates
<1>1. PICK x \in EntitiesToCheck(c, e) :
         u = [entry |-> e, entity |-> x, scenarios |-> SupportedScenarios(c, e, x)]
  BY DEF EntryUpdates
<1>2. x \in Entities
  BY <1>1 DEF TypeOK, EntitiesToCheck
<1>3. SupportedScenarios(c, e, x) \in SUBSET Scenarios
  <2>1. announced[c][e] \in Announcements
    BY DEF TypeOK
  <2>2. (UNION announced[c][e]) \subseteq Scenarios
    BY <2>1 DEF Announcements
  <2> QED
    BY <2>2 DEF SupportedScenarios
<1> QED
  BY <1>1, <1>2, <1>3 DEF Update

\* A handler's step keeps the types.
LEMMA HandlerTypes ==
    ASSUME TypeInv, NEW h \in Handlers, HandleEvent(h)
    PROVE  TypeInv'
<1>0. TypeOK /\ StandingInv
  BY DEF TypeInv
<1> USE DEF deviceVars, historyVars
\* What the steps below show of the variables that a handler changes.
<1> DEFINE Kept ==
      /\ available' \in Seq(Entry) /\ view' \in Seq(Entry) /\ crashed' \in BOOLEAN
      /\ todo' \in [Handlers -> SUBSET Update]
      /\ \E p \in Phases, n \in Seq(Nat \ {0}) :
           /\ phase' = [phase EXCEPT ![h] = p]
           /\ index' = [index EXCEPT ![h] = n]
           /\ todo'[h] # {} => p \in {"lookup", "append", "compare", "write", "notify"}
           /\ p \in {"lookup", "append", "compare", "write"} => todo'[h] # {}
           /\ p \in {"compare", "write", "remove"} => n # <<>>
      /\ \A g \in Handlers \ {h} : todo'[g] = todo[g]
      /\ UNCHANGED <<deviceVars, device, entity, events, historyVars>>
<1>1. Kept => TypeInv'
  <2> SUFFICES ASSUME Kept PROVE TypeInv'
    OBVIOUS
  <2>1. TypeOK'
    BY <1>0 DEF TypeOK
  <2>2. StandingInv'
    BY <1>0 DEF TypeOK, StandingInv
  <2> QED
    BY <2>1, <2>2 DEF TypeInv
<1>2. /\ index[h] \in Seq(Nat \ {0}) /\ index = [index EXCEPT ![h] = index[h]]
      /\ phase[h] \in Phases /\ phase = [phase EXCEPT ![h] = phase[h]]
      /\ <<>> \in Seq(Nat \ {0})
  BY <1>0 DEF TypeOK
<1>3. ASSUME Advance(h), todo[h] # {}, UNCHANGED available, view' \in Seq(Entry),
             UNCHANGED <<crashed, deviceVars, device, entity, events, historyVars>>
      PROVE  Kept
  <2>1. todo' \in [Handlers -> SUBSET Update] /\ todo'[h] = todo[h] \ {NextUpdate(todo[h])}
    BY <1>0, <1>3 DEF Advance, TypeOK
  <2>2. CASE todo[h] = {NextUpdate(todo[h])}
    BY <1>0, <1>2, <1>3, <2>1, <2>2 DEF Advance, TypeOK, Phases
  <2>3. CASE todo[h] # {NextUpdate(todo[h])}
    <3>1. todo'[h] # {}
      BY <1>3, <2>1, <2>3
    <3> QED
      BY <1>0, <1>2, <1>3, <2>1, <2>3, <3>1 DEF Advance, TypeOK, Phases
  <2> QED
    BY <2>2, <2>3
<1>4. CASE UseCaseDataUpdate(h)
  <2>1. todo' \in [Handlers -> SUBSET Update] /\ todo'[h] = UseCaseUpdates(device[h])
    BY <1>0, <1>4, UpdatesType DEF UseCaseDataUpdate, TypeOK
  <2> QED
    BY <1>0, <1>1, <1>2, <1>4, <2>1 DEF UseCaseDataUpdate, TypeOK, Phases
<1>5. CASE Lookup(h)
  <2>1. todo[h] # {}
    BY <1>0, <1>5 DEF Lookup, StandingInv
  <2>2. CASE IndicesOf(Target(h)) = {}
    BY <1>0, <1>1, <1>2, <1>5, <2>1, <2>2 DEF Lookup, TypeOK, Phases
  <2>3. CASE IndicesOf(Target(h)) # {}
    <3>1. FirstIndexOf(Target(h)) \in 1..Len(available)
      BY <1>0, <2>3, FirstIndexIn
    <3>2. /\ <<FirstIndexOf(Target(h))>> \in Seq(Nat \ {0})
          /\ <<FirstIndexOf(Target(h))>> # <<>>
      BY <1>0, <3>1 DEF TypeOK
    <3> QED
      BY <1>0, <1>1, <1>2, <1>5, <2>1, <2>3, <3>2 DEF Lookup, TypeOK, Phases
  <2> QED
    BY <2>2, <2>3
<1>6. CASE AddItem(h)
  <2>1. [entity |-> Target(h), device |-> device[h], scenarios |-> ScenarioValues(h)]
           \in Entry
    BY <1>0, <1>6, NextUpdateType DEF AddItem, Entry, TypeOK, StandingInv
  <2>2. available' \in Seq(Entry)
    BY <1>0, <1>6, <2>1 DEF AddItem, TypeOK
  <2> QED
    BY <1>0, <1>1, <1>2, <1>6, <2>2 DEF AddItem, TypeOK, Phases
<1>7. CASE Compare(h)
  <2>1. todo[h] # {} /\ index[h] # <<>>
    BY <1>0, <1>7 DEF Compare, StandingInv
  <2>2. CASE Advance(h)
    BY <1>0, <1>1, <1>3, <1>7, <2>1, <2>2 DEF Compare, TypeOK
  <2>3. CASE ~Advance(h)
    BY <1>0, <1>1, <1>2, <1>7, <2>1, <2>3 DEF Compare, TypeOK, Phases
  <2> QED
    BY <2>2, <2>3
<1>8. CASE Write(h)
  <2>1. todo[h] # {} /\ index[h] # <<>>
    BY <1>0, <1>8 DEF Write, StandingInv
  <2>2. ScenarioValues(h) \in SUBSET Scenarios
    BY <1>0, <2>1, NextUpdateType
  <2>3. Head(index[h]) \in 1..Len(available)
    BY <1>0, <1>8 DEF Write, IndexInRange, TypeOK
  <2> DEFINE k == Head(index[h])
             x == [available[k] EXCEPT !.scenarios = ScenarioValues(h)]
  <2>4. x \in Entry
    <3>1. available[k] \in Entry
      BY <1>0, <2>3 DEF TypeOK
    <3> QED
      BY <2>2, <3>1 DEF Entry
  <2>5. available' = [available EXCEPT ![k] = x]
    BY <1>8 DEF Write
  <2>6. available' \in Seq(Entry)
    BY <1>0, <2>3, <2>4, <2>5, ExceptSeq DEF TypeOK
  <2> QED
    BY <1>0, <1>1, <1>2, <1>8, <2>1, <2>6 DEF Write, TypeOK, Phases
<1>9. CASE Notify(h)
  <2>1. CASE todo[h] # {}
    BY <1>0, <1>1, <1>3, <1>9, <2>1 DEF Notify, TypeOK
  <2>2. CASE todo[h] = {}
    BY <1>0, <1>1, <1>2, <1>9, <2>2 DEF Notify, TypeOK, Phases
  <2> QED
    BY <2>1, <2>2
<1>10. ASSUME NEW n \in Seq(Nat \ {0}), StartRemoval(h, n), todo[h] = {} PROVE TypeInv'
  BY <1>0, <1>1, <1>2, <1>10 DEF StartRemoval, TypeOK, Phases
<1>11. CASE RemoveDevice(h)
  <2>1. IndicesOfDevice \in Seq(Nat \ {0})
    <3>1. available \in Seq(Entry)
      BY <1>0 DEF TypeOK
    <3>2. Len(available) \in Nat /\ DOMAIN available = 1..Len(available)
      BY <3>1
    <3>3. \A i \in 1..Len(available) : Len(available) + 1 - i \in Nat \ {0}
      BY <3>2
    <3> QED
      BY <3>2, <3>3, IsASeq DEF IndicesOfDevice
  <2>2. todo[h] = {}
    BY <1>0, <1>11 DEF RemoveDevice, StandingInv
  <2> QED
    BY <1>10, <1>11, <2>1, <2>2 DEF RemoveDevice
<1>12. CASE RemoveEntity(h)
  <2>1. todo[h] = {}
    BY <1>0, <1>12 DEF RemoveEntity, StandingInv
  <2>2. CASE IndicesOf(entity[h]) = {}
    BY <1>2, <1>10, <1>12, <2>1, <2>2 DEF RemoveEntity
  <2>3. CASE IndicesOf(entity[h]) # {}
    <3>1. FirstIndexOf(entity[h]) \in 1..Len(available)
      BY <1>0, <2>3, FirstIndexIn
    <3>2. <<FirstIndexOf(entity[h])>> \in Seq(Nat \ {0})
      BY <1>0, <3>1 DEF TypeOK
    <3> QED
      BY <1>10, <1>12, <2>1, <2>3, <3>2 DEF RemoveEntity
  <2> QED
    BY <2>2, <2>3
<1>13. CASE RemoveIndex(h)
  <2>0. IndexInRange(h) /\ index[h] # <<>>
    BY <1>13 DEF RemoveIndex
  <2>1. Head(index[h]) \in 1..Len(available)
    BY <1>0, <2>0 DEF IndexInRange, TypeOK
  <2>2. available' \in Seq(Entry)
    <3>1. Shortened(available', available, Head(index[h])) /\ available \in Seq(Entry)
      BY <1>0, <1>13 DEF RemoveIndex, TypeOK, Shortened
    <3> QED
      BY ONLY <2>1, <3>1, Without
  <2>3. /\ Tail(index[h]) \in Seq(Nat \ {0})
        /\ Len(index[h]) > 1 => Tail(index[h]) # <<>>
    <3>1. Tail(index[h]) \in Seq(Nat \ {0}) /\ Len(Tail(index[h])) = Len(index[h]) - 1
      BY <1>2, <2>0, HeadTailProperties
    <3>2. ASSUME Len(index[h]) > 1 PROVE Tail(index[h]) # <<>>
      <4>1. Len(index[h]) \in Nat
        BY <1>2, LenProperties
      <4>0. \A n \in Nat : n > 1 => n - 1 # 0
        OBVIOUS
      <4>2. Len(Tail(index[h])) # 0
        BY <3>1, <3>2, <4>0, <4>1, Zenon
      <4> QED
        BY <4>2, EmptySeq
    <3> QED
      BY <3>1, <3>2
  <2>4. todo[h] = {}
    BY <1>0, <1>13 DEF RemoveIndex, StandingInv
  <2> QED
    BY <1>0, <1>1, <1>13, <2>2, <2>3, <2>4 DEF RemoveIndex, TypeOK, Phases
<1>14. CASE Panic(h)
  BY <1>0, <1>14 DEF Panic, handlerVars, TypeInv, TypeOK, StandingInv
<1> QED
  BY <1>4, <1>5, <1>6, <1>7, <1>8, <1>9, <1>11, <1>12, <1>13, <1>14 DEF HandleEvent

\* Every step keeps the types.
LEMMA TypeInvNext ==
    ASSUME TypeInv, [Next]_vars
    PROVE  TypeInv'
<1>1. CASE RemoteDevice
  BY <1>1, RemoteTypes
<1>2. ASSUME NEW h \in Handlers, HandleEvent(h) PROVE TypeInv'
  BY <1>2, HandlerTypes
<1>3. CASE Restart
  <2>1. TypeOK'
    <3>1. MaxConnections \in Nat \ {0} /\ MaxEvents \in Nat
      BY UseCaseAssumption
    <3>2. 1 \in Connections /\ connection' \in 0..MaxConnections /\ events' \in 0..MaxEvents
      BY <1>3, <3>1 DEF Restart, Connections
    <3>3. \A S : <<>> \in Seq(S)
      OBVIOUS
    <3>4. "idle" \in Phases
      BY DEF Phases
    <3>5. /\ entities' \in [Connections -> SUBSET Entities]
          /\ announced' \in [Connections -> [Entities -> Announcements]]
      BY <1>3 DEF Restart, Announcements
    <3>6. /\ phase' \in [Handlers -> Phases]
          /\ device' \in [Handlers -> Connections]
          /\ todo' \in [Handlers -> SUBSET Update]
          /\ entity' \in [Handlers -> Entities \cup {NoEntity}]
          /\ index' \in [Handlers -> Seq(Nat \ {0})]
      BY <1>3, <3>2, <3>3, <3>4 DEF Restart
    <3> QED
      BY <1>3, <3>2, <3>3, <3>5, <3>6 DEF Restart, TypeOK
  <2>2. StandingInv'
    BY <1>3 DEF Restart, StandingInv
  <2> QED
    BY <2>1, <2>2 DEF TypeInv
<1>4. CASE UNCHANGED vars
  BY <1>4 DEF vars, deviceVars, handlerVars, historyVars, TypeInv, TypeOK, StandingInv
<1> QED
  BY <1>1, <1>2, <1>3, <1>4 DEF Next

\* Every variable keeps its type, whatever handlers overlap.
THEOREM TypeInvHolds == Spec => []TypeInv
<1>1. Init => TypeInv
  <2> SUFFICES ASSUME Init PROVE TypeOK /\ StandingInv
    BY DEF TypeInv
  <2>1. TypeOK
    <3>1. MaxConnections \in Nat \ {0} /\ MaxEvents \in Nat
      BY UseCaseAssumption
    <3>2. 1 \in Connections /\ connection \in 0..MaxConnections /\ events \in 0..MaxEvents
      BY <3>1 DEF Init, Connections
    <3>3. \A S : <<>> \in Seq(S)
      OBVIOUS
    <3>4. "idle" \in Phases
      BY DEF Phases
    <3>5. /\ entities \in [Connections -> SUBSET Entities]
          /\ announced \in [Connections -> [Entities -> Announcements]]
      BY DEF Init, Announcements
    <3>6. /\ phase \in [Handlers -> Phases]
          /\ device \in [Handlers -> Connections]
          /\ todo \in [Handlers -> SUBSET Update]
          /\ entity \in [Handlers -> Entities \cup {NoEntity}]
          /\ index \in [Handlers -> Seq(Nat \ {0})]
      BY <3>2, <3>3, <3>4 DEF Init
    <3> QED
      BY <3>2, <3>3, <3>5, <3>6 DEF Init, TypeOK
  <2>2. StandingInv
    BY DEF Init, StandingInv
  <2> QED
    BY <2>1, <2>2
<1> QED
  BY <1>1, TypeInvNext, PTL DEF Spec

\* The type invariant, as the runs check it.
THEOREM TypeCorrect == Spec => []TypeOK
BY TypeInvHolds, PTL DEF TypeInv

-----------------------------------------------------------------------------
(* Indices and what the application is told.                               *)

\* Whatever the device does, an event is published about one of its objects.
LEMMA RemotePublishes ==
    ASSUME TypeInv, RemoteDevice
    PROVE  \E first \in {"start", "device", "entity"}, c \in Connections,
              e \in Entities \cup {NoEntity} : Publish(first, c, e)
<1> USE UseCaseAssumption
<1>1. connected => connection \in Connections
  BY DEF TypeInv, TypeOK, StandingInv, Connections
<1>2. ASSUME NEW E \in SUBSET Entities, Connect(E)
      PROVE  connection + 1 \in Connections /\ Publish("start", connection + 1, NoEntity)
  BY <1>2 DEF Connect, TypeInv, TypeOK, Connections
<1> QED
  BY <1>1, <1>2 DEF RemoteDevice, UseCaseData, EntityAdded, EntityRemoved, DeviceRemoved

\* What an event changes of the handlers.
LEMMA PublishHandlers ==
    ASSUME TypeInv, NEW first \in {"start", "device", "entity"},
           NEW c \in Connections, NEW e \in Entities \cup {NoEntity},
           Publish(first, c, e)
    PROVE  /\ ~crashed
           /\ UNCHANGED <<available, todo, index, crashed, view>>
           /\ ~removalOverlapped' => ~removalOverlapped
           /\ ~overlapped' => ~overlapped /\ Active = {}
           /\ ~removalOverlapped' =>
                 \/ Active = {}
                 \/ first = "start" /\ \A h \in Handlers : ~Removing(h)
           /\ \E h \in Handlers :
                 /\ phase[h] = "idle" /\ todo[h] = {}
                 /\ phase' = [phase EXCEPT ![h] = first]
                 /\ device' = [device EXCEPT ![h] = c]
                 /\ entity' = [entity EXCEPT ![h] = e]
<1>1. \E h \in Handlers :
         /\ phase[h] = "idle" /\ todo[h] = {}
         /\ phase' = [phase EXCEPT ![h] = first]
         /\ device' = [device EXCEPT ![h] = c]
         /\ entity' = [entity EXCEPT ![h] = e]
  BY DEF Publish, Active, TypeInv, StandingInv
<1>2. ~overlapped' => ~overlapped /\ Active = {}
  BY DEF Publish
<1>3. ~removalOverlapped' =>
         /\ ~removalOverlapped
         /\ \/ Active = {}
            \/ first = "start" /\ \A h \in Active : ~Removing(h)
  BY DEF Publish
<1>4. \A h \in Handlers : Removing(h) => h \in Active
  BY DEF Removing, Active
<1> QED
  BY <1>1, <1>2, <1>3, <1>4 DEF Publish

\* A handler's step leaves the device and the other handlers alone, and only a
\* handler of a removal goes on removing.
LEMMA HandlerFrame ==
    ASSUME TypeInv, NEW h \in Handlers, HandleEvent(h)
    PROVE  /\ phase[h] # "idle"
           /\ Removing(h)' => Removing(h)
           /\ \A g \in Handlers \ {h} : /\ phase'[g] = phase[g]
                                        /\ todo'[g] = todo[g]
                                        /\ index'[g] = index[g]
           /\ UNCHANGED <<deviceVars, device, entity, events, historyVars>>
<1> USE DEF TypeInv, TypeOK, Removing
<1>1. CASE UseCaseDataUpdate(h)
  BY <1>1 DEF UseCaseDataUpdate
<1>2. CASE Lookup(h)
  BY <1>2 DEF Lookup
<1>3. CASE AddItem(h)
  BY <1>3 DEF AddItem
<1>4. CASE Compare(h)
  BY <1>4 DEF Compare, Advance
<1>5. CASE Write(h)
  BY <1>5 DEF Write
<1>6. CASE Notify(h)
  BY <1>6 DEF Notify, Advance
<1>7. CASE RemoveDevice(h)
  BY <1>7 DEF RemoveDevice, StartRemoval
<1>8. CASE RemoveEntity(h)
  BY <1>8 DEF RemoveEntity, StartRemoval
<1>9. CASE RemoveIndex(h)
  BY <1>9 DEF RemoveIndex
<1>10. CASE Panic(h)
  BY <1>10 DEF Panic, handlerVars
<1> QED
  BY <1>1, <1>2, <1>3, <1>4, <1>5, <1>6, <1>7, <1>8, <1>9, <1>10 DEF HandleEvent

\* A removal stays alone unless an event arrives during it.
LEMMA RemovingNext ==
    ASSUME TypeInv, RemovingInv, [Next]_vars
    PROVE  RemovingInv'
<1>1. CASE RemoteDevice
  <2>1. PICK first \in {"start", "device", "entity"}, c \in Connections,
             e \in Entities \cup {NoEntity} : Publish(first, c, e)
    BY <1>1, RemotePublishes
  <2>2. PICK h \in Handlers : phase[h] = "idle" /\ phase' = [phase EXCEPT ![h] = first]
    BY <2>1, PublishHandlers
  <2>3. CASE Active = {}
    <3>1. \A g \in Handlers \ {h} : phase'[g] = "idle"
      BY <2>2, <2>3 DEF Active, TypeInv, TypeOK
    <3> QED
      BY <3>1 DEF RemovingInv, Removing
  <2>4. CASE Active # {} /\ ~removalOverlapped'
    <3>1. first = "start" /\ \A g \in Handlers : ~Removing(g)
      BY <2>1, <2>4, PublishHandlers
    <3>2. \A g \in Handlers : ~Removing(g)'
      BY <2>2, <3>1 DEF Removing, TypeInv, TypeOK
    <3> QED
      BY <3>2 DEF RemovingInv
  <2> QED
    BY <2>3, <2>4 DEF RemovingInv
<1>2. ASSUME NEW h \in Handlers, HandleEvent(h) PROVE RemovingInv'
  BY <1>2, HandlerFrame DEF RemovingInv, Removing, historyVars
<1>3. CASE Restart
  BY <1>3 DEF Restart, RemovingInv, Removing
<1>4. CASE UNCHANGED vars
  BY <1>4 DEF vars, handlerVars, historyVars, RemovingInv, Removing
<1> QED
  BY <1>1, <1>2, <1>3, <1>4 DEF Next

\* The steps of h keep the entries where they are, but for a removal.
LEMMA IndexKept ==
    ASSUME TypeInv, IndexInv, ~removalOverlapped, UNCHANGED removalOverlapped,
           ~crashed', NEW h \in Handlers,
           \A g \in Handlers \ {h} : /\ phase'[g] = phase[g]
                                     /\ todo'[g] = todo[g]
                                     /\ index'[g] = index[g],
           \A i \in 1..Len(available) :
               i \in DOMAIN available' /\ available'[i].entity = available[i].entity,
           Len(available') = Len(available) \/ \A g \in Handlers : phase[g] # "remove",
           phase'[h] \in {"compare", "write"} =>
               /\ Head(index'[h]) \in 1..Len(available)
               /\ available[Head(index'[h])].entity = Target(h)',
           phase'[h] = "remove" =>
               /\ Head(index'[h]) \in 1..Len(available)
               /\ Len(index'[h]) > 1 => WholeList(h)'
    PROVE  IndexInv'
<1>1. DOMAIN available = 1..Len(available)
  BY DEF TypeInv, TypeOK
<1>2. ASSUME NEW g \in Handlers, phase'[g] \in {"compare", "write"}
      PROVE  IndexInRange(g)' /\ available'[Head(index'[g])].entity = Target(g)'
  <2>1. CASE g = h
    BY <1>2, <2>1 DEF IndexInRange
  <2>2. CASE g # h
    <3>1. IndexInRange(g) /\ available[Head(index[g])].entity = Target(g)
      BY <1>2, <2>2 DEF IndexInv
    <3> QED
      BY <1>1, <1>2, <2>2, <3>1 DEF IndexInRange, Target
  <2> QED
    BY <2>1, <2>2
<1>3. ASSUME NEW g \in Handlers, phase'[g] = "remove"
      PROVE  IndexInRange(g)' /\ (Len(index'[g]) > 1 => WholeList(g)')
  <2>1. CASE g = h
    BY <1>3, <2>1 DEF IndexInRange
  <2>2. CASE g # h
    <3>1. IndexInRange(g) /\ (Len(index[g]) > 1 => WholeList(g)) /\ phase[g] = "remove"
      BY <1>3, <2>2 DEF IndexInv
    <3> QED
      BY <1>1, <1>3, <2>2, <3>1 DEF IndexInRange, WholeList
  <2> QED
    BY <2>1, <2>2
<1> QED
  BY <1>2, <1>3 DEF IndexInv

\* Without its last entry the list has the indices that are left.
LEMMA WholeTail ==
    ASSUME NEW h \in Handlers, WholeList(h), index[h] \in Seq(Nat \ {0}),
           index[h] # <<>>, available \in Seq(Entry), available' \in Seq(Entry),
           Len(available') = Len(available) - 1, index'[h] = Tail(index[h])
    PROVE  WholeList(h)'
<1>1. /\ Len(index'[h]) = Len(index[h]) - 1 /\ index'[h] \in Seq(Nat \ {0})
      /\ \A i \in 1..(Len(index[h]) - 1) : index'[h][i] = index[h][i + 1]
  BY HeadTailProperties
<1>2. /\ Len(index[h]) = Len(available) /\ Len(available) \in Nat
      /\ \A i \in 1..Len(index[h]) : index[h][i] = Len(available) + 1 - i
      /\ Len(available') = Len(available) - 1
  <2>1. /\ DOMAIN index[h] = 1..Len(index[h]) /\ Len(available) \in Nat
    OBVIOUS
  <2> QED
    BY <2>1 DEF WholeList
<1>3. \A i \in 1..Len(index'[h]) : index'[h][i] = Len(available') + 1 - i
  <2>1. TAKE i \in 1..Len(index'[h])
  <2>2. i \in 1..(Len(available) - 1) /\ i + 1 \in 1..Len(available) /\ i \in Nat
    BY ONLY <1>1, <1>2, <2>1
  <2>3. index'[h][i] = index[h][i + 1] /\ index[h][i + 1] = Len(available) + 1 - (i + 1)
    BY ONLY <1>1, <1>2, <2>2
  <2>4. i \in Nat /\ Len(available) \in Nat /\ Len(available') = Len(available) - 1
    BY ONLY <1>2, <2>2
  <2> QED
    BY ONLY <2>3, <2>4
<1>4. DOMAIN index'[h] = 1..Len(index'[h])
  BY ONLY <1>1
<1>5. Len(index'[h]) = Len(available')
  BY ONLY <1>1, <1>2
<1> QED
  BY ONLY <1>3, <1>4, <1>5 DEF WholeList

\* Each step of a handler keeps the indices that all handlers hold.
LEMMA IndexHandler ==
    ASSUME TypeInv, RemovingInv, IndexInv, NEW h \in Handlers, HandleEvent(h),
           ~removalOverlapped
    PROVE  IndexInv'
<1>0. /\ TypeOK /\ StandingInv /\ ~crashed
      /\ available \in Seq(Entry) /\ DOMAIN available = 1..Len(available)
      /\ Len(available) \in Nat
  BY DEF TypeInv, TypeOK, IndexInv
<1>1. /\ \A g \in Handlers \ {h} : /\ phase'[g] = phase[g]
                                   /\ todo'[g] = todo[g]
                                   /\ index'[g] = index[g]
      /\ UNCHANGED removalOverlapped
  BY HandlerFrame DEF historyVars
<1>2. Removing(h) => \A g \in Handlers \ {h} : phase[g] = "idle"
  BY DEF RemovingInv
<1>3. phase \in [Handlers -> Phases] /\ todo \in [Handlers -> SUBSET Update]
      /\ index \in [Handlers -> Seq(Nat \ {0})]
  BY <1>0 DEF TypeOK
\* Steps that leave the entries and end in a phase without an index.
<1>4. ASSUME UNCHANGED <<available, crashed>>,
             phase'[h] \notin {"compare", "write", "remove"}
      PROVE  IndexInv'
  BY <1>0, <1>1, <1>4, IndexKept
<1>5. CASE UseCaseDataUpdate(h)
  BY <1>3, <1>4, <1>5 DEF UseCaseDataUpdate
<1>6. CASE Lookup(h)
  <2>1. CASE IndicesOf(Target(h)) = {}
    BY <1>3, <1>4, <1>6, <2>1 DEF Lookup
  <2>2. CASE IndicesOf(Target(h)) # {}
    <3>1. /\ FirstIndexOf(Target(h)) \in 1..Len(available)
          /\ available[FirstIndexOf(Target(h))].entity = Target(h)
      BY <1>0, <2>2, FirstIndexIn
    <3>2. /\ phase'[h] = "compare" /\ Head(index'[h]) = FirstIndexOf(Target(h))
          /\ Target(h)' = Target(h) /\ UNCHANGED <<available, crashed>>
      BY <1>3, <1>6, <2>2 DEF Lookup, Target
    <3> QED
      BY <1>0, <1>1, <3>1, <3>2, IndexKept
  <2> QED
    BY <2>1, <2>2
<1>7. CASE AddItem(h)
  <2>1. \A i \in 1..Len(available) :
           i \in DOMAIN available' /\ available'[i] = available[i]
    BY <1>0, <1>7 DEF AddItem
  <2>2. phase'[h] = "notify" /\ ~crashed' /\ phase[h] = "append"
    BY <1>0, <1>3, <1>7 DEF AddItem
  <2>3. \A g \in Handlers : phase[g] # "remove"
    BY <2>2 DEF RemovingInv, Removing
  <2> QED
    BY <1>1, <2>1, <2>2, <2>3, IndexKept
<1>8. CASE Compare(h)
  <2>1. CASE Advance(h)
    BY <1>3, <1>4, <1>8, <2>1 DEF Compare, Advance
  <2>2. CASE ~Advance(h)
    <3>1. /\ phase[h] = "compare" /\ phase'[h] = "write"
          /\ index'[h] = index[h] /\ Target(h)' = Target(h)
          /\ UNCHANGED <<available, crashed>>
      BY <1>3, <1>8, <2>2 DEF Compare, Target
    <3>2. Head(index[h]) \in 1..Len(available)
          /\ available[Head(index[h])].entity = Target(h)
      BY <1>0, <3>1 DEF IndexInv, IndexInRange
    <3> QED
      BY <1>0, <1>1, <3>1, <3>2, IndexKept
  <2> QED
    BY <2>1, <2>2
<1>9. CASE Write(h)
  <2>1. phase'[h] = "notify" /\ ~crashed' /\ Head(index[h]) \in 1..Len(available)
    BY <1>0, <1>3, <1>9 DEF Write, IndexInRange
  <2>2. available' = [available EXCEPT ![Head(index[h])].scenarios = ScenarioValues(h)]
    BY <1>9 DEF Write
  <2>3. \A i \in 1..Len(available) : available[i] \in Entry
    BY <1>0
  <2>4. /\ Len(available') = Len(available) /\ DOMAIN available' = DOMAIN available
        /\ \A i \in 1..Len(available) : available'[i].entity = available[i].entity
    BY <1>0, <2>1, <2>2, <2>3 DEF Entry
  <2> QED
    BY <1>0, <1>1, <2>1, <2>4, IndexKept
<1>10. CASE Notify(h)
  BY <1>3, <1>4, <1>10 DEF Notify, Advance
<1>11. CASE RemoveDevice(h)
  <2>1. CASE IndicesOfDevice = <<>>
    BY <1>3, <1>4, <1>11, <2>1 DEF RemoveDevice, StartRemoval
  <2>2. CASE IndicesOfDevice # <<>>
    <3>1. phase'[h] = "remove" /\ index'[h] = IndicesOfDevice
          /\ UNCHANGED <<available, crashed>>
      BY <1>3, <1>11, <2>2 DEF RemoveDevice, StartRemoval
    <3>2. /\ Len(IndicesOfDevice) = Len(available)
          /\ \A i \in 1..Len(available) : IndicesOfDevice[i] = Len(available) + 1 - i
      BY <1>0, IsASeq DEF IndicesOfDevice
    <3>3. WholeList(h)'
      BY <1>0, <3>1, <3>2 DEF WholeList, IndicesOfDevice
    <3>4. Len(available) > 0
      BY <1>0, <2>2, EmptySeq DEF IndicesOfDevice
    <3>5. Head(index'[h]) = Len(available)
      BY <1>0, <3>1, <3>2, <3>4
    <3> QED
      BY <1>0, <1>1, <3>1, <3>3, <3>4, <3>5, IndexKept
  <2> QED
    BY <2>1, <2>2
<1>12. CASE RemoveEntity(h)
  <2>1. CASE IndicesOf(entity[h]) = {}
    BY <1>3, <1>4, <1>12, <2>1 DEF RemoveEntity, StartRemoval
  <2>2. CASE IndicesOf(entity[h]) # {}
    <3>1. FirstIndexOf(entity[h]) \in 1..Len(available)
      BY <1>0, <2>2, FirstIndexIn
    <3>2. /\ phase'[h] = "remove" /\ index'[h] = <<FirstIndexOf(entity[h])>>
          /\ UNCHANGED <<available, crashed>>
      BY <1>3, <1>12, <2>2 DEF RemoveEntity, StartRemoval
    <3>3. Head(index'[h]) = FirstIndexOf(entity[h]) /\ ~(Len(index'[h]) > 1)
      BY <3>2
    <3> QED
      BY <1>0, <1>1, <3>1, <3>2, <3>3, IndexKept
  <2> QED
    BY <2>1, <2>2
<1>13. CASE RemoveIndex(h)
  <2>1. phase[h] = "remove" /\ index[h] # <<>> /\ Head(index[h]) \in 1..Len(available)
    BY <1>0, <1>13 DEF RemoveIndex, IndexInRange
  <2>2. \A g \in Handlers \ {h} : phase'[g] = "idle"
    BY <1>1, <1>2, <2>1 DEF Removing
  <2>3. CASE phase'[h] = "notify"
    BY <1>0, <1>13, <2>2, <2>3 DEF RemoveIndex, IndexInv
  <2>4. CASE phase'[h] # "notify"
    <3>1. Len(index[h]) > 1 /\ phase'[h] = "remove" /\ index'[h] = Tail(index[h])
      BY <1>3, <1>13, <2>4 DEF RemoveIndex
    <3>2. WholeList(h)
      BY <2>1, <3>1 DEF IndexInv
    <3>3. Len(available') = Len(available) - 1 /\ available' \in Seq(Entry)
      <4>1. Shortened(available', available, Head(index[h])) /\ available \in Seq(Entry)
        BY <1>0, <1>13 DEF RemoveIndex, TypeInv, TypeOK, Shortened
      <4> QED
        BY ONLY <2>1, <4>1, Without
    <3>4. index[h] \in Seq(Nat \ {0}) /\ index'[h] \in Seq(Nat \ {0})
          /\ Len(index'[h]) = Len(index[h]) - 1
      BY <1>3, <2>1, <3>1, HeadTailProperties
    <3>7. WholeList(h)'
      BY <1>0, <2>1, <3>1, <3>2, <3>3, <3>4, WholeTail
    <3>5. \A i \in 1..Len(index'[h]) : index'[h][i] = Len(available') + 1 - i
      BY <3>4, <3>7 DEF WholeList
    <3>6. Len(index'[h]) = Len(available') /\ Len(available') > 0
      BY <1>0, <3>1, <3>2, <3>3, <3>4 DEF WholeList
    <3>8. Head(index'[h]) = Len(available')
      <4>1. Len(available') \in Nat /\ Head(index'[h]) = index'[h][1]
        BY <3>3, <3>4
      <4>2. 1 \in 1..Len(index'[h])
        BY ONLY <3>6, <4>1
      <4>3. index'[h][1] = Len(available') + 1 - 1
        BY <3>5, <4>2
      <4> QED
        BY ONLY <4>1, <4>3
    <3>9. IndexInRange(h)'
      BY <3>3, <3>6, <3>8 DEF IndexInRange
    <3>11. ~crashed'
      BY <1>0, <1>13 DEF RemoveIndex
    <3> QED
      BY <2>2, <3>1, <3>7, <3>9, <3>11 DEF IndexInv
  <2> QED
    BY <2>3, <2>4
<1>14. CASE Panic(h)
  BY <1>0, <1>14 DEF Panic, IndexInv
<1> QED
  BY <1>5, <1>6, <1>7, <1>8, <1>9, <1>10, <1>11, <1>12, <1>13, <1>14 DEF HandleEvent

\* Every step keeps the indices right.
LEMMA IndexNext ==
    ASSUME TypeInv, RemovingInv, IndexInv, [Next]_vars
    PROVE  IndexInv'
<1>1. CASE RemoteDevice
  <2>1. PICK first \in {"start", "device", "entity"}, c \in Connections,
             e \in Entities \cup {NoEntity} : Publish(first, c, e)
    BY <1>1, RemotePublishes
  <2>2. /\ \A g \in Handlers : phase'[g] \in {"compare", "write", "remove"}
                                   => phase'[g] = phase[g]
        /\ UNCHANGED <<available, todo, index, crashed>>
        /\ ~removalOverlapped' => ~removalOverlapped
    BY <2>1, PublishHandlers, PublishTypes
  <2> QED
    BY <2>2 DEF IndexInv, IndexInRange, Target, WholeList
<1>2. ASSUME NEW h \in Handlers, HandleEvent(h) PROVE IndexInv'
  <2>1. UNCHANGED removalOverlapped
    BY <1>2, HandlerFrame DEF historyVars
  <2> QED
    BY <1>2, <2>1, IndexHandler DEF IndexInv
<1>3. CASE Restart
  BY <1>3 DEF Restart, IndexInv
<1>4. CASE UNCHANGED vars
  BY <1>4 DEF vars, handlerVars, historyVars, IndexInv, IndexInRange, Target, WholeList
<1> QED
  BY <1>1, <1>2, <1>3, <1>4 DEF Next

\* No index is used for another entity than it was found for, and none is out of
\* range, however many updates overlap, as long as no removal does.
THEOREM IndexValidHolds == Spec => []IndexValid
<1>1. Init => RemovingInv /\ IndexInv
  BY DEF Init, RemovingInv, IndexInv, Removing
<1>2. TypeInv /\ RemovingInv /\ IndexInv /\ [Next]_vars => RemovingInv' /\ IndexInv'
  BY RemovingNext, IndexNext
<1>3. IndexInv => IndexValid
  BY DEF IndexInv, IndexValid
<1> QED
  BY <1>1, <1>2, <1>3, TypeInvHolds, PTL DEF Spec

\* Whoever changes the list goes on to tell the application.
LEMMA InformedNext ==
    ASSUME TypeInv, InformedInv, [Next]_vars
    PROVE  InformedInv'
<1>1. CASE RemoteDevice
  <2>1. PICK first \in {"start", "device", "entity"}, c \in Connections,
             e \in Entities \cup {NoEntity} : Publish(first, c, e)
    BY <1>1, RemotePublishes
  <2>2. /\ UNCHANGED <<available, view>>
        /\ \A h \in Handlers : phase[h] \in {"remove", "notify"} => phase'[h] = phase[h]
    <3>1. PICK g \in Handlers : phase[g] = "idle" /\ phase' = [phase EXCEPT ![g] = first]
      BY <2>1, PublishHandlers
    <3> QED
      BY <2>1, <3>1, PublishHandlers DEF TypeInv, TypeOK
  <2> QED
    BY <2>2 DEF InformedInv
<1>2. ASSUME NEW h \in Handlers, HandleEvent(h) PROVE InformedInv'
  <2>1. phase \in [Handlers -> Phases]
    BY DEF TypeInv, TypeOK
  <2>2. \A g \in Handlers \ {h} : phase'[g] = phase[g]
    BY <1>2, HandlerFrame
  <2>3. \/ phase'[h] \in {"remove", "notify"}
        \/ view' = available'
        \/ phase[h] \notin {"remove", "notify"} /\ UNCHANGED <<available, view>>
    BY <1>2, <2>1
       DEF HandleEvent, UseCaseDataUpdate, Lookup, AddItem, Compare, Advance, Write,
           Notify, RemoveDevice, RemoveEntity, StartRemoval, RemoveIndex, Panic,
           handlerVars
  <2> QED
    BY <2>2, <2>3 DEF InformedInv
<1>3. CASE Restart
  BY <1>3 DEF Restart, InformedInv
<1>4. CASE UNCHANGED vars
  BY <1>4 DEF vars, handlerVars, InformedInv
<1> QED
  BY <1>1, <1>2, <1>3, <1>4 DEF Next

\* The application has read the list as it is once all handlers are done.
THEOREM ApplicationInformedHolds == Spec => []ApplicationInformed
<1>1. Init => InformedInv
  BY DEF Init, InformedInv
<1>2. TypeInv /\ InformedInv /\ [Next]_vars => InformedInv'
  BY InformedNext
<1>3. InformedInv => ApplicationInformed
  BY DEF InformedInv, ApplicationInformed, Quiet, Active
<1> QED
  BY <1>1, <1>2, <1>3, TypeInvHolds, PTL DEF Spec

-----------------------------------------------------------------------------
(* One event at a time.                                                    *)

\* A handler stays alone until an event overlaps it.
LEMMA AloneNext ==
    ASSUME TypeInv, AloneInv, [Next]_vars
    PROVE  AloneInv'
<1>0. phase \in [Handlers -> Phases] /\ device \in [Handlers -> Connections]
  BY DEF TypeInv, TypeOK
<1>1. CASE RemoteDevice
  <2>1. PICK first \in {"start", "device", "entity"}, c \in Connections,
             e \in Entities \cup {NoEntity} : Publish(first, c, e) /\ c = connection'
    <3>1. connected => connection \in Connections
      BY UseCaseAssumption DEF TypeInv, TypeOK, StandingInv, Connections
    <3>2. ASSUME NEW E \in SUBSET Entities, Connect(E)
          PROVE  connection + 1 \in Connections /\ connection' = connection + 1
      BY <3>2, UseCaseAssumption DEF TypeInv, TypeOK, Connect, Connections
    <3> QED
      BY <1>1, <3>1, <3>2
         DEF RemoteDevice, Connect, UseCaseData, EntityAdded, EntityRemoved, DeviceRemoved
  <2>2. PICK h \in Handlers : /\ phase' = [phase EXCEPT ![h] = first]
                              /\ device' = [device EXCEPT ![h] = c]
    BY <2>1, PublishHandlers
  <2>3. SUFFICES ASSUME ~overlapped' PROVE AloneInv'
    BY DEF AloneInv
  <2>4. ~overlapped /\ Active = {}
    BY <2>1, <2>3, PublishHandlers
  <2>5. \A g \in Handlers \ {h} : phase'[g] = "idle"
    BY <1>0, <2>2, <2>4 DEF Active
  <2>6. ~removalOverlapped'
    BY <2>1, <2>4 DEF Publish, AloneInv
  <2>7. device'[h] = connection'
    BY <1>0, <2>1, <2>2
  <2> QED
    BY <2>5, <2>6, <2>7 DEF AloneInv
<1>2. ASSUME NEW h \in Handlers, HandleEvent(h) PROVE AloneInv'
  BY <1>2, HandlerFrame DEF AloneInv, deviceVars, historyVars
<1>3. CASE Restart
  BY <1>3 DEF Restart, AloneInv
<1>4. CASE UNCHANGED vars
  BY <1>4 DEF vars, deviceVars, handlerVars, historyVars, AloneInv
<1> QED
  BY <1>1, <1>2, <1>3, <1>4 DEF Next

\* The event that no other handler overlaps leaves the list to its handler.
LEMMA ListRemote ==
    ASSUME TypeInv, ListInv, RemoteDevice, ~overlapped'
    PROVE  ListInv'
<1>0. /\ available \in Seq(Entry) /\ phase \in [Handlers -> Phases]
      /\ device \in [Handlers -> Connections] /\ todo \in [Handlers -> SUBSET Update]
      /\ entity \in [Handlers -> Entities \cup {NoEntity}]
      /\ entities \in [Connections -> SUBSET Entities]
      /\ announced \in [Connections -> [Entities -> Announcements]]
      /\ connected => connection \in Connections
  BY UseCaseAssumption DEF TypeInv, TypeOK, StandingInv, Connections
<1>1. /\ ~overlapped /\ UNCHANGED <<available, todo, index>>
      /\ \A g \in Handlers : phase[g] = "idle" /\ todo[g] = {}
  <2>1. PICK first \in {"start", "device", "entity"}, c \in Connections,
             e \in Entities \cup {NoEntity} : Publish(first, c, e)
    BY RemotePublishes
  <2>2. ~overlapped /\ Active = {} /\ UNCHANGED <<available, todo, index>>
    BY <2>1, PublishHandlers
  <2> QED
    BY <2>2 DEF Active, TypeInv, StandingInv
<1>2. EachOnce'
  BY <1>1 DEF ListInv, EachOnce
\* Every event but the end of the connection goes to one handler h, that of the
\* list as the device is now.
<1> DEFINE StartedAt(h, first) ==
      /\ phase' = [phase EXCEPT ![h] = first] /\ connected'
      /\ \A i \in DOMAIN available :
            /\ available[i].device = connection'
            /\ \/ available[i].entity \in entities'[connection']
               \/ first = "entity" /\ entity'[h] = available[i].entity
      /\ first = "start" \/ (first = "entity" /\ entity'[h] \notin entities'[connection'])
<1>3. ASSUME NEW h \in Handlers, NEW first, StartedAt(h, first)
      PROVE  ThereInv'
  <2>1. phase'[h] = first /\ \A g \in Handlers \ {h} : phase'[g] = "idle"
    BY <1>0, <1>1, <1>3
  <2>2. /\ \A g \in Handlers : phase'[g] \notin {"device", "remove", "append"}
        /\ \A g \in Handlers : phase'[g] = "entity" => g = h /\ first = "entity"
    BY <1>3, <2>1
  <2>3. \A g \in Handlers : todo'[g] = {}
    BY <1>1
  <2>4. \A i \in DOMAIN available' :
          /\ available'[i].device = connection'
          /\ \/ available'[i].entity \in entities'[connection']
             \/ \E g \in Handlers : /\ phase'[g] \in {"entity", "remove"}
                                    /\ entity'[g] = available'[i].entity
    BY <1>1, <1>3, <2>1
  <2>5. \A g \in Handlers : phase'[g] \in {"entity", "remove"} =>
          entity'[g] \notin entities'[connection']
    BY <1>3, <2>2
  <2> QED
    BY <2>2, <2>3, <2>4, <2>5 DEF ThereInv
<1>4. ASSUME NEW h \in Handlers, StartedAt(h, "start")
      PROVE  KnownInv'
  <2>1. phase'[h] = "start" /\ \A g \in Handlers : todo'[g] = {}
    BY <1>0, <1>1, <1>4
  <2> QED
    BY <2>1 DEF KnownInv
<1>5. ASSUME NEW E \in SUBSET Entities, Connect(E) PROVE ListInv'
  <2>1. available = <<>>
    BY <1>1, <1>5 DEF Connect, ListInv, GoneInv
  <2>2. DOMAIN available = {}
    BY <2>1
  <2>3. PICK h \in Handlers : phase' = [phase EXCEPT ![h] = "start"]
    BY <1>5 DEF Connect, Publish
  <2>4. StartedAt(h, "start")
    BY <1>5, <2>2, <2>3 DEF Connect
  <2> QED
    BY <1>2, <1>3, <1>4, <1>5, <2>4 DEF ListInv, Connect
<1>6. ASSUME connected
      PROVE  /\ ThereInv /\ KnownInv
             /\ \A i \in DOMAIN available : /\ available[i].device = connection
                                            /\ available[i].entity \in entities[connection]
  BY <1>1, <1>6 DEF ListInv, ThereInv
<1>7. ASSUME NEW e \in Entities, NEW A \in Announcements, UseCaseData(e, A)
      PROVE  ListInv'
  <2>1. PICK h \in Handlers : phase' = [phase EXCEPT ![h] = "start"]
    BY <1>7 DEF UseCaseData, Publish
  <2>2. StartedAt(h, "start")
    BY <1>6, <1>7, <2>1 DEF UseCaseData
  <2> QED
    BY <1>2, <1>3, <1>4, <1>7, <2>2 DEF ListInv, UseCaseData
<1>8. ASSUME NEW e \in Entities, EntityAdded(e) PROVE ListInv'
  <2>1. PICK h \in Handlers : phase' = [phase EXCEPT ![h] = "start"]
    BY <1>8 DEF EntityAdded, Publish
  <2>2. entities'[connection'] = entities[connection] \cup {e}
    BY <1>0, <1>8 DEF EntityAdded
  <2>3. StartedAt(h, "start")
    BY <1>6, <1>8, <2>1, <2>2 DEF EntityAdded
  <2> QED
    BY <1>2, <1>3, <1>4, <1>8, <2>3 DEF ListInv, EntityAdded
<1>9. ASSUME NEW e \in Entities, EntityRemoved(e) PROVE ListInv'
  <2>1. PICK h \in Handlers : phase' = [phase EXCEPT ![h] = "entity"]
                              /\ entity' = [entity EXCEPT ![h] = e]
    BY <1>9 DEF EntityRemoved, Publish
  <2>2. entities'[connection'] = entities[connection] \ {e} /\ entity'[h] = e
    BY <1>0, <1>9, <2>1 DEF EntityRemoved
  <2>3. StartedAt(h, "entity")
    BY <1>6, <1>9, <2>1, <2>2 DEF EntityRemoved
  <2>4. KnownInv'
    <3> SUFFICES ASSUME AllKnown' PROVE KnownInv'
      BY DEF KnownInv
    <3>1. AllKnown
      BY <1>9, <2>2, AllKnown' DEF AllKnown, EntityRemoved
    <3>2. \A x \in Entities : announced[connection][x] # {} => Right(x)
      BY <1>1, <1>6, <1>9, <3>1 DEF KnownInv, EntityRemoved
    <3>3. \A x \in Entities : announced'[connection'][x] # {} => Right(x)'
      BY <1>1, <1>9, <3>2 DEF Right, EntityRemoved
    <3> QED
      BY <1>1, <3>3 DEF KnownInv
  <2> QED
    BY <1>2, <1>3, <1>9, <2>3, <2>4 DEF ListInv, EntityRemoved
<1>10. CASE DeviceRemoved
  <2>1. PICK h \in Handlers : phase' = [phase EXCEPT ![h] = "device"]
    BY <1>10 DEF DeviceRemoved, Publish
  <2>2. phase'[h] = "device" /\ \A g \in Handlers \ {h} : phase'[g] = "idle"
    BY <1>0, <1>1, <2>1
  <2>3. GoneInv'
    BY <1>1, <2>2 DEF GoneInv
  <2> QED
    BY <1>2, <1>10, <2>3 DEF ListInv, DeviceRemoved
<1> QED
  BY <1>5, <1>7, <1>8, <1>9, <1>10 DEF RemoteDevice

\* The handler's next update is dealt with: its entity is in the list as announced.
LEMMA ListAdvance ==
    ASSUME TypeInv, AloneInv, ListInv, ~overlapped, connected,
           NEW h \in Handlers, phase[h] # "idle", phase[h] # "start", todo[h] # {},
           Advance(h), UNCHANGED <<deviceVars, available, device, entity, overlapped>>,
           phase[h] \notin {"entity", "remove"}, AllKnown => Right(Target(h))
    PROVE  ListInv'
<1>0. /\ phase \in [Handlers -> Phases] /\ todo \in [Handlers -> SUBSET Update]
      /\ ThereInv /\ KnownInv /\ EachOnce
  BY DEF TypeInv, TypeOK, ListInv
<1>1. \A g \in Handlers \ {h} : phase[g] = "idle" /\ todo[g] = {}
  BY DEF AloneInv, TypeInv, StandingInv
<1>2. /\ todo'[h] = todo[h] \ {NextUpdate(todo[h])}
      /\ phase'[h] \in {"idle", "lookup"}
      /\ \A g \in Handlers \ {h} : phase'[g] = "idle" /\ todo'[g] = {}
  BY <1>0, <1>1 DEF Advance
<1>3. ThereInv'
  <2>1. /\ \A g \in Handlers : phase'[g] \notin {"device", "entity", "remove", "append"}
        /\ \A g \in Handlers : phase[g] \notin {"entity", "remove"}
    BY <1>1, <1>2
  <2>2. \A i \in DOMAIN available : /\ available[i].device = connection
                                    /\ available[i].entity \in entities[connection]
    BY <1>0, <2>1 DEF ThereInv
  <2>3. \A g \in Handlers : \A u \in todo'[g] : u.entity \in entities[connection]
    BY <1>0, <1>2 DEF ThereInv
  <2> QED
    BY <2>1, <2>2, <2>3 DEF ThereInv, deviceVars
<1>4. KnownInv'
  <2> SUFFICES ASSUME AllKnown' PROVE KnownInv'
    BY DEF KnownInv
  <2>1. AllKnown /\ Right(Target(h))
    BY DEF AllKnown, deviceVars
  <2>2. \A e : Right(e) => Right(e)'
    BY DEF Right, deviceVars
  <2>3. \A g \in Handlers : \A u \in todo'[g] :
           u.scenarios = (UNION announced[connection][u.entity]) \cap Featured[u.entity]
    BY <1>0, <1>2, <2>1 DEF KnownInv
  <2>4. ASSUME NEW e \in Entities, announced[connection][e] # {}
        PROVE  Right(e)' \/ \E u \in todo'[h] : u.entity = e
    <3>1. CASE Right(e)
      BY <2>2, <3>1
    <3>2. CASE ~Right(e)
      <4>1. PICK u \in todo[h] : u.entity = e
        BY <1>0, <1>1, <2>1, <2>4, <3>2 DEF KnownInv
      <4>2. u # NextUpdate(todo[h])
        BY <2>1, <3>2, <4>1 DEF Target
      <4> QED
        BY <1>2, <4>1, <4>2
    <3> QED
      BY <3>1, <3>2
  <2>5. \A g \in Handlers : phase'[g] # "notify"
    BY <1>2
  <2> QED
    BY <2>3, <2>4, <2>5 DEF KnownInv, deviceVars
<1>5. EachOnce'
  BY <1>0 DEF EachOnce
<1> QED
  BY <1>3, <1>4, <1>5 DEF ListInv, deviceVars

\* The removal of the entry at k leaves the other entries as they were.
LEMMA ListWithout ==
    ASSUME TypeInv, EachOnce, NEW k \in 1..Len(available),
           available' = SubSeq(available, 1, k - 1)
                          \o SubSeq(available, k + 1, Len(available))
    PROVE  /\ EachOnce' /\ Len(available') = Len(available) - 1
           /\ available' \in Seq(Entry)
           /\ \A i \in DOMAIN available' :
                 /\ \E j \in DOMAIN available : j # k /\ available'[i] = available[j]
                 /\ available'[i].entity # available[k].entity
           /\ \A j \in DOMAIN available :
                 j # k => \E i \in DOMAIN available' : available'[i] = available[j]
<1>0. available \in Seq(Entry)
  BY DEF TypeInv, TypeOK
<1>1. /\ available' \in Seq(Entry) /\ Len(available') = Len(available) - 1
      /\ \A i \in 1..Len(available') :
            available'[i] = IF i < k THEN available[i] ELSE available[i + 1]
  <2>1. Shortened(available', available, k)
    BY DEF Shortened
  <2> QED
    BY ONLY <1>0, <2>1, k \in 1..Len(available), Without
<1>2. /\ DOMAIN available = 1..Len(available) /\ Len(available) \in Nat
      /\ DOMAIN available' = 1..Len(available') /\ k \in Nat /\ 1 <= k
      /\ k <= Len(available)
  BY <1>0, <1>1
<1> DEFINE From(i) == IF i < k THEN i ELSE i + 1
<1>3. \A i \in DOMAIN available' : /\ From(i) \in DOMAIN available /\ From(i) # k
                                   /\ available'[i] = available[From(i)]
  <2>1. TAKE i \in DOMAIN available'
  <2>2. i \in 1..Len(available') /\ From(i) \in 1..Len(available) /\ From(i) # k
    BY ONLY <1>1, <1>2, <2>1
  <2> QED
    BY <1>1, <1>2, <2>2
<1>4. \A i, j \in DOMAIN available' : From(i) = From(j) => i = j
  BY ONLY <1>1, <1>2
<1>5. \A j \in DOMAIN available : j # k =>
         \E i \in DOMAIN available' : From(i) = j
  <2>1. TAKE j \in DOMAIN available
  <2>2. HAVE j # k
  <2>3. CASE j < k
    <3>1. j \in DOMAIN available' /\ From(j) = j
      BY ONLY <1>1, <1>2, <2>1, <2>3
    <3> QED
      BY <3>1
  <2>4. CASE ~(j < k)
    <3>1. j - 1 \in DOMAIN available' /\ From(j - 1) = j
      BY ONLY <1>1, <1>2, <2>1, <2>2, <2>4
    <3> QED
      BY <3>1
  <2> QED
    BY <2>3, <2>4
<1> HIDE DEF From
<1>6. EachOnce'
  <2>1. ASSUME NEW i \in DOMAIN available', NEW j \in DOMAIN available',
               available'[i].entity = available'[j].entity
        PROVE  i = j
    <3>1. /\ From(i) \in DOMAIN available /\ available'[i] = available[From(i)]
          /\ From(j) \in DOMAIN available /\ available'[j] = available[From(j)]
      BY <1>3
    <3>2. From(i) = From(j)
      BY <2>1, <3>1 DEF EachOnce
    <3> QED
      BY <1>4, <3>2
  <2> QED
    BY <2>1 DEF EachOnce
<1>7. \A i \in DOMAIN available' : available'[i].entity # available[k].entity
  BY <1>2, <1>3 DEF EachOnce
<1> QED
  BY <1>1, <1>3, <1>5, <1>6, <1>7

\* What an event's handler does with the list while it is alone.
LEMMA ListHandler ==
    ASSUME TypeInv, IndexInv, AloneInv, ListInv, ~overlapped,
           NEW h \in Handlers, HandleEvent(h)
    PROVE  ListInv'
<1>0. /\ available \in Seq(Entry) /\ DOMAIN available = 1..Len(available)
      /\ Len(available) \in Nat
      /\ phase \in [Handlers -> Phases] /\ todo \in [Handlers -> SUBSET Update]
      /\ index \in [Handlers -> Seq(Nat \ {0})]
      /\ TypeOK /\ StandingInv
  BY DEF TypeInv, TypeOK
<1>1. /\ phase[h] # "idle" /\ device[h] = connection
      /\ \A g \in Handlers \ {h} : /\ phase[g] = "idle" /\ todo[g] = {}
                                   /\ phase'[g] = "idle" /\ todo'[g] = {}
      /\ UNCHANGED <<deviceVars, device, entity, overlapped>>
      /\ ~removalOverlapped
  <2>1. /\ phase[h] # "idle"
        /\ \A g \in Handlers \ {h} : phase'[g] = phase[g] /\ todo'[g] = todo[g]
        /\ UNCHANGED <<deviceVars, device, entity, overlapped>>
    BY HandlerFrame DEF historyVars
  <2>2. /\ ~removalOverlapped /\ device[h] = connection
        /\ \A g \in Handlers \ {h} : phase[g] = "idle"
    BY <2>1 DEF AloneInv
  <2>3. \A g \in Handlers \ {h} : todo[g] = {}
    BY <1>0, <2>2 DEF StandingInv
  <2> QED
    BY <2>1, <2>2, <2>3
<1>2. EachOnce /\ (~connected => GoneInv) /\ (connected => ThereInv /\ KnownInv)
  BY DEF ListInv
<1>3. UNCHANGED <<connected, connection, entities, announced>>
  BY <1>1 DEF deviceVars
\* What is left to show of h alone.
<1>4. ASSUME ~connected, phase'[h] \in {"idle", "remove", "notify"}, todo'[h] = {},
             phase'[h] = "remove" => WholeList(h)',
             phase'[h] # "remove" => available' = <<>>, EachOnce'
      PROVE  ListInv'
  <2>1. GoneInv'
    BY <1>1, <1>4 DEF GoneInv
  <2> QED
    BY <1>1, <1>3, <1>4, <2>1 DEF ListInv
<1>5. ASSUME connected, EachOnce', KnownInv',
             phase'[h] # "device", phase'[h] # "entity",
             phase'[h] = "remove" => /\ Len(index'[h]) = 1
                                     /\ available'[Head(index'[h])].entity = entity[h]
                                     /\ entity[h] \notin entities[connection],
             \A i \in DOMAIN available' :
                 /\ available'[i].device = connection
                 /\ \/ available'[i].entity \in entities[connection]
                    \/ phase'[h] = "remove" /\ entity[h] = available'[i].entity,
             \A u \in todo'[h] : u.entity \in entities[connection],
             phase'[h] = "append" => IndicesOf(Target(h))' = {}
      PROVE  ListInv'
  <2>1. /\ \A g \in Handlers : phase'[g] # "device"
        /\ \A g \in Handlers : phase'[g] \in {"entity", "remove"} =>
              entity'[g] \notin entities'[connection']
        /\ \A g \in Handlers : phase'[g] = "remove" =>
              Len(index'[g]) = 1 /\ available'[Head(index'[g])].entity = entity'[g]
    BY <1>1, <1>3, <1>5
  <2>2. \A i \in DOMAIN available' :
          /\ available'[i].device = connection'
          /\ \/ available'[i].entity \in entities'[connection']
             \/ \E g \in Handlers : /\ phase'[g] \in {"entity", "remove"}
                                    /\ entity'[g] = available'[i].entity
    BY <1>1, <1>3, <1>5
  <2>3. /\ \A g \in Handlers : \A u \in todo'[g] : u.entity \in entities'[connection']
        /\ \A g \in Handlers : phase'[g] = "append" => IndicesOf(Target(g))' = {}
    BY <1>1, <1>3, <1>5
  <2>4. ThereInv'
    BY <2>1, <2>2, <2>3 DEF ThereInv
  <2> QED
    BY <1>3, <1>5, <2>4 DEF ListInv
<1>6. ASSUME AllKnown =>
               /\ \A u \in todo'[h] :
                     u.scenarios = (UNION announced[connection][u.entity]) \cap Featured[u.entity]
               /\ \A e \in Entities : announced[connection][e] # {} =>
                     \/ Right(e)'
                     \/ phase'[h] = "start"
                     \/ \E u \in todo'[h] : u.entity = e
               /\ phase'[h] = "notify" /\ todo'[h] # {} => Right(Target(h))'
      PROVE  KnownInv'
  <2> SUFFICES ASSUME AllKnown' PROVE KnownInv'
    BY DEF KnownInv
  <2>1. AllKnown
    BY <1>3 DEF AllKnown
  <2> QED
    BY <1>1, <1>3, <1>6, <2>1 DEF KnownInv
\* The list and what the handler has to look at stay as they are.
<1>7. ASSUME connected, phase[h] \notin {"start", "entity", "remove"},
             UNCHANGED <<available, todo>>,
             phase'[h] \notin {"idle", "device", "entity", "remove", "notify"},
             phase'[h] = "append" => IndicesOf(Target(h))' = {}
      PROVE  ListInv'
  <2>1. EachOnce'
    BY <1>2, <1>7 DEF EachOnce
  <2>2. \A e : Right(e) => Right(e)'
    BY <1>3, <1>7 DEF Right
  <2>3. KnownInv'
    BY <1>1, <1>2, <1>6, <1>7, <2>2 DEF KnownInv
  <2>4. /\ \A i \in DOMAIN available : /\ available[i].device = connection
                                       /\ available[i].entity \in entities[connection]
        /\ \A u \in todo[h] : u.entity \in entities[connection]
    BY <1>1, <1>2, <1>7 DEF ThereInv
  <2> QED
    BY <1>5, <1>7, <2>1, <2>3, <2>4

<1>8. CASE UseCaseDataUpdate(h)
  <2>1. connected /\ phase[h] = "start" /\ UNCHANGED available
    BY <1>2, <1>8 DEF UseCaseDataUpdate, GoneInv
  <2>2. todo'[h] = UseCaseUpdates(connection) /\ phase'[h] \in {"idle", "lookup"}
    BY <1>0, <1>1, <1>8 DEF UseCaseDataUpdate
  <2>3. connection \in Connections /\ entities[connection] \subseteq Entities
    BY <1>0, <2>1, UseCaseAssumption DEF TypeOK, StandingInv, Connections
  <2>4. \A u \in todo'[h] : u.entity \in entities[connection]
    BY <2>2 DEF UseCaseUpdates, EntryUpdates, EntitiesToCheck
  <2>5. KnownInv'
    <3>1. ASSUME AllKnown, NEW e \in Entities, announced[connection][e] # {}
          PROVE  EntryUpdates(connection, e) =
                   {[entry |-> e, entity |-> e,
                     scenarios |-> (UNION announced[connection][e]) \cap Featured[e]]}
      BY <3>1 DEF AllKnown, EntryUpdates, EntitiesToCheck, SupportedScenarios
    <3>2. ASSUME AllKnown, NEW u \in todo'[h]
          PROVE  u.scenarios = (UNION announced[connection][u.entity]) \cap Featured[u.entity]
      <4>1. PICK e \in Entities : announced[connection][e] # {}
                                  /\ u \in EntryUpdates(connection, e)
        BY <2>2 DEF UseCaseUpdates
      <4> QED
        BY <3>1, <3>2, <4>1
    <3>3. ASSUME AllKnown, NEW e \in Entities, announced[connection][e] # {}
          PROVE  \E u \in todo'[h] : u.entity = e
      <4>1. \A u \in EntryUpdates(connection, e) : u \in todo'[h]
        BY <2>2, <3>3 DEF UseCaseUpdates
      <4> DEFINE u == [entry |-> e, entity |-> e,
                       scenarios |-> (UNION announced[connection][e]) \cap Featured[e]]
      <4>2. u \in todo'[h]
        BY <3>1, <3>3, <4>1
      <4> QED
        BY <4>2
    <3> QED
      BY <1>6, <2>2, <3>2, <3>3
  <2>6. EachOnce'
    BY <1>2, <2>1 DEF EachOnce
  <2>7. \A i \in DOMAIN available : /\ available[i].device = connection
                                    /\ available[i].entity \in entities[connection]
    BY <1>1, <1>2, <2>1 DEF ThereInv
  <2> QED
    BY <1>5, <2>1, <2>2, <2>4, <2>5, <2>6, <2>7
<1>9. CASE Lookup(h)
  <2>1. connected /\ phase[h] = "lookup" /\ UNCHANGED <<available, todo>>
    BY <1>2, <1>9 DEF Lookup, GoneInv
  <2>2. phase'[h] \in {"append", "compare"}
        /\ (phase'[h] = "append" => IndicesOf(Target(h)) = {})
    BY <1>0, <1>9 DEF Lookup
  <2>3. IndicesOf(Target(h))' = IndicesOf(Target(h))
    BY <2>1 DEF IndicesOf, Target
  <2> QED
    BY <1>7, <2>1, <2>2, <2>3
<1>10. CASE AddItem(h)
  <2>1. connected /\ phase[h] = "append" /\ UNCHANGED todo /\ phase'[h] = "notify"
    BY <1>0, <1>2, <1>10 DEF AddItem, GoneInv
  <2> DEFINE x == [entity |-> Target(h), device |-> device[h],
                   scenarios |-> ScenarioValues(h)]
  <2>2. available' = Append(available, x)
    BY <1>10 DEF AddItem
  <2>3. todo[h] # {} /\ NextUpdate(todo[h]) \in todo[h]
    BY <1>0, <2>1, NextUpdateIn DEF StandingInv
  <2>4. /\ \A i \in DOMAIN available : available[i].device = connection
                                       /\ available[i].entity \in entities[connection]
        /\ \A u \in todo[h] : u.entity \in entities[connection]
        /\ \A i \in DOMAIN available : available[i].entity # Target(h)
    BY <1>1, <1>2, <2>1 DEF ThereInv, IndicesOf
  <2> DEFINE n == Len(available) + 1
  <2>5. /\ DOMAIN available' = 1..n /\ n \notin DOMAIN available
        /\ DOMAIN available' = DOMAIN available \cup {n}
        /\ available'[n] = x
        /\ \A i \in DOMAIN available : available'[i] = available[i]
    <3>1. x \in Entry
      BY <1>0, <2>3, NextUpdateType DEF Entry, TypeOK
    <3> HIDE DEF x
    <3>2. /\ DOMAIN available' = 1..n /\ available'[n] = x
          /\ \A i \in 1..Len(available) : available'[i] = available[i]
      BY <1>0, <2>2, <3>1
    <3>3. n \notin 1..Len(available) /\ 1..n = 1..Len(available) \cup {n}
      BY <1>0
    <3> QED
      BY <1>0, <3>2, <3>3
  <2>6. x.entity = Target(h) /\ x.device = connection /\ x.scenarios = ScenarioValues(h)
    BY <1>1
  <2> HIDE DEF n, x
  <2>7. EachOnce'
    BY <1>2, <2>4, <2>5, <2>6 DEF EachOnce
  <2>8. \A i \in DOMAIN available' : available'[i].device = connection
                                     /\ available'[i].entity \in entities[connection]
    BY <2>3, <2>4, <2>5, <2>6 DEF Target
  <2>9. \A e : Right(e) => Right(e)'
    BY <1>3, <2>5 DEF Right
  <2>10. AllKnown => Right(Target(h))'
    <3> SUFFICES ASSUME AllKnown PROVE Right(Target(h))'
      OBVIOUS
    <3>1. ScenarioValues(h) = (UNION announced[connection][Target(h)]) \cap Featured[Target(h)]
      BY <1>2, <2>1, <2>3 DEF KnownInv, ScenarioValues, Target
    <3>2. Target(h)' = Target(h)
      BY <2>1 DEF Target
    <3>3. available'[n].entity = Target(h)' /\ n \in DOMAIN available'
          /\ available'[n].scenarios
               = (UNION announced'[connection'][Target(h)']) \cap Featured[Target(h)']
      BY <1>3, <2>5, <2>6, <3>1, <3>2
    <3> QED
      BY <3>3 DEF Right
  <2>11. KnownInv'
    BY <1>1, <1>2, <1>6, <2>1, <2>9, <2>10 DEF KnownInv
  <2> QED
    BY <1>5, <2>1, <2>4, <2>7, <2>8, <2>11
<1>11. CASE Compare(h)
  <2>1. /\ connected /\ phase[h] = "compare" /\ UNCHANGED available /\ todo[h] # {}
        /\ Head(index[h]) \in DOMAIN available
        /\ available[Head(index[h])].entity = Target(h)
    BY <1>0, <1>1, <1>2, <1>11
       DEF Compare, GoneInv, StandingInv, IndexInv, IndexInRange
  <2>2. CASE available[Head(index[h])].scenarios = ScenarioValues(h)
    <3>1. Advance(h)
      BY <1>11, <2>2 DEF Compare
    <3>2. NextUpdate(todo[h]) \in todo[h]
      BY <1>0, <2>1, NextUpdateIn
    <3>3. AllKnown => Right(Target(h))
      BY <1>2, <2>1, <2>2, <3>2 DEF KnownInv, Right, ScenarioValues, Target
    <3> QED
      BY <1>1, <2>1, <3>1, <3>3, ListAdvance
  <2>3. CASE available[Head(index[h])].scenarios # ScenarioValues(h)
    <3>1. phase'[h] = "write" /\ UNCHANGED todo
      BY <1>0, <1>11, <2>3 DEF Compare
    <3> QED
      BY <1>7, <2>1, <3>1
  <2> QED
    BY <2>2, <2>3
<1>12. CASE Write(h)
  <2> DEFINE k == Head(index[h])
  <2>1. /\ connected /\ phase[h] = "write" /\ phase'[h] = "notify" /\ UNCHANGED todo
        /\ todo[h] # {} /\ k \in DOMAIN available /\ available[k].entity = Target(h)
    BY <1>0, <1>1, <1>2, <1>12
       DEF Write, GoneInv, StandingInv, IndexInv, IndexInRange
  <2>2. NextUpdate(todo[h]) \in todo[h]
    BY <1>0, <2>1, NextUpdateIn
  <2>3. available' = [available EXCEPT ![k].scenarios = ScenarioValues(h)]
    BY <1>12 DEF Write
  <2>4. /\ DOMAIN available' = DOMAIN available
        /\ \A i \in DOMAIN available : i # k => available'[i] = available[i]
        /\ available'[k] = [available[k] EXCEPT !.scenarios = ScenarioValues(h)]
    BY <1>0, <2>1, <2>3
  <2>5. /\ available'[k].entity = Target(h)
        /\ available'[k].device = available[k].device
        /\ available'[k].scenarios = ScenarioValues(h)
    <3>1. available[k] \in Entry
      BY <1>0, <2>1
    <3> QED
      BY <2>1, <2>4, <3>1 DEF Entry
  <2> HIDE DEF k
  <2>6. \A i \in DOMAIN available' : /\ available'[i].entity = available[i].entity
                                     /\ available'[i].device = available[i].device
    BY <2>1, <2>4, <2>5
  <2>7. EachOnce'
    BY <1>2, <2>4, <2>6 DEF EachOnce
  <2>8. /\ \A i \in DOMAIN available : /\ available[i].device = connection
                                       /\ available[i].entity \in entities[connection]
        /\ \A u \in todo[h] : u.entity \in entities[connection]
    BY <1>1, <1>2, <2>1 DEF ThereInv
  <2>9. \A e : Right(e) /\ e # Target(h) => Right(e)'
    BY <1>3, <2>1, <2>4 DEF Right
  <2>10. AllKnown => Right(Target(h))'
    <3> SUFFICES ASSUME AllKnown PROVE Right(Target(h))'
      OBVIOUS
    <3>1. ScenarioValues(h) = (UNION announced[connection][Target(h)]) \cap Featured[Target(h)]
      BY <1>2, <2>1, <2>2 DEF KnownInv, ScenarioValues, Target
    <3>2. Target(h)' = Target(h)
      BY <2>1 DEF Target
    <3>3. available'[k].entity = Target(h)' /\ k \in DOMAIN available'
          /\ available'[k].scenarios
               = (UNION announced'[connection'][Target(h)']) \cap Featured[Target(h)']
      BY <1>3, <2>1, <2>4, <2>5, <3>1, <3>2
    <3> QED
      BY <3>3 DEF Right
  <2>11. Target(h)' = Target(h)
    BY <2>1 DEF Target
  <2>12. KnownInv'
    <3>1. ASSUME AllKnown, NEW e \in Entities, announced[connection][e] # {}
          PROVE  Right(e)' \/ \E u \in todo'[h] : u.entity = e
      BY <1>1, <1>2, <2>1, <2>9, <2>10, <2>11, <3>1 DEF KnownInv
    <3>2. AllKnown => \A u \in todo'[h] :
             u.scenarios = (UNION announced[connection][u.entity]) \cap Featured[u.entity]
      BY <1>2, <2>1 DEF KnownInv
    <3> QED
      BY <1>6, <2>10, <3>1, <3>2
  <2> QED
    BY <1>5, <2>1, <2>4, <2>6, <2>7, <2>8, <2>12
<1>13. CASE Notify(h)
  <2>1. phase[h] = "notify" /\ UNCHANGED available
    BY <1>13 DEF Notify
  <2>2. CASE todo[h] # {}
    <3>1. connected /\ Advance(h)
      BY <1>2, <1>13, <2>2 DEF Notify, GoneInv
    <3>2. AllKnown => Right(Target(h))
      BY <1>2, <2>1, <2>2, <3>1 DEF KnownInv
    <3> QED
      BY <1>1, <2>1, <2>2, <3>1, <3>2, ListAdvance
  <2>3. CASE todo[h] = {}
    <3>1. phase'[h] = "idle" /\ todo'[h] = {}
      BY <1>0, <1>13, <2>3 DEF Notify
    <3>2. EachOnce'
      BY <1>2, <2>1 DEF EachOnce
    <3>3. CASE ~connected
      <4>1. available = <<>>
        BY <1>1, <1>2, <2>1, <3>3 DEF GoneInv
      <4> QED
        BY <1>4, <2>1, <3>1, <3>2, <3>3, <4>1
    <3>4. CASE connected
      <4>1. \A i \in DOMAIN available : /\ available[i].device = connection
                                        /\ available[i].entity \in entities[connection]
        BY <1>1, <1>2, <2>1, <3>4 DEF ThereInv
      <4>2. \A e : Right(e) => Right(e)'
        BY <1>3, <2>1 DEF Right
      <4>3. KnownInv'
        BY <1>1, <1>2, <1>6, <2>1, <2>3, <3>1, <3>4, <4>2 DEF KnownInv
      <4> QED
        BY <1>5, <2>1, <3>1, <3>2, <3>4, <4>1, <4>3
    <3> QED
      BY <3>3, <3>4
  <2> QED
    BY <2>2, <2>3
<1>14. CASE RemoveDevice(h)
  <2>1. ~connected /\ phase[h] = "device" /\ UNCHANGED <<available, todo>>
    BY <1>2, <1>14 DEF RemoveDevice, StartRemoval, ThereInv
  <2>2. /\ todo'[h] = {} /\ EachOnce'
        /\ index'[h] = IndicesOfDevice
        /\ phase'[h] = IF IndicesOfDevice = <<>> THEN "idle" ELSE "remove"
    BY <1>0, <1>2, <1>14, <2>1 DEF RemoveDevice, StartRemoval, StandingInv, EachOnce
  <2>3. WholeList(h)'
    <3>1. DOMAIN IndicesOfDevice = 1..Len(available) /\ Len(IndicesOfDevice) = Len(available)
      BY <1>0 DEF IndicesOfDevice
    <3> QED
      BY <1>0, <2>1, <2>2, <3>1 DEF WholeList, IndicesOfDevice
  <2>4. IndicesOfDevice = <<>> => available = <<>>
    <3>1. Len(available') = Len(index'[h])
      BY <2>3 DEF WholeList
    <3>2. IndicesOfDevice = <<>> => Len(available) = 0
      BY <2>1, <2>2, <3>1
    <3> QED
      BY <1>0, <3>2, EmptySeq
  <2> QED
    BY <1>4, <2>1, <2>2, <2>3, <2>4
<1>15. CASE RemoveEntity(h)
  <2>1. connected /\ phase[h] = "entity" /\ UNCHANGED <<available, todo>>
    BY <1>2, <1>15 DEF RemoveEntity, StartRemoval, GoneInv
  <2>2. todo'[h] = {} /\ todo[h] = {} /\ EachOnce' /\ phase'[h] \in {"idle", "remove"}
    BY <1>0, <1>2, <1>15, <2>1 DEF RemoveEntity, StartRemoval, StandingInv, EachOnce
  <2>3. /\ entity[h] \notin entities[connection]
        /\ \A i \in DOMAIN available :
              /\ available[i].device = connection
              /\ \/ available[i].entity \in entities[connection]
                 \/ available[i].entity = entity[h]
    BY <1>1, <1>2, <2>1 DEF ThereInv
  <2>4. \A e : Right(e) => Right(e)'
    BY <1>3, <2>1 DEF Right
  <2>5. KnownInv'
    BY <1>1, <1>2, <1>6, <2>1, <2>2, <2>4 DEF KnownInv
  <2>6. CASE IndicesOf(entity[h]) = {}
    <3>1. \A i \in DOMAIN available : available[i].entity # entity[h]
      BY <2>6 DEF IndicesOf
    <3>2. phase'[h] = "idle"
      BY <1>0, <1>15, <2>6 DEF RemoveEntity, StartRemoval
    <3> QED
      BY <1>5, <2>1, <2>2, <2>3, <2>5, <3>1, <3>2
  <2>7. CASE IndicesOf(entity[h]) # {}
    <3>1. phase'[h] = "remove" /\ index'[h] = <<FirstIndexOf(entity[h])>>
      BY <1>0, <1>15, <2>7 DEF RemoveEntity, StartRemoval
    <3>2. available[FirstIndexOf(entity[h])].entity = entity[h]
      BY <1>0, <2>7, FirstIndexIn
    <3>3. Len(index'[h]) = 1 /\ Head(index'[h]) = FirstIndexOf(entity[h])
      BY <3>1
    <3> QED
      BY <1>5, <2>1, <2>2, <2>3, <2>5, <3>1, <3>2, <3>3
  <2> QED
    BY <2>6, <2>7
<1>16. CASE RemoveIndex(h)
  <2> DEFINE k == Head(index[h])
  <2>1. /\ phase[h] = "remove" /\ UNCHANGED todo /\ todo[h] = {} /\ todo'[h] = {}
        /\ index[h] # <<>> /\ k \in 1..Len(available)
        /\ available' = SubSeq(available, 1, k - 1)
                          \o SubSeq(available, k + 1, Len(available))
        /\ index'[h] = Tail(index[h])
        /\ phase'[h] = IF Len(index[h]) > 1 THEN "remove" ELSE "notify"
    BY <1>0, <1>16 DEF RemoveIndex, IndexInRange, StandingInv
  <2> HIDE DEF k
  <2>2. /\ EachOnce' /\ Len(available') = Len(available) - 1
        /\ available' \in Seq(Entry)
        /\ \A i \in DOMAIN available' :
              /\ \E j \in DOMAIN available : j # k /\ available'[i] = available[j]
              /\ available'[i].entity # available[k].entity
        /\ \A j \in DOMAIN available :
              j # k => \E i \in DOMAIN available' : available'[i] = available[j]
    BY <1>2, <2>1, ListWithout
  <2>3. CASE ~connected
    <3>1. WholeList(h)
      BY <1>2, <2>1, <2>3 DEF GoneInv
    <3>2. Len(index[h]) = Len(available)
      BY <3>1 DEF WholeList
    <3>3. CASE Len(index[h]) > 1
      <4>1. phase'[h] = "remove"
        BY <2>1, <3>3
      <4>2. WholeList(h)'
        BY <1>0, <2>1, <2>2, <3>1, WholeTail
      <4> QED
        BY <1>4, <2>1, <2>2, <2>3, <4>1, <4>2
    <3>4. CASE ~(Len(index[h]) > 1)
      <4>3. /\ k \in 1..Len(available) /\ Len(available) \in Nat
            /\ Len(available') = Len(available) - 1
        BY <1>0, <2>1, <2>2
      <4>1. Len(available') = 0
        BY ONLY <3>2, <3>4, <4>3
      <4>2. available' = <<>>
        BY <2>2, <4>1, EmptySeq
      <4> QED
        BY <1>4, <2>1, <2>2, <2>3, <3>4, <4>2
    <3> QED
      BY <3>3, <3>4
  <2>4. CASE connected
    <3>1. /\ Len(index[h]) = 1 /\ available[k].entity = entity[h]
          /\ entity[h] \notin entities[connection]
      BY <1>2, <2>1, <2>4 DEF ThereInv, k
    <3>2. phase'[h] = "notify"
      BY <2>1, <3>1
    <3>3. \A i \in DOMAIN available : /\ available[i].device = connection
                                      /\ \/ available[i].entity \in entities[connection]
                                         \/ available[i].entity = entity[h]
      BY <1>1, <1>2, <2>1, <2>4 DEF ThereInv
    <3>4. \A i \in DOMAIN available' : /\ available'[i].device = connection
                                       /\ available'[i].entity \in entities[connection]
      <4> SUFFICES ASSUME NEW i \in DOMAIN available'
                   PROVE  /\ available'[i].device = connection
                          /\ available'[i].entity \in entities[connection]
        OBVIOUS
      <4>1. PICK j \in DOMAIN available : available'[i] = available[j]
        BY <2>2
      <4>2. available[j].entity # entity[h]
        BY <2>2, <3>1, <4>1
      <4> QED
        BY <3>3, <4>1, <4>2
    <3>5. ASSUME AllKnown, NEW e \in Entities, announced[connection][e] # {}
          PROVE  Right(e)'
      <4>1. PICK j \in DOMAIN available :
               /\ available[j].entity = e
               /\ available[j].scenarios = (UNION announced[connection][e]) \cap Featured[e]
        BY <1>1, <1>2, <2>1, <2>4, <3>5 DEF KnownInv, Right
      <4>2. j # k
        BY <2>4, <3>1, <3>5, <4>1 DEF AllKnown
      <4>3. PICK i \in DOMAIN available' : available'[i] = available[j]
        BY <2>2, <4>1, <4>2
      <4> QED
        BY <1>3, <4>1, <4>3 DEF Right
    <3>6. KnownInv'
      BY <1>6, <2>1, <3>5
    <3> QED
      BY <1>5, <2>1, <2>2, <2>4, <3>2, <3>4, <3>6
  <2> QED
    BY <2>3, <2>4
<1>17. ~Panic(h)
  BY <1>1 DEF Panic, IndexInv
<1> QED
  BY <1>8, <1>9, <1>10, <1>11, <1>12, <1>13, <1>14, <1>15, <1>16, <1>17 DEF HandleEvent

\* Every step keeps the list as the device announced it.
LEMMA ListNext ==
    ASSUME TypeInv, IndexInv, AloneInv, ListInv, [Next]_vars
    PROVE  ListInv'
<1>1. CASE RemoteDevice
  BY <1>1, ListRemote DEF ListInv
<1>2. ASSUME NEW h \in Handlers, HandleEvent(h) PROVE ListInv'
  <2>1. overlapped' = overlapped
    BY <1>2, HandlerFrame DEF historyVars
  <2> QED
    BY <1>2, <2>1, ListHandler DEF ListInv
<1>3. CASE Restart
  <2>1. DOMAIN available' = {} /\ ~connected'
    BY <1>3 DEF Restart
  <2> QED
    BY <1>3, <2>1 DEF Restart, ListInv, EachOnce, GoneInv
<1>4. CASE UNCHANGED vars
  <2>1. UNCHANGED <<deviceVars, available, handlerVars, historyVars>>
    BY <1>4 DEF vars, handlerVars
  <2>2. /\ EachOnce' <=> EachOnce
        /\ GoneInv' <=> GoneInv
    BY <2>1 DEF EachOnce, GoneInv, WholeList, handlerVars
  <2>3. ThereInv' <=> ThereInv
    BY <2>1 DEF ThereInv, IndicesOf, Target, deviceVars, handlerVars
  <2>4. KnownInv' <=> KnownInv
    BY <2>1 DEF KnownInv, AllKnown, Right, IndicesOf, Target, deviceVars, handlerVars
  <2>5. connected' = connected /\ overlapped' = overlapped
    BY <2>1 DEF deviceVars, historyVars
  <2> QED
    BY <2>2, <2>3, <2>4, <2>5 DEF ListInv
<1> QED
  BY <1>1, <1>2, <1>3, <1>4 DEF Next

\* When events come one at a time, the list is what the device announces.
THEOREM ListCurrentHolds == Spec => []ListCurrent
<1> DEFINE Inductive == RemovingInv /\ IndexInv /\ AloneInv /\ ListInv
<1>1. Init => Inductive
  <2> SUFFICES ASSUME Init PROVE Inductive
    OBVIOUS
  <2>1. DOMAIN available = {} /\ available = <<>> /\ ~connected
    BY DEF Init
  <2> QED
    BY <2>1
       DEF Init, RemovingInv, IndexInv, Removing, AloneInv, ListInv, EachOnce, GoneInv
<1>2. TypeInv /\ Inductive /\ [Next]_vars => Inductive'
  BY RemovingNext, IndexNext, AloneNext, ListNext
<1>3. TypeInv /\ Inductive => ListCurrent
  <2> SUFFICES ASSUME TypeInv, Inductive, Quiet, ~overlapped
               PROVE  /\ ~connected => available = <<>>
                      /\ connected =>
                           /\ \A i \in DOMAIN available :
                                available[i].device = connection
                                /\ available[i].entity \in entities[connection]
                           /\ AllKnown => \A e \in Entities :
                                announced[connection][e] # {} =>
                                  \E i \in DOMAIN available :
                                    /\ IndicesOf(e) = {i}
                                    /\ available[i].scenarios
                                         = (UNION announced[connection][e]) \cap Featured[e]
    BY DEF ListCurrent
  <2>1. \A h \in Handlers : phase[h] = "idle" /\ todo[h] = {}
    BY DEF Quiet, Active, TypeInv, StandingInv
  <2>2. ~connected => available = <<>>
    BY <2>1 DEF ListInv, GoneInv
  <2>3. connected => \A i \in DOMAIN available :
                       available[i].device = connection
                       /\ available[i].entity \in entities[connection]
    BY <2>1 DEF ListInv, ThereInv
  <2>4. ASSUME connected, AllKnown, NEW e \in Entities, announced[connection][e] # {}
        PROVE  \E i \in DOMAIN available :
                 /\ IndicesOf(e) = {i}
                 /\ available[i].scenarios = (UNION announced[connection][e]) \cap Featured[e]
    <3>1. EachOnce /\ Right(e)
      BY <2>1, <2>4 DEF ListInv, KnownInv
    <3>2. PICK i \in DOMAIN available :
             /\ available[i].entity = e
             /\ available[i].scenarios = (UNION announced[connection][e]) \cap Featured[e]
      BY <3>1 DEF Right
    <3>3. IndicesOf(e) = {i}
      BY <3>1, <3>2 DEF EachOnce, IndicesOf
    <3> QED
      BY <3>2, <3>3
  <2> QED
    BY <2>2, <2>3, <2>4
<1> QED
  BY <1>1, <1>2, <1>3, TypeInvHolds, PTL DEF Spec

=============================================================================
