----------------------------- MODULE UseCaseBase -----------------------------
(***************************************************************************)
(* The list of remote entities that support a use case, kept by every use  *)
(* case (usecases/usecase/usecase.go and events.go).                       *)
(*                                                                         *)
(* spine delivers each event to the use case in a goroutine of its own, so *)
(* handlers overlap and finish in any order.  The mutex protects each look *)
(* at the list and each change of it, but not the two together: an index   *)
(* found under the lock is used after it was released.                     *)
(*                                                                         *)
(* One remote device is modelled, the one the application registers, over  *)
(* several connections: each connection has a device object of its own,    *)
(* which its handlers keep reading after the device is gone.               *)
(***************************************************************************)
EXTENDS Integers, Sequences, FiniteSets

CONSTANTS
    Entities,        \* entities of a compatible type, in the device's order
    Scenarios,       \* scenarios of the use case
    Featured,        \* scenarios whose server features an entity has
    Handlers,        \* identities of event goroutines, reused once they ended
    MaxConnections,  \* bound: connections of the device
    MaxEvents        \* bound: events per run of the process

ASSUME UseCaseAssumption ==
    /\ Entities \subseteq Nat \ {0}
    /\ IsFiniteSet(Entities)
    /\ Featured \in [Entities -> SUBSET Scenarios]
    /\ MaxConnections \in Nat \ {0}
    /\ MaxEvents \in Nat

Connections == 1..MaxConnections
Phases == {"idle", "start", "lookup", "append", "compare", "write", "notify",
           "device", "entity", "remove"}

VARIABLES
    connection,  \* number of the latest connection, 0 before the first
    connected,   \* the device is connected
    entities,    \* entities of each device object
    announced,   \* its use case data per entity: {} or {a scenario list}
    available,   \* availableEntityScenarios
    phase,       \* where each event goroutine stands
    device,      \* the device object of its event
    todo,        \* updates it has still to look at, in the order of Earlier
    entity,      \* the entity of a removal event
    index,       \* the indices it found, to be used in this order
    crashed,     \* a goroutine panicked, which ends the process
    view,        \* the list as the application read it at the last event
    events       \* events so far, at most MaxEvents

(* History variables.                                                      *)
VARIABLES
    overlapped,  \* an event arrived while the handler of another was running
    removalOverlapped  \* the same, and one of the two removes something

\* What it can announce for an entity: nothing, or a list that may be empty.
Announcements == {{}} \cup {{S} : S \in SUBSET Scenarios}

deviceVars == <<connection, connected, entities, announced>>
handlerVars == <<phase, device, todo, entity, index>>
historyVars == <<overlapped, removalOverlapped>>
vars == <<deviceVars, available, handlerVars, crashed, view, events, historyVars>>

NoEntity == 0

Init ==
    /\ connection = 0
    /\ connected = FALSE
    /\ entities = [c \in Connections |-> {}]
    /\ announced = [c \in Connections |-> [e \in Entities |-> {}]]
    /\ available = <<>>
    /\ phase = [h \in Handlers |-> "idle"]
    /\ device = [h \in Handlers |-> 1]
    /\ todo = [h \in Handlers |-> {}]
    /\ entity = [h \in Handlers |-> NoEntity]
    /\ index = [h \in Handlers |-> <<>>]
    /\ crashed = FALSE
    /\ view = <<>>
    /\ events = 0
    /\ overlapped = FALSE
    /\ removalOverlapped = FALSE

-----------------------------------------------------------------------------
(* The remote device and the events spine publishes about it.              *)

Active == {h \in Handlers : phase[h] # "idle"}
Removing(h) == phase[h] \in {"device", "entity", "remove"}

\* An event about device object c starts a goroutine; e is its entity.
Publish(first, c, e) ==
    /\ ~crashed
    /\ events < MaxEvents
    /\ events' = events + 1
    /\ \E h \in Handlers \ Active :
         /\ phase' = [phase EXCEPT ![h] = first]
         /\ device' = [device EXCEPT ![h] = c]
         /\ entity' = [entity EXCEPT ![h] = e]
    /\ overlapped' = (overlapped \/ Active # {})
    /\ removalOverlapped' =
         \/ removalOverlapped
         \/ Active # {} /\ (first # "start" \/ \E h \in Active : Removing(h))
    /\ UNCHANGED <<available, todo, index, crashed, view>>

\* The device connects; its detailed discovery lists its entities.
Connect(E) ==
    /\ ~connected
    /\ connection < MaxConnections
    /\ connected' = TRUE
    /\ connection' = connection + 1
    /\ entities' = [entities EXCEPT ![connection + 1] = E]
    /\ Publish("start", connection + 1, NoEntity)
    /\ UNCHANGED announced

\* Its use case data arrives, or announces something else for one entity.
UseCaseData(e, A) ==
    /\ connected
    /\ A # announced[connection][e]
    /\ announced' = [announced EXCEPT ![connection][e] = A]
    /\ Publish("start", connection, NoEntity)
    /\ UNCHANGED <<connection, connected, entities>>

\* A detailed discovery adds an entity.
EntityAdded(e) ==
    /\ connected
    /\ e \notin entities[connection]
    /\ entities' = [entities EXCEPT ![connection] = @ \cup {e}]
    /\ Publish("start", connection, NoEntity)
    /\ UNCHANGED <<connection, connected, announced>>

\* A detailed discovery removes an entity; the use case data stays as it was.
EntityRemoved(e) ==
    /\ connected
    /\ e \in entities[connection]
    /\ entities' = [entities EXCEPT ![connection] = @ \ {e}]
    /\ Publish("entity", connection, e)
    /\ UNCHANGED <<connection, connected, announced>>

\* The device disconnects.
DeviceRemoved ==
    /\ connected
    /\ connected' = FALSE
    /\ Publish("device", connection, NoEntity)
    /\ UNCHANGED <<connection, entities, announced>>

-----------------------------------------------------------------------------
(* useCaseDataUpdate and updateRemoteEntityScenarios.                      *)

\* The entities a use case entry for e is about: e itself, or every entity of
\* the device when the device does not know e.
EntitiesToCheck(c, e) == IF e \in entities[c] THEN {e} ELSE entities[c]

\* Mutant: the server features are not looked at.
SupportedScenariosBlind(c, e, x) == UNION announced[c][e]
\* Supported: announced, and the server features are there.
SupportedScenarios(c, e, x) == (UNION announced[c][e]) \cap Featured[x]

\* The updates for the use case entry of e.
EntryUpdates(c, e) ==
    {[entry |-> e, entity |-> x, scenarios |-> SupportedScenarios(c, e, x)] :
        x \in EntitiesToCheck(c, e)}

\* The updates for all entries; one without a scenario list is skipped, one with
\* an empty list is not.
UseCaseUpdates(c) ==
    UNION {EntryUpdates(c, e) : e \in {x \in Entities : announced[c][x] # {}}}

\* The entries are gone through in their order, each over the entities in theirs.
Earlier(u, v) ==
    \/ u.entry < v.entry
    \/ u.entry = v.entry /\ u.entity <= v.entity

\* The positions of an entity in the list.
IndicesOf(e) == {i \in DOMAIN available : available[i].entity = e}
\* Mutant: one less than the position.
FirstIndexOfShifted(e) ==
    (CHOOSE i \in IndicesOf(e) : \A j \in IndicesOf(e) : i <= j) - 1
FirstIndexOf(e) == CHOOSE i \in IndicesOf(e) : \A j \in IndicesOf(e) : i <= j

UseCaseDataUpdate(h) ==
    /\ phase[h] = "start"
    /\ todo' = [todo EXCEPT ![h] = UseCaseUpdates(device[h])]
    /\ phase' = [phase EXCEPT ![h] =
                   IF UseCaseUpdates(device[h]) = {} THEN "idle" ELSE "lookup"]
    /\ UNCHANGED <<deviceVars, available, device, entity, index, crashed, view,
                   events, historyVars>>

NextUpdate(updates) == CHOOSE u \in updates : \A v \in updates : Earlier(u, v)
Target(h) == NextUpdate(todo[h]).entity
ScenarioValues(h) == NextUpdate(todo[h]).scenarios

\* The next update is dealt with.
Advance(h) ==
    /\ todo' = [todo EXCEPT ![h] = @ \ {NextUpdate(@)}]
    /\ phase' = [phase EXCEPT ![h] =
                   IF todo[h] = {NextUpdate(todo[h])} THEN "idle" ELSE "lookup"]
    /\ index' = [index EXCEPT ![h] = <<>>]

\* entitiyScenarioIndexOfEntity, under the lock.
Lookup(h) ==
    /\ phase[h] = "lookup"
    /\ IF IndicesOf(Target(h)) = {}
         THEN /\ phase' = [phase EXCEPT ![h] = "append"]
              /\ UNCHANGED index
         ELSE /\ phase' = [phase EXCEPT ![h] = "compare"]
              /\ index' = [index EXCEPT ![h] = <<FirstIndexOf(Target(h))>>]
    /\ UNCHANGED <<deviceVars, available, device, todo, entity, crashed, view,
                   events, historyVars>>

\* The entity was not in the list: append it, under the lock again.
AddItem(h) ==
    /\ phase[h] = "append"
    /\ available' = Append(available, [entity |-> Target(h),
                                       device |-> device[h],
                                       scenarios |-> ScenarioValues(h)])
    /\ phase' = [phase EXCEPT ![h] = "notify"]
    /\ UNCHANGED <<deviceVars, device, todo, entity, index, crashed, view,
                   events, historyVars>>

IndexInRange(h) == Head(index[h]) \in DOMAIN available

\* An index beyond the list panics and ends the process.
Panic(h) ==
    /\ phase[h] \in {"compare", "write", "remove"}
    /\ index[h] # <<>>
    /\ ~IndexInRange(h)
    /\ crashed' = TRUE
    /\ UNCHANGED <<deviceVars, available, handlerVars, view, events, historyVars>>

\* slices.Compare with the element at the index, without the lock.
Compare(h) ==
    /\ phase[h] = "compare"
    /\ IndexInRange(h)
    /\ \/ /\ available[Head(index[h])].scenarios = ScenarioValues(h)
          /\ Advance(h)
       \/ /\ available[Head(index[h])].scenarios # ScenarioValues(h)
          /\ phase' = [phase EXCEPT ![h] = "write"]
          /\ UNCHANGED <<todo, index>>
    /\ UNCHANGED <<deviceVars, available, device, entity, crashed, view, events,
                   historyVars>>

\* The scenarios at the index are replaced, under the lock.
Write(h) ==
    /\ phase[h] = "write"
    /\ IndexInRange(h)
    /\ available' = [available EXCEPT ![Head(index[h])].scenarios =
                       ScenarioValues(h)]
    /\ phase' = [phase EXCEPT ![h] = "notify"]
    /\ UNCHANGED <<deviceVars, device, todo, entity, index, crashed, view,
                   events, historyVars>>

\* Mutant: the callback is not called.
NotifyNot(h) ==
    /\ phase[h] = "notify"
    /\ IF todo[h] # {}
         THEN Advance(h)
         ELSE /\ phase' = [phase EXCEPT ![h] = "idle"]
              /\ UNCHANGED <<todo, index>>
    /\ UNCHANGED <<deviceVars, available, device, entity, crashed, view, events,
                   historyVars>>

\* EventCB: the application reads the list.  An update goes on with its next
\* entity, a removal is over.
Notify(h) ==
    /\ phase[h] = "notify"
    /\ view' = available
    /\ IF todo[h] # {}
         THEN Advance(h)
         ELSE /\ phase' = [phase EXCEPT ![h] = "idle"]
              /\ UNCHANGED <<todo, index>>
    /\ UNCHANGED <<deviceVars, available, device, entity, crashed, events,
                   historyVars>>

-----------------------------------------------------------------------------
(* Removal of a device or of an entity.                                    *)

\* Mutant: the indices are used from the first to the last.
IndicesOfDeviceForward == [i \in DOMAIN available |-> i]
\* All entries are of the one device, whatever connection they date from.
IndicesOfDevice == [i \in DOMAIN available |-> Len(available) + 1 - i]

\* The indices are found under the lock; without any the handler ends.
StartRemoval(h, indices) ==
    /\ index' = [index EXCEPT ![h] = indices]
    /\ phase' = [phase EXCEPT ![h] = IF indices = <<>> THEN "idle" ELSE "remove"]
    /\ UNCHANGED <<deviceVars, available, device, todo, entity, crashed, view,
                   events, historyVars>>

\* removeDeviceFromAvailableEntityScenarios: the last index comes first.
RemoveDevice(h) ==
    /\ phase[h] = "device"
    /\ StartRemoval(h, IndicesOfDevice)

\* removeEntityFromAvailableEntityScenarios: the first entry of the entity.
RemoveEntity(h) ==
    /\ phase[h] = "entity"
    /\ StartRemoval(h, IF IndicesOf(entity[h]) = {} THEN <<>>
                       ELSE <<FirstIndexOf(entity[h])>>)

\* removeEntityIndexFromAvailableEntityScenarios for the next index.
RemoveIndex(h) ==
    LET k == Head(index[h]) IN
      /\ phase[h] = "remove"
      /\ index[h] # <<>>
      /\ IndexInRange(h)
      /\ available' = SubSeq(available, 1, k - 1)
                        \o SubSeq(available, k + 1, Len(available))
      /\ index' = [index EXCEPT ![h] = Tail(@)]
      /\ phase' = [phase EXCEPT ![h] =
                     IF Len(index[h]) > 1 THEN "remove" ELSE "notify"]
      /\ UNCHANGED <<deviceVars, device, todo, entity, crashed, view, events,
                     historyVars>>

\* The process ended, by a panic or otherwise, and starts knowing nothing.
Restart ==
    /\ connection' = 0 /\ connected' = FALSE
    /\ entities' = [c \in Connections |-> {}]
    /\ announced' = [c \in Connections |-> [e \in Entities |-> {}]]
    /\ available' = <<>>
    /\ phase' = [h \in Handlers |-> "idle"]
    /\ device' = [h \in Handlers |-> 1]
    /\ todo' = [h \in Handlers |-> {}]
    /\ entity' = [h \in Handlers |-> NoEntity]
    /\ index' = [h \in Handlers |-> <<>>]
    /\ crashed' = FALSE
    /\ view' = <<>>
    /\ events' = 0
    /\ overlapped' = FALSE /\ removalOverlapped' = FALSE

-----------------------------------------------------------------------------
RemoteDevice ==
    \/ \E E \in SUBSET Entities : Connect(E)
    \/ \E e \in Entities :
          \/ \E A \in Announcements : UseCaseData(e, A)
          \/ EntityAdded(e)
          \/ EntityRemoved(e)
    \/ DeviceRemoved

HandleEvent(h) ==
    \/ UseCaseDataUpdate(h)
    \/ Lookup(h)
    \/ AddItem(h)
    \/ Compare(h)
    \/ Write(h)
    \/ Notify(h)
    \/ RemoveDevice(h)
    \/ RemoveEntity(h)
    \/ RemoveIndex(h)
    \/ Panic(h)

Next ==
    \/ RemoteDevice
    \/ ~crashed /\ \E h \in Handlers : HandleEvent(h)
    \/ Restart

Spec == Init /\ [][Next]_vars

-----------------------------------------------------------------------------
(* Properties.                                                             *)

Update == [entry : Entities, entity : Entities, scenarios : SUBSET Scenarios]
Entry == [entity : Entities, device : Connections, scenarios : SUBSET Scenarios]

\* Every variable has a value the code can give it.
TypeOK ==
    /\ connection \in 0..MaxConnections
    /\ connected \in BOOLEAN
    /\ entities \in [Connections -> SUBSET Entities]
    /\ announced \in [Connections -> [Entities -> Announcements]]
    /\ available \in Seq(Entry)
    /\ phase \in [Handlers -> Phases]
    /\ device \in [Handlers -> Connections]
    /\ todo \in [Handlers -> SUBSET Update]
    /\ entity \in [Handlers -> Entities \cup {NoEntity}]
    /\ index \in [Handlers -> Seq(Nat \ {0})]
    /\ crashed \in BOOLEAN
    /\ view \in Seq(Entry)
    /\ events \in 0..MaxEvents
    /\ overlapped \in BOOLEAN
    /\ removalOverlapped \in BOOLEAN

Quiet == Active = {}

AllKnown ==
    \A e \in Entities : announced[connection][e] # {} => e \in entities[connection]

\* When events come one at a time, the list says what the device last announced:
\* each entity that supports the use case is listed once, for this connection and
\* with the scenarios it supports now, and nothing of what was removed is left.
ListCurrent ==
    Quiet /\ ~overlapped =>
        /\ ~connected => available = <<>>
        /\ connected =>
             /\ \A i \in DOMAIN available :
                  available[i].device = connection
                  /\ available[i].entity \in entities[connection]
             /\ AllKnown => \A e \in Entities : announced[connection][e] # {} =>
                  \E i \in DOMAIN available :
                     /\ IndicesOf(e) = {i}
                     /\ available[i].scenarios = (UNION announced[connection][e]) \cap Featured[e]

\* An index found under the lock stays right until it is used, unless a removal
\* ran meanwhile: then no goroutine changes the entry of another entity, or
\* panics, however many updates overlap.
IndexValid ==
    ~removalOverlapped =>
        /\ ~crashed
        /\ \A h \in Handlers : phase[h] \in {"compare", "write"} =>
              IndexInRange(h) /\ available[Head(index[h])].entity = Target(h)
        /\ \A h \in Handlers : phase[h] = "remove" => IndexInRange(h)

\* The application is told of every change after it was made: with all handlers
\* done it has read the list as it is, even if their steps were mixed.
ApplicationInformed == Quiet => view = available

=============================================================================
