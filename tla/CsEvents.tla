------------------------------- MODULE CsEvents -------------------------------
(***************************************************************************)
(* How the controllable system use cases LPC and LPP come to receive the   *)
(* heartbeat of an energy guard (usecases/cs/*/events.go): they subscribe  *)
(* to its DeviceDiagnosis server when the device connects, or, if several  *)
(* entities offer one, when an entity binds to the LoadControl server.     *)
(*                                                                         *)
(* spine delivers each event to each use case in a goroutine of its own,   *)
(* so a handler may run long after its event and after later handlers.     *)
(* Both use cases are added to one local entity and therefore share one    *)
(* DeviceDiagnosis client feature with its list of subscriptions.          *)
(*                                                                         *)
(* Events about data (heartbeats, limits, failsafe values) change nothing  *)
(* that is modelled here: HandleEvent only passes them to the application. *)
(***************************************************************************)
EXTENDS Integers, Sequences, FiniteSets

CONSTANTS
    UseCases,        \* use cases with this code, on one local entity
    Entities,        \* entities of the remote device
    NoEntity,        \* stands for no entity
    Compatible,      \* those of a type that passes IsCompatibleEntityType
    DiagnosisSets,   \* sets of entities that may have a DeviceDiagnosis server
    MaxConnections,  \* bound: connections of the device
    Slots,           \* bound: events handled at the same time
    MaxEvents        \* bound: events published

ASSUME CsEventsAssumption ==
    /\ UseCases # {}
    /\ IsFiniteSet(UseCases)
    /\ IsFiniteSet(Slots)
    /\ IsFiniteSet(Entities)
    /\ NoEntity \notin Entities
    /\ Compatible \subseteq Entities
    /\ DiagnosisSets \subseteq SUBSET Entities
    /\ MaxConnections \in Nat
    /\ MaxEvents \in Nat

Connections == 1..MaxConnections
NoDiagnosis == [connection |-> 0, entity |-> NoEntity]
NoEvent == [kind |-> "none", connection |-> 0, entity |-> NoEntity]
Phases == {"idle", "start", "check", "subscribe"}

VARIABLES
    connection,     \* number of the latest connection, 0 before the first
    connected,      \* the device is connected
    diagnosis,      \* entities with a DeviceDiagnosis server, per connection
    subscriptions,  \* of the shared client feature: how often to each entity
    events,         \* number of events published
    event,          \* those that are being handled
    phase,          \* where the handler of each of them stands, per use case
    target,         \* the remote entity of its localDeviceDiag
    heartbeatDiag,  \* per use case
    heartbeatKeoWorkaround  \* per use case

(* History variables.                                                      *)
VARIABLES
    boundLate,   \* those that did after all handlers of the connection ended
    changed,     \* the device changed its entities in this connection
    overtaken    \* the device connected while a handler was running

deviceVars == <<connection, connected, diagnosis>>
handlerVars == <<events, event, phase, target>>
useCaseVars == <<heartbeatDiag, heartbeatKeoWorkaround>>
historyVars == <<boundLate, changed, overtaken>>
vars == <<deviceVars, subscriptions, handlerVars, useCaseVars, historyVars>>

NoSubscription == [e \in Entities |-> 0]

Init ==
    /\ connection = 0
    /\ connected = FALSE
    /\ diagnosis = [c \in Connections |-> {}]
    /\ subscriptions = NoSubscription
    /\ events = 0
    /\ event = [s \in Slots |-> NoEvent]
    /\ phase = [u \in UseCases |-> [s \in Slots |-> "idle"]]
    /\ target = [u \in UseCases |-> [s \in Slots |-> NoEntity]]
    /\ heartbeatDiag = [u \in UseCases |-> NoDiagnosis]
    /\ heartbeatKeoWorkaround = [u \in UseCases |-> FALSE]
    /\ boundLate = {}
    /\ changed = FALSE
    /\ overtaken = FALSE

-----------------------------------------------------------------------------
(* The remote device, and the events spine publishes about it.             *)

Free(s) == \A u \in UseCases : phase[u][s] = "idle"
Settled == \A s \in Slots : Free(s)

\* An event starts one goroutine for each use case.
Publish(kind, c, e) ==
    /\ events < MaxEvents
    /\ events' = events + 1
    /\ \E s \in Slots :
         /\ Free(s)
         /\ event' = [event EXCEPT
                ![s] = [kind |-> kind, connection |-> c, entity |-> e]]
         /\ phase' = [u \in UseCases |-> [phase[u] EXCEPT ![s] = "start"]]
    /\ UNCHANGED <<target, useCaseVars>>

\* The device connects and D are its entities with a DeviceDiagnosis server.
Connect(D) ==
    /\ ~connected
    /\ connection < MaxConnections
    /\ connected' = TRUE
    /\ connection' = connection + 1
    /\ diagnosis' = [diagnosis EXCEPT ![connection + 1] = D]
    /\ Publish("connected", connection + 1, NoEntity)
    /\ overtaken' = (overtaken \/ ~Settled)
    /\ UNCHANGED <<subscriptions, boundLate, changed>>

\* The device disconnects; spine forgets the subscriptions to it.
Disconnect ==
    /\ connected
    /\ connected' = FALSE
    /\ subscriptions' = NoSubscription
    /\ boundLate' = {}
    /\ changed' = FALSE
    /\ UNCHANGED <<connection, diagnosis, handlerVars, useCaseVars, overtaken>>

\* Entities come or go during a connection, once as a bound; no handler of this
\* code cares.
EntitiesChange(D) ==
    /\ connected
    /\ ~changed
    /\ D # diagnosis[connection]
    /\ diagnosis' = [diagnosis EXCEPT ![connection] = D]
    /\ changed' = TRUE
    /\ UNCHANGED <<connection, connected, subscriptions, handlerVars,
                   useCaseVars, boundLate, overtaken>>

\* An entity binds to the LoadControl server, for the first time or again.
Bind(e) ==
    /\ connected
    /\ Publish("binding", connection, e)
    /\ boundLate' = IF Settled THEN boundLate \cup {e} ELSE boundLate
    /\ UNCHANGED <<deviceVars, subscriptions, changed, overtaken>>

-----------------------------------------------------------------------------
(* HandleEvent.                                                            *)

At(u, s, p) ==
    /\ phase[u][s] = p
    /\ UNCHANGED <<deviceVars, events, historyVars>>

Goto(u, s, p) == phase' = [phase EXCEPT ![u][s] = p]

\* The handler returns; its event is over when that of every use case has.
Return(u, s) ==
    /\ Goto(u, s, "idle")
    /\ target' = [target EXCEPT ![u][s] = NoEntity]
    /\ event' = IF \A v \in UseCases \ {u} : phase[v][s] = "idle"
                THEN [event EXCEPT ![s] = NoEvent] ELSE event

\* Mutant: the type of the entities is not looked at.
EveryDiagEntity(c) == diagnosis[c]

\* The entities deviceConnected collects in deviceDiagEntities.
DeviceDiagEntities(c) == diagnosis[c] \cap Compatible

\* Mutant: a diagnosis feature the use case already has is kept.
UseDiagnosisOnce(u, s, e) ==
    /\ target' = [target EXCEPT ![u][s] = e]
    /\ heartbeatDiag' = IF heartbeatDiag[u] # NoDiagnosis THEN heartbeatDiag
                        ELSE [heartbeatDiag EXCEPT
                            ![u] = [connection |-> event[s].connection, entity |-> e]]
    /\ Goto(u, s, "check")
    /\ UNCHANGED event

\* NewDeviceDiagnosis for entity e, which becomes the diagnosis of the use case.
UseDiagnosis(u, s, e) ==
    /\ target' = [target EXCEPT ![u][s] = e]
    /\ heartbeatDiag' = [heartbeatDiag EXCEPT
                            ![u] = [connection |-> event[s].connection, entity |-> e]]
    /\ Goto(u, s, "check")
    /\ UNCHANGED event

\* deviceConnected: there is one DeviceDiagnosis server, so subscribe to it.
ConnectedSingle(u, s) ==
    /\ At(u, s, "start")
    /\ event[s].kind = "connected"
    /\ \E e \in Entities :
         /\ DeviceDiagEntities(event[s].connection) = {e}
         /\ UseDiagnosis(u, s, e)
    /\ UNCHANGED <<subscriptions, heartbeatKeoWorkaround>>

\* deviceConnected: there is none.
ConnectedNone(u, s) ==
    /\ At(u, s, "start")
    /\ event[s].kind = "connected"
    /\ DeviceDiagEntities(event[s].connection) = {}
    /\ Return(u, s)
    /\ UNCHANGED <<subscriptions, useCaseVars>>

\* Mutant: two servers are still taken for one and its double.
ConnectedMoreThanTwo(u, s) ==
    /\ At(u, s, "start")
    /\ event[s].kind = "connected"
    /\ Cardinality(DeviceDiagEntities(event[s].connection)) > 1
    /\ Return(u, s)
    /\ heartbeatKeoWorkaround' = [heartbeatKeoWorkaround EXCEPT
            ![u] = Cardinality(DeviceDiagEntities(event[s].connection)) > 2]
    /\ UNCHANGED <<subscriptions, heartbeatDiag>>

\* deviceConnected: there are several, so wait for the one that binds.
ConnectedSeveral(u, s) ==
    /\ At(u, s, "start")
    /\ event[s].kind = "connected"
    /\ Cardinality(DeviceDiagEntities(event[s].connection)) > 1
    /\ Return(u, s)
    /\ heartbeatKeoWorkaround' = [heartbeatKeoWorkaround EXCEPT ![u] = TRUE]
    /\ UNCHANGED <<subscriptions, heartbeatDiag>>

\* Mutant: the binding of any entity is good enough.
SubscribesAnyEntity(u, s) ==
    /\ heartbeatKeoWorkaround[u]
    /\ event[s].entity \in diagnosis[event[s].connection]

\* A binding leads to subscribeHeartbeatWorkaround, and that to a subscription,
\* unless the entity has the wrong type, the workaround is not needed, or the
\* entity has no DeviceDiagnosis server, so that NewDeviceDiagnosis fails.
Subscribes(u, s) ==
    /\ event[s].entity \in Compatible
    /\ heartbeatKeoWorkaround[u]
    /\ event[s].entity \in diagnosis[event[s].connection]

Binding(u, s) ==
    /\ At(u, s, "start")
    /\ event[s].kind = "binding"
    /\ Subscribes(u, s)
    /\ UseDiagnosis(u, s, event[s].entity)
    /\ UNCHANGED <<subscriptions, heartbeatKeoWorkaround>>

BindingIgnored(u, s) ==
    /\ At(u, s, "start")
    /\ event[s].kind = "binding"
    /\ ~Subscribes(u, s)
    /\ Return(u, s)
    /\ UNCHANGED <<subscriptions, useCaseVars>>

\* HasSubscription.
HasSubscription(e) == subscriptions[e] > 0

\* Mutant: the subscription is sent without a look at the list.
CheckNothing(u, s) ==
    /\ At(u, s, "check")
    /\ Goto(u, s, "subscribe")
    /\ UNCHANGED <<subscriptions, event, target, useCaseVars>>

\* With a subscription only the request of the current heartbeat is left, whose
\* answer is no event the use case cares for.
Check(u, s) ==
    /\ At(u, s, "check")
    /\ IF HasSubscription(target[u][s])
       THEN Return(u, s)
       ELSE Goto(u, s, "subscribe") /\ UNCHANGED <<event, target>>
    /\ UNCHANGED <<subscriptions, useCaseVars>>

\* Subscribe, which fails when the device is not connected.  The handler of an
\* earlier connection reaches the present one: both have the same address.
Subscribe(u, s) ==
    /\ At(u, s, "subscribe")
    /\ subscriptions' = IF connected
                        THEN [subscriptions EXCEPT ![target[u][s]] = @ + 1]
                        ELSE subscriptions
    /\ Return(u, s)
    /\ UNCHANGED useCaseVars

-----------------------------------------------------------------------------

Device ==
    \/ \E D \in DiagnosisSets : Connect(D) \/ EntitiesChange(D)
    \/ Disconnect
    \/ \E e \in Entities : Bind(e)

Handle(u, s) ==
    \/ ConnectedSingle(u, s)
    \/ ConnectedNone(u, s)
    \/ ConnectedSeveral(u, s)
    \/ Binding(u, s)
    \/ BindingIgnored(u, s)
    \/ Check(u, s)
    \/ Subscribe(u, s)

Next == Device \/ \E u \in UseCases, s \in Slots : Handle(u, s)

Spec == Init /\ [][Next]_vars

-----------------------------------------------------------------------------
(* Properties.                                                             *)

Events == [kind : {"connected"}, connection : Connections, entity : {NoEntity}]
              \cup [kind : {"binding"}, connection : Connections, entity : Entities]
Diagnoses == [connection : Connections, entity : Compatible] \cup {NoDiagnosis}

(* The variables have their types; a use case keeps the diagnosis of an
   entity of a compatible type (HandleEvent, deviceConnected). *)
TypeOK ==
    /\ connection \in 0..MaxConnections
    /\ connected \in BOOLEAN
    /\ connected => connection > 0
    /\ diagnosis \in [Connections -> SUBSET Entities]
    /\ subscriptions \in [Entities -> Nat]
    /\ events \in 0..MaxEvents
    /\ event \in [Slots -> Events \cup {NoEvent}]
    /\ phase \in [UseCases -> [Slots -> Phases]]
    /\ target \in [UseCases -> [Slots -> Entities \cup {NoEntity}]]
    /\ \A u \in UseCases, s \in Slots :
         /\ phase[u][s] # "idle" => event[s] # NoEvent
         /\ phase[u][s] \in {"check", "subscribe"} => target[u][s] \in Entities
    /\ heartbeatDiag \in [UseCases -> Diagnoses]
    /\ heartbeatKeoWorkaround \in [UseCases -> BOOLEAN]
    /\ boundLate \in SUBSET Entities
    /\ changed \in BOOLEAN
    /\ overtaken \in BOOLEAN

\* Entities of a compatible type with a DeviceDiagnosis server.
Offering == diagnosis[connection] \cap Compatible

(* A device with one DeviceDiagnosis server is subscribed to once the handlers
   are done, whatever handlers of both use cases and of earlier connections
   did in between (deviceConnected, HasSubscription and Subscribe). *)
SubscribedWhenSingle ==
    connected /\ Settled /\ ~changed =>
        \A e \in Entities :
            Offering = {e} => HasSubscription(e)

(* With several servers, an entity that binds after the connection was handled
   is subscribed to once its binding is handled, also over reconnections
   (deviceConnected and subscribeHeartbeatWorkaround). *)
BoundLateSubscribed ==
    connected /\ Settled /\ ~changed =>
        \A e \in boundLate \cap Offering :
            Cardinality(Offering) > 1 => HasSubscription(e)

(* The look at the list of subscriptions and the change of it are separate, so
   an entity may be subscribed to more than once, but never more often than
   handlers ran at the same time, whatever binds again and reconnects
   (HasSubscription, Subscribe). *)
SubscribedOncePerHandler ==
    \A e \in Entities :
        subscriptions[e] <= Cardinality(UseCases) * Cardinality(Slots)

(* IsHeartbeatWithinDuration looks at the device object of the present
   connection, unless a handler is overtaken by a reconnection. *)
DiagnosisCurrent ==
    connected /\ Settled /\ ~changed /\ ~overtaken =>
        \A e \in Entities, u \in UseCases :
            Offering = {e} =>
                heartbeatDiag[u] = [connection |-> connection, entity |-> e]

=============================================================================
