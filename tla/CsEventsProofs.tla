---------------------------- MODULE CsEventsProofs ----------------------------
(***************************************************************************)
(* Theorems about CsEvents, for any number of use cases, entities,         *)
(* connections and goroutines.                                             *)
(***************************************************************************)
EXTENDS CsEvents, FiniteSetTheorems, TLAPS

-----------------------------------------------------------------------------
(* Types.                                                                  *)

\* A free slot holds no event; an event has a connection and, for a binding, an entity.
LEMMA NoEventIsNone ==
    /\ NoEvent \notin Events
    /\ \A v \in Events :
         /\ v.connection \in Connections
         /\ v.kind = "binding" => v.entity \in Entities
BY DEF NoEvent, Events

\* A handler that returns leaves an event behind for the others only.
LEMMA ReturnKeepsTypes ==
    ASSUME TypeOK, NEW u \in UseCases, NEW s \in Slots, Return(u, s)
    PROVE  /\ event' \in [Slots -> Events \cup {NoEvent}]
           /\ phase' \in [UseCases -> [Slots -> Phases]]
           /\ target' \in [UseCases -> [Slots -> Entities \cup {NoEntity}]]
           /\ \A v \in UseCases, t \in Slots :
                /\ phase'[v][t] # "idle" => event'[t] # NoEvent
                /\ phase'[v][t] \in {"check", "subscribe"} => target'[v][t] \in Entities
BY DEF TypeOK, Return, Goto, Phases

\* A published event occupies a slot no handler uses.
LEMMA PublishKeepsTypes ==
    ASSUME TypeOK, NEW kind, NEW c, NEW e, Publish(kind, c, e),
           [kind |-> kind, connection |-> c, entity |-> e] \in Events
    PROVE  /\ events' \in 0..MaxEvents
           /\ event' \in [Slots -> Events \cup {NoEvent}]
           /\ phase' \in [UseCases -> [Slots -> Phases]]
           /\ target' \in [UseCases -> [Slots -> Entities \cup {NoEntity}]]
           /\ \A v \in UseCases, t \in Slots :
                /\ phase'[v][t] # "idle" => event'[t] # NoEvent
                /\ phase'[v][t] \in {"check", "subscribe"} => target'[v][t] \in Entities
           /\ heartbeatDiag' \in [UseCases -> Diagnoses]
           /\ heartbeatKeoWorkaround' \in [UseCases -> BOOLEAN]
<1> DEFINE new == [kind |-> kind, connection |-> c, entity |-> e]
<1>1. PICK s \in Slots : /\ Free(s)
                         /\ event' = [event EXCEPT ![s] = new]
                         /\ phase' = [u \in UseCases |-> [phase[u] EXCEPT ![s] = "start"]]
  BY DEF Publish
<1>2. new \in Events /\ new # NoEvent
  BY NoEventIsNone
<1> HIDE DEF new
<1>3. events' \in 0..MaxEvents
  BY CsEventsAssumption DEF TypeOK, Publish
<1>4. event' \in [Slots -> Events \cup {NoEvent}]
  BY <1>1, <1>2 DEF TypeOK
<1>5. phase' \in [UseCases -> [Slots -> Phases]]
  BY <1>1 DEF TypeOK, Phases
<1>6. UNCHANGED <<target, heartbeatDiag, heartbeatKeoWorkaround>>
  BY DEF Publish, useCaseVars
<1>7. ASSUME NEW v \in UseCases, NEW t \in Slots
      PROVE  /\ phase'[v][t] # "idle" => event'[t] # NoEvent
             /\ phase'[v][t] \in {"check", "subscribe"} => target'[v][t] \in Entities
  BY <1>1, <1>2, <1>6 DEF TypeOK
<1> QED
  BY <1>3, <1>4, <1>5, <1>6, <1>7 DEF TypeOK

\* The handler goes on to look at the list of subscriptions.
LEMMA UseDiagnosisKeepsTypes ==
    ASSUME TypeOK, NEW u \in UseCases, NEW s \in Slots, NEW e \in Compatible,
           phase[u][s] = "start", UseDiagnosis(u, s, e)
    PROVE  /\ event' \in [Slots -> Events \cup {NoEvent}]
           /\ phase' \in [UseCases -> [Slots -> Phases]]
           /\ target' \in [UseCases -> [Slots -> Entities \cup {NoEntity}]]
           /\ \A v \in UseCases, t \in Slots :
                /\ phase'[v][t] # "idle" => event'[t] # NoEvent
                /\ phase'[v][t] \in {"check", "subscribe"} => target'[v][t] \in Entities
           /\ heartbeatDiag' \in [UseCases -> Diagnoses]
<1>1. e \in Entities
  BY CsEventsAssumption
<1>2. event[s] \in Events
  BY DEF TypeOK
<1>3. event[s].connection \in Connections
  BY <1>2, NoEventIsNone
<1>4. [connection |-> event[s].connection, entity |-> e] \in Diagnoses
  BY <1>3 DEF Diagnoses
<1>5. heartbeatDiag' \in [UseCases -> Diagnoses]
  BY <1>4 DEF UseDiagnosis, TypeOK
<1>6. /\ event' = event
      /\ phase' = [phase EXCEPT ![u][s] = "check"]
      /\ target' = [target EXCEPT ![u][s] = e]
  BY DEF UseDiagnosis, Goto
<1>7. /\ phase' \in [UseCases -> [Slots -> Phases]]
      /\ target' \in [UseCases -> [Slots -> Entities \cup {NoEntity}]]
  BY <1>1, <1>6 DEF TypeOK, Phases
<1>8. ASSUME NEW v \in UseCases, NEW t \in Slots
      PROVE  /\ phase'[v][t] # "idle" => event'[t] # NoEvent
             /\ phase'[v][t] \in {"check", "subscribe"} => target'[v][t] \in Entities
  BY <1>1, <1>6 DEF TypeOK
<1> QED
  BY <1>5, <1>6, <1>7, <1>8 DEF TypeOK

\* Types are kept by what the device does,
LEMMA DeviceKeepsTypes == TypeOK /\ Device => TypeOK'
<1> SUFFICES ASSUME TypeOK, Device PROVE TypeOK'
  OBVIOUS
<1>1. ASSUME NEW D \in DiagnosisSets, Connect(D) PROVE TypeOK'
  <2>1. connection + 1 \in Connections
    BY <1>1, CsEventsAssumption DEF Connect, TypeOK, Connections
  <2>2. [kind |-> "connected", connection |-> connection + 1, entity |-> NoEntity] \in Events
    BY <2>1 DEF Events
  <2>3. Publish("connected", connection + 1, NoEntity)
    BY <1>1 DEF Connect
  <2>4. /\ diagnosis' \in [Connections -> SUBSET Entities]
        /\ connection' \in 0..MaxConnections
        /\ connection' > 0
    BY <1>1, <2>1, CsEventsAssumption DEF Connect, TypeOK, Connections
  <2>5. overtaken' \in BOOLEAN
    BY <1>1 DEF Connect, TypeOK
  <2> QED
    BY <1>1, <2>2, <2>3, <2>4, <2>5, PublishKeepsTypes DEF Connect, TypeOK
<1>2. ASSUME NEW D \in DiagnosisSets, EntitiesChange(D) PROVE TypeOK'
  BY <1>2, CsEventsAssumption DEF EntitiesChange, TypeOK, handlerVars, useCaseVars
<1>3. CASE Disconnect
  BY <1>3 DEF Disconnect, TypeOK, NoSubscription, handlerVars, useCaseVars
<1>4. ASSUME NEW e \in Entities, Bind(e) PROVE TypeOK'
  <2>1. [kind |-> "binding", connection |-> connection, entity |-> e] \in Events
    BY <1>4 DEF Bind, TypeOK, Events, Connections
  <2>2. Publish("binding", connection, e)
    BY <1>4 DEF Bind
  <2>3. boundLate' \in SUBSET Entities
    BY <1>4 DEF Bind, TypeOK
  <2> QED
    BY <1>4, <2>1, <2>2, <2>3, PublishKeepsTypes DEF Bind, TypeOK, deviceVars
<1> QED
  BY <1>1, <1>2, <1>3, <1>4 DEF Device

\* and by the handlers.
LEMMA HandleKeepsTypes ==
    ASSUME TypeOK, NEW u \in UseCases, NEW s \in Slots, Handle(u, s)
    PROVE  TypeOK'
<1>1. CASE ConnectedSingle(u, s)
  <2>1. PICK e \in Entities : /\ DeviceDiagEntities(event[s].connection) = {e}
                              /\ UseDiagnosis(u, s, e)
    BY <1>1 DEF ConnectedSingle
  <2>2. e \in Compatible
    BY <2>1 DEF DeviceDiagEntities
  <2> QED
    BY <1>1, <2>1, <2>2, UseDiagnosisKeepsTypes
       DEF ConnectedSingle, At, TypeOK, deviceVars, historyVars
<1>2. CASE ConnectedNone(u, s)
  BY <1>2, ReturnKeepsTypes
     DEF ConnectedNone, At, TypeOK, deviceVars, historyVars, useCaseVars
<1>3. CASE ConnectedSeveral(u, s)
  BY <1>3, ReturnKeepsTypes DEF ConnectedSeveral, At, TypeOK, deviceVars, historyVars
<1>4. CASE Binding(u, s)
  <2>1. event[s].entity \in Compatible
    BY <1>4 DEF Binding, Subscribes
  <2> QED
    BY <1>4, <2>1, UseDiagnosisKeepsTypes
       DEF Binding, At, TypeOK, deviceVars, historyVars
<1>5. CASE BindingIgnored(u, s)
  BY <1>5, ReturnKeepsTypes
     DEF BindingIgnored, At, TypeOK, deviceVars, historyVars, useCaseVars
<1>6. CASE Check(u, s)
  <2>1. CASE HasSubscription(target[u][s])
    BY <1>6, <2>1, ReturnKeepsTypes
       DEF Check, At, TypeOK, deviceVars, historyVars, useCaseVars
  <2>2. CASE ~HasSubscription(target[u][s])
    <3>1. /\ phase' = [phase EXCEPT ![u][s] = "subscribe"]
          /\ phase[u][s] = "check"
          /\ UNCHANGED <<events, event, target>>
      BY <1>6, <2>2 DEF Check, At, Goto
    <3>2. phase' \in [UseCases -> [Slots -> Phases]]
      BY <3>1 DEF TypeOK, Phases
    <3>3. ASSUME NEW v \in UseCases, NEW t \in Slots
          PROVE  /\ phase'[v][t] # "idle" => event'[t] # NoEvent
                 /\ phase'[v][t] \in {"check", "subscribe"} => target'[v][t] \in Entities
      BY <3>1 DEF TypeOK
    <3> QED
      BY <1>6, <3>1, <3>2, <3>3
         DEF Check, At, TypeOK, deviceVars, historyVars, useCaseVars
  <2> QED
    BY <2>1, <2>2
<1>7. CASE Subscribe(u, s)
  <2>1. subscriptions' \in [Entities -> Nat]
    BY <1>7 DEF Subscribe, At, TypeOK
  <2> QED
    BY <1>7, <2>1, ReturnKeepsTypes
       DEF Subscribe, At, TypeOK, deviceVars, historyVars, useCaseVars
<1> QED
  BY <1>1, <1>2, <1>3, <1>4, <1>5, <1>6, <1>7 DEF Handle

(* Every variable has its type in every state; a diagnosis never belongs to an
   entity of another type than IsCompatibleEntityType admits. *)
THEOREM TypeCorrect == Spec => []TypeOK
<1>1. Init => TypeOK
  <2> SUFFICES ASSUME Init PROVE TypeOK
    OBVIOUS
  <2>1. 0 \in 0..MaxConnections /\ 0 \in 0..MaxEvents
    BY CsEventsAssumption
  <2>2. /\ subscriptions \in [Entities -> Nat]
        /\ phase \in [UseCases -> [Slots -> Phases]]
        /\ target \in [UseCases -> [Slots -> Entities \cup {NoEntity}]]
    BY DEF Init, NoSubscription, Phases
  <2>3. heartbeatDiag \in [UseCases -> Diagnoses]
    BY DEF Init, Diagnoses
  <2>4. event \in [Slots -> Events \cup {NoEvent}]
    BY DEF Init
  <2> QED
    BY <2>1, <2>2, <2>3, <2>4 DEF Init, TypeOK
<1>2. TypeOK /\ [Next]_vars => TypeOK'
  <2>1. TypeOK /\ UNCHANGED vars => TypeOK'
    BY DEF TypeOK, vars, deviceVars, handlerVars, useCaseVars, historyVars
  <2> QED
    BY <2>1, DeviceKeepsTypes, HandleKeepsTypes DEF Next
<1> QED
  BY <1>1, <1>2, PTL DEF Spec

-----------------------------------------------------------------------------
(* The subscription to a single DeviceDiagnosis server.                    *)

\* A handler that has still to subscribe to entity e, or to find that it is.
Underway(u, s, e) ==
    \/ /\ phase[u][s] = "start"
       /\ event[s].kind = "connected"
       /\ event[s].connection = connection
    \/ /\ phase[u][s] \in {"check", "subscribe"}
       /\ target[u][s] = e

\* Until the one server is subscribed to, some handler is about to do it.
SingleInv ==
    connected /\ ~changed =>
        \A e \in Entities : Offering = {e} =>
            \/ HasSubscription(e)
            \/ \E u \in UseCases, s \in Slots : Underway(u, s, e)

\* The invariant of a single server is kept by what the device does,
LEMMA DeviceKeepsSingle == TypeOK /\ SingleInv /\ Device => SingleInv'
<1> SUFFICES ASSUME TypeOK, SingleInv, Device, connected', ~changed',
                    NEW e \in Entities, Offering' = {e}, ~HasSubscription(e)'
             PROVE  \E u \in UseCases, s \in Slots : Underway(u, s, e)'
  BY DEF SingleInv
<1>1. ASSUME NEW D \in DiagnosisSets, Connect(D)
      PROVE  \E u \in UseCases, s \in Slots : Underway(u, s, e)'
  <2>1. connection' = connection + 1
    BY <1>1 DEF Connect
  <2>2. PICK s \in Slots :
            /\ event' = [event EXCEPT ![s] =
                 [kind |-> "connected", connection |-> connection + 1, entity |-> NoEntity]]
            /\ phase' = [u \in UseCases |-> [phase[u] EXCEPT ![s] = "start"]]
    BY <1>1 DEF Connect, Publish
  <2>3. PICK u \in UseCases : TRUE
    BY CsEventsAssumption
  <2>4. phase'[u][s] = "start"
    BY <2>2 DEF TypeOK
  <2>5. event'[s].kind = "connected" /\ event'[s].connection = connection'
    BY <2>1, <2>2 DEF TypeOK
  <2> QED
    BY <2>4, <2>5 DEF Underway
<1>2. ASSUME NEW D \in DiagnosisSets, EntitiesChange(D) PROVE FALSE
  BY <1>2 DEF EntitiesChange
<1>3. CASE Disconnect
  BY <1>3 DEF Disconnect
<1>4. ASSUME NEW b \in Entities, Bind(b)
      PROVE  \E u \in UseCases, s \in Slots : Underway(u, s, e)'
  <2>1. /\ connected /\ ~changed
        /\ UNCHANGED <<connection, diagnosis, subscriptions, target>>
    BY <1>4 DEF Bind, Publish, deviceVars
  <2>2. Offering = {e} /\ ~HasSubscription(e)
    BY <2>1 DEF Offering, HasSubscription
  <2>3. PICK u \in UseCases, s \in Slots : Underway(u, s, e)
    BY <2>1, <2>2 DEF SingleInv
  <2>4. PICK t \in Slots :
            /\ Free(t)
            /\ event' = [event EXCEPT ![t] =
                 [kind |-> "binding", connection |-> connection, entity |-> b]]
            /\ phase' = [v \in UseCases |-> [phase[v] EXCEPT ![t] = "start"]]
    BY <1>4 DEF Bind, Publish
  <2>5. s # t
    BY <2>3, <2>4 DEF Underway, Free
  <2>6. event'[s] = event[s] /\ phase'[u][s] = phase[u][s]
    BY <2>4, <2>5 DEF TypeOK
  <2>7. Underway(u, s, e)'
    BY <2>1, <2>3, <2>6 DEF Underway
  <2> QED
    BY <2>7
<1> QED
  BY <1>1, <1>2, <1>3, <1>4 DEF Device

\* A handler that returns leaves the other handlers and their events alone.
LEMMA ReturnKeepsOthers ==
    ASSUME TypeOK, NEW u \in UseCases, NEW s \in Slots, Return(u, s),
           NEW v \in UseCases, NEW t \in Slots, <<v, t>> # <<u, s>>,
           phase[v][t] # "idle"
    PROVE  /\ phase'[v][t] = phase[v][t]
           /\ target'[v][t] = target[v][t]
           /\ event'[t] = event[t]
BY DEF TypeOK, Return, Goto

\* and by the handlers.
LEMMA HandleKeepsSingle ==
    ASSUME TypeOK, SingleInv, NEW u \in UseCases, NEW s \in Slots, Handle(u, s)
    PROVE  SingleInv'
<1>1. UNCHANGED <<connection, connected, diagnosis, changed>>
  BY DEF Handle, ConnectedSingle, ConnectedNone, ConnectedSeveral, Binding,
         BindingIgnored, Check, Subscribe, At, deviceVars, historyVars
<1>2. SUFFICES ASSUME connected, ~changed,
                      NEW e \in Entities, Offering = {e}, ~HasSubscription(e)'
               PROVE  \E v \in UseCases, t \in Slots : Underway(v, t, e)'
  BY <1>1 DEF SingleInv, Offering
<1>3. ~HasSubscription(e)
  <2>1. CASE UNCHANGED subscriptions
    BY <1>2, <2>1 DEF HasSubscription
  <2>2. CASE Subscribe(u, s)
    BY <1>2, <2>2 DEF Subscribe, HasSubscription, TypeOK
  <2> QED
    BY <2>1, <2>2 DEF Handle, ConnectedSingle, ConnectedNone, ConnectedSeveral,
                      Binding, BindingIgnored, Check
<1>4. PICK v \in UseCases, t \in Slots : Underway(v, t, e)
  BY <1>2, <1>3 DEF SingleInv
<1>5. phase[v][t] # "idle"
  BY <1>4 DEF Underway
<1>6. CASE <<v, t>> # <<u, s>>
  <2>1. CASE Return(u, s)
    BY <1>1, <1>4, <1>5, <1>6, <2>1, ReturnKeepsOthers DEF Underway
  <2>2. ASSUME NEW d \in Entities, UseDiagnosis(u, s, d)
        PROVE  Underway(v, t, e)'
    <3>1. phase'[v][t] = phase[v][t] /\ target'[v][t] = target[v][t]
      BY <1>6, <2>2 DEF TypeOK, UseDiagnosis, Goto
    <3> QED
      BY <1>1, <1>4, <2>2, <3>1 DEF Underway, UseDiagnosis
  <2>3. CASE Goto(u, s, "subscribe") /\ UNCHANGED <<event, target>>
    <3>1. phase'[v][t] = phase[v][t]
      BY <1>6, <2>3 DEF TypeOK, Goto
    <3> QED
      BY <1>1, <1>4, <2>3, <3>1 DEF Underway
  <2>4. Binding(u, s) => event[s].entity \in Entities
    BY CsEventsAssumption DEF Binding, Subscribes
  <2> QED
    BY <2>1, <2>2, <2>3, <2>4
       DEF Handle, ConnectedSingle, ConnectedNone, ConnectedSeveral, Binding,
           BindingIgnored, Check, Subscribe
<1>7. CASE v = u /\ t = s
  <2>0. phase[u][s] = "start" =>
            /\ event[s].kind = "connected"
            /\ DeviceDiagEntities(event[s].connection) = {e}
    BY <1>2, <1>4, <1>7 DEF Underway, DeviceDiagEntities, Offering
  <2>1. CASE ConnectedSingle(u, s)
    <3>1. UseDiagnosis(u, s, e)
      BY <2>0, <2>1 DEF ConnectedSingle, At
    <3>2. phase'[u][s] = "check" /\ target'[u][s] = e
      BY <3>1 DEF UseDiagnosis, Goto, TypeOK
    <3> QED
      BY <3>2 DEF Underway
  <2>2. CASE ConnectedNone(u, s)
    BY <2>0, <2>2 DEF ConnectedNone, At
  <2>3. CASE ConnectedSeveral(u, s)
    <3>1. Cardinality({e}) = 1
      BY FS_Singleton
    <3>2. Cardinality(DeviceDiagEntities(event[s].connection)) = 1
      BY <2>0, <2>3, <3>1 DEF ConnectedSeveral, At
    <3> QED
      BY <2>3, <3>2 DEF ConnectedSeveral
  <2>4. CASE Binding(u, s) \/ BindingIgnored(u, s)
    BY <2>0, <2>4 DEF Binding, BindingIgnored, At
  <2>5. CASE Check(u, s)
    <3>1. phase[u][s] = "check" /\ target[u][s] = e
      BY <1>4, <1>7, <2>5 DEF Check, At, Underway
    <3>2. phase'[u][s] = "subscribe" /\ target'[u][s] = e
      BY <1>3, <2>5, <3>1 DEF Check, Goto, TypeOK
    <3> QED
      BY <3>2 DEF Underway
  <2>6. CASE Subscribe(u, s)
    <3>1. target[u][s] = e
      BY <1>4, <1>7, <2>6 DEF Subscribe, At, Underway
    <3>2. subscriptions'[e] = subscriptions[e] + 1
      BY <1>2, <2>6, <3>1 DEF Subscribe, TypeOK
    <3>3. subscriptions[e] \in Nat
      BY DEF TypeOK
    <3> QED
      BY <1>2, <3>2, <3>3 DEF HasSubscription
  <2> QED
    BY <2>1, <2>2, <2>3, <2>4, <2>5, <2>6 DEF Handle
<1> QED
  BY <1>6, <1>7

(* A device with one DeviceDiagnosis server is subscribed to once the handlers
   are done, however those of several use cases and connections interleave. *)
THEOREM SubscribedWhenSingleHolds == Spec => []SubscribedWhenSingle
<1>1. Init => SingleInv
  BY DEF Init, SingleInv
<1>2. TypeOK /\ SingleInv /\ [Next]_vars => SingleInv'
  <2>1. SingleInv /\ UNCHANGED vars => SingleInv'
    BY DEF SingleInv, Underway, Offering, HasSubscription, vars, deviceVars,
           handlerVars, useCaseVars, historyVars
  <2> QED
    BY <2>1, DeviceKeepsSingle, HandleKeepsSingle DEF Next
<1>3. SingleInv => SubscribedWhenSingle
  BY DEF SingleInv, SubscribedWhenSingle, Settled, Free, Underway
<1> QED
  BY <1>1, <1>2, <1>3, TypeCorrect, PTL DEF Spec

-----------------------------------------------------------------------------
(* Steps of the handlers, for the invariants below.                        *)

\* A step of one handler leaves the other handlers and their events alone, and
\* the device where it is.
LEMMA HandleKeepsOthers ==
    ASSUME TypeOK, NEW u \in UseCases, NEW s \in Slots, Handle(u, s)
    PROVE  /\ UNCHANGED <<connection, connected, diagnosis, changed, boundLate, overtaken>>
           /\ phase[u][s] # "idle"
           /\ \A v \in UseCases, t \in Slots :
                <<v, t>> # <<u, s>> =>
                    /\ phase'[v][t] = phase[v][t]
                    /\ target'[v][t] = target[v][t]
                    /\ phase[v][t] # "idle" => event'[t] = event[t]
<1>1. /\ UNCHANGED <<connection, connected, diagnosis, changed, boundLate, overtaken>>
      /\ phase[u][s] # "idle"
  BY DEF Handle, ConnectedSingle, ConnectedNone, ConnectedSeveral, Binding,
         BindingIgnored, Check, Subscribe, At, deviceVars, historyVars
<1>2. SUFFICES ASSUME NEW v \in UseCases, NEW t \in Slots, <<v, t>> # <<u, s>>
               PROVE  /\ phase'[v][t] = phase[v][t]
                      /\ target'[v][t] = target[v][t]
                      /\ phase[v][t] # "idle" => event'[t] = event[t]
  BY <1>1
<1>3. CASE Return(u, s)
  BY <1>2, <1>3 DEF TypeOK, Return, Goto
<1>4. ASSUME NEW d \in Entities, UseDiagnosis(u, s, d)
      PROVE  /\ phase'[v][t] = phase[v][t]
             /\ target'[v][t] = target[v][t]
             /\ event'[t] = event[t]
  BY <1>2, <1>4 DEF TypeOK, UseDiagnosis, Goto
<1>5. CASE Goto(u, s, "subscribe") /\ UNCHANGED <<event, target>>
  BY <1>2, <1>5 DEF TypeOK, Goto
<1>6. Binding(u, s) => event[s].entity \in Entities
  BY CsEventsAssumption DEF Binding, Subscribes
<1> QED
  BY <1>3, <1>4, <1>5, <1>6
     DEF Handle, ConnectedSingle, ConnectedNone, ConnectedSeveral, Binding,
         BindingIgnored, Check, Subscribe

\* A published event occupies one free slot, for all use cases.
LEMMA PublishKeepsOthers ==
    ASSUME TypeOK, NEW kind, NEW c, NEW e, Publish(kind, c, e)
    PROVE  /\ UNCHANGED <<target, heartbeatDiag, heartbeatKeoWorkaround>>
           /\ \E s \in Slots :
                /\ Free(s)
                /\ event'[s] = [kind |-> kind, connection |-> c, entity |-> e]
                /\ \A u \in UseCases : phase'[u][s] = "start"
                /\ \A t \in Slots \ {s} : /\ event'[t] = event[t]
                                         /\ \A u \in UseCases : phase'[u][t] = phase[u][t]
<1>1. PICK s \in Slots :
        /\ Free(s)
        /\ event' = [event EXCEPT ![s] = [kind |-> kind, connection |-> c, entity |-> e]]
        /\ phase' = [u \in UseCases |-> [phase[u] EXCEPT ![s] = "start"]]
  BY DEF Publish
<1>2. /\ event'[s] = [kind |-> kind, connection |-> c, entity |-> e]
      /\ \A u \in UseCases : phase'[u][s] = "start"
      /\ \A t \in Slots \ {s} : /\ event'[t] = event[t]
                               /\ \A u \in UseCases : phase'[u][t] = phase[u][t]
  BY <1>1 DEF TypeOK
<1> QED
  BY <1>1, <1>2 DEF Publish, useCaseVars

-----------------------------------------------------------------------------
(* Several DeviceDiagnosis servers.                                        *)

\* The event of the present connection that a use case has still to handle.
Connecting(u, s) ==
    /\ phase[u][s] = "start"
    /\ event[s].kind = "connected"
    /\ event[s].connection = connection

\* A handler that has still to subscribe to the entity that bound.
UnderwayBound(u, s, e) ==
    \/ /\ phase[u][s] = "start"
       /\ event[s].kind = "binding"
       /\ event[s].connection = connection
       /\ event[s].entity = e
       /\ heartbeatKeoWorkaround[u]
    \/ /\ phase[u][s] \in {"check", "subscribe"}
       /\ target[u][s] = e

\* The use cases wait for the binding once they handled the connection, and an entity
\* that binds from then on has a handler until it is subscribed to.
SeveralInv ==
    /\ ~connected => boundLate = {}
    /\ connected /\ ~changed /\ Cardinality(Offering) > 1 =>
         /\ \A u \in UseCases :
              heartbeatKeoWorkaround[u] \/ \E s \in Slots : Connecting(u, s)
         /\ \A e \in boundLate \cap Offering :
              \/ HasSubscription(e)
              \/ \E u \in UseCases, s \in Slots : UnderwayBound(u, s, e)

\* The number of servers when there is none and when there is one.
LEMMA OneOrNoneOffering ==
    /\ Cardinality({}) = 0
    /\ \A e : Cardinality({e}) = 1
BY FS_EmptySet, FS_Singleton

\* The invariant of several servers is kept by what the device does,
LEMMA DeviceKeepsSeveral == TypeOK /\ SeveralInv /\ Device => SeveralInv'
<1> SUFFICES ASSUME TypeOK, SeveralInv, Device PROVE SeveralInv'
  OBVIOUS
<1>1. ASSUME NEW D \in DiagnosisSets, Connect(D) PROVE SeveralInv'
  <2>1. /\ ~connected /\ connected' /\ boundLate' = boundLate
        /\ connection' = connection + 1
        /\ Publish("connected", connection + 1, NoEntity)
    BY <1>1 DEF Connect
  <2>2. boundLate' = {}
    BY <2>1 DEF SeveralInv
  <2>3. PICK c : c = connection + 1
    OBVIOUS
  <2>4. PICK s \in Slots :
          /\ event'[s] = [kind |-> "connected", connection |-> c, entity |-> NoEntity]
          /\ \A u \in UseCases : phase'[u][s] = "start"
    BY <2>1, <2>3, PublishKeepsOthers
  <2>5. \A u \in UseCases : Connecting(u, s)'
    BY <2>1, <2>3, <2>4 DEF Connecting
  <2> QED
    BY <2>1, <2>2, <2>5 DEF SeveralInv
<1>2. ASSUME NEW D \in DiagnosisSets, EntitiesChange(D) PROVE SeveralInv'
  BY <1>2 DEF EntitiesChange, SeveralInv
<1>3. CASE Disconnect
  BY <1>3 DEF Disconnect, SeveralInv
<1>4. ASSUME NEW b \in Entities, Bind(b) PROVE SeveralInv'
  <2>1. /\ connected /\ UNCHANGED <<connected, changed, connection, diagnosis, subscriptions>>
        /\ Publish("binding", connection, b)
        /\ boundLate' = IF Settled THEN boundLate \cup {b} ELSE boundLate
    BY <1>4 DEF Bind, deviceVars
  <2>2. PICK c : c = connection
    OBVIOUS
  <2>3. UNCHANGED <<target, heartbeatDiag, heartbeatKeoWorkaround>>
    BY <2>1, PublishKeepsOthers
  <2>4. PICK s \in Slots :
          /\ Free(s)
          /\ event'[s] = [kind |-> "binding", connection |-> c, entity |-> b]
          /\ \A u \in UseCases : phase'[u][s] = "start"
          /\ \A t \in Slots \ {s} : /\ event'[t] = event[t]
                                   /\ \A u \in UseCases : phase'[u][t] = phase[u][t]
    BY <2>1, <2>2, PublishKeepsOthers
  <2>5. SUFFICES ASSUME ~changed, Cardinality(Offering) > 1
                 PROVE  /\ \A u \in UseCases :
                             heartbeatKeoWorkaround[u] \/ \E t \in Slots : Connecting(u, t)'
                        /\ \A e \in boundLate' \cap Offering :
                             \/ HasSubscription(e)
                             \/ \E u \in UseCases, t \in Slots : UnderwayBound(u, t, e)'
    BY <2>1, <2>3 DEF SeveralInv, Offering, HasSubscription
  <2>6. /\ \A u \in UseCases :
             heartbeatKeoWorkaround[u] \/ \E t \in Slots : Connecting(u, t)
        /\ \A e \in boundLate \cap Offering :
             \/ HasSubscription(e)
             \/ \E u \in UseCases, t \in Slots : UnderwayBound(u, t, e)
    BY <2>1, <2>5 DEF SeveralInv
  <2>7. \A u \in UseCases, t \in Slots : phase[u][t] # "idle" => t # s
    BY <2>4 DEF Free
  <2>8. \A u \in UseCases, t \in Slots : Connecting(u, t) => Connecting(u, t)'
    BY <2>1, <2>4, <2>7 DEF Connecting
  <2>9. \A u \in UseCases, t \in Slots, e \in Entities :
           UnderwayBound(u, t, e) => UnderwayBound(u, t, e)'
    BY <2>1, <2>3, <2>4, <2>7 DEF UnderwayBound
  <2>10. ASSUME Settled PROVE \E u \in UseCases, t \in Slots : UnderwayBound(u, t, b)'
    <3>1. \A u \in UseCases : heartbeatKeoWorkaround[u]
      BY <2>6, <2>10 DEF Settled, Free, Connecting
    <3>2. PICK u \in UseCases : TRUE
      BY CsEventsAssumption
    <3>3. UnderwayBound(u, s, b)'
      BY <2>1, <2>2, <2>3, <2>4, <3>1 DEF UnderwayBound
    <3> QED
      BY <3>3
  <2>11. \A e \in boundLate' \cap Offering :
           \/ HasSubscription(e)
           \/ \E u \in UseCases, t \in Slots : UnderwayBound(u, t, e)'
    BY <2>1, <2>6, <2>9, <2>10 DEF Offering, TypeOK
  <2> QED
    BY <2>6, <2>8, <2>11
<1> QED
  BY <1>1, <1>2, <1>3, <1>4 DEF Device

\* and by the handlers.
LEMMA HandleKeepsSeveral ==
    ASSUME TypeOK, SeveralInv, NEW u \in UseCases, NEW s \in Slots, Handle(u, s)
    PROVE  SeveralInv'
<1>1. /\ UNCHANGED <<connection, connected, diagnosis, changed, boundLate>>
      /\ phase[u][s] # "idle"
      /\ \A v \in UseCases, t \in Slots :
           <<v, t>> # <<u, s>> =>
               /\ phase'[v][t] = phase[v][t]
               /\ target'[v][t] = target[v][t]
               /\ phase[v][t] # "idle" => event'[t] = event[t]
  BY HandleKeepsOthers
<1>2. SUFFICES ASSUME connected, ~changed, Cardinality(Offering) > 1
               PROVE  /\ \A v \in UseCases :
                           heartbeatKeoWorkaround'[v] \/ \E t \in Slots : Connecting(v, t)'
                      /\ \A e \in boundLate \cap Offering :
                           \/ HasSubscription(e)'
                           \/ \E v \in UseCases, t \in Slots : UnderwayBound(v, t, e)'
  BY <1>1 DEF SeveralInv, Offering
<1>3. /\ \A v \in UseCases :
           heartbeatKeoWorkaround[v] \/ \E t \in Slots : Connecting(v, t)
      /\ \A e \in boundLate \cap Offering :
           \/ HasSubscription(e)
           \/ \E v \in UseCases, t \in Slots : UnderwayBound(v, t, e)
  BY <1>2 DEF SeveralInv
<1>4. \A v \in UseCases : heartbeatKeoWorkaround[v] => heartbeatKeoWorkaround'[v]
  BY DEF TypeOK, Handle, ConnectedSingle, ConnectedNone, ConnectedSeveral, Binding,
         BindingIgnored, Check, Subscribe, useCaseVars
<1>5. \A v \in UseCases, t \in Slots : <<v, t>> # <<u, s>> /\ Connecting(v, t) => Connecting(v, t)'
  BY <1>1 DEF Connecting
<1>6. Connecting(u, s) => heartbeatKeoWorkaround'[u]
  <2>1. SUFFICES ASSUME Connecting(u, s) PROVE heartbeatKeoWorkaround'[u]
    OBVIOUS
  <2>2. DeviceDiagEntities(event[s].connection) = Offering
    BY <2>1 DEF Connecting, DeviceDiagEntities, Offering
  <2>3. ~ConnectedSingle(u, s) /\ ~ConnectedNone(u, s)
    <3>1. ASSUME Offering = {} PROVE FALSE
      <4>1. Cardinality(Offering) = 0
        BY ONLY <3>1, OneOrNoneOffering
      <4> QED
        BY ONLY <1>2, <4>1
    <3>2. ASSUME NEW e \in Entities, Offering = {e} PROVE FALSE
      <4>1. Cardinality(Offering) = 1
        BY ONLY <3>2, OneOrNoneOffering
      <4> QED
        BY ONLY <1>2, <4>1
    <3> QED
      BY <2>2, <3>1, <3>2 DEF ConnectedSingle, ConnectedNone
  <2>4. ConnectedSeveral(u, s)
    BY <2>1, <2>3 DEF Connecting, Handle, Binding, BindingIgnored, Check, Subscribe, At
  <2> QED
    BY <2>4 DEF ConnectedSeveral, TypeOK
<1>7. \A v \in UseCases :
         heartbeatKeoWorkaround'[v] \/ \E t \in Slots : Connecting(v, t)'
  BY <1>3, <1>4, <1>5, <1>6
<1>8. \A e \in Entities : HasSubscription(e) => HasSubscription(e)'
  BY <1>2 DEF TypeOK, HasSubscription, Handle, ConnectedSingle, ConnectedNone,
              ConnectedSeveral, Binding, BindingIgnored, Check, Subscribe
<1>9. \A v \in UseCases, t \in Slots, e \in Entities :
         <<v, t>> # <<u, s>> /\ UnderwayBound(v, t, e) => UnderwayBound(v, t, e)'
  BY <1>1, <1>4 DEF UnderwayBound
<1>10. ASSUME NEW e \in boundLate \cap Offering, UnderwayBound(u, s, e)
       PROVE  HasSubscription(e)' \/ UnderwayBound(u, s, e)'
  <2>1. e \in Entities /\ e \in Compatible /\ e \in diagnosis[connection]
    BY DEF Offering, TypeOK
  <2>2. CASE phase[u][s] = "start"
    <3>1. /\ event[s].kind = "binding" /\ event[s].connection = connection
          /\ event[s].entity = e /\ heartbeatKeoWorkaround[u]
      BY <1>10, <2>2 DEF UnderwayBound
    <3>2. Subscribes(u, s)
      BY <2>1, <3>1 DEF Subscribes
    <3>3. UseDiagnosis(u, s, e)
      BY <2>2, <3>1, <3>2 DEF Handle, ConnectedSingle, ConnectedNone, ConnectedSeveral,
                              Binding, BindingIgnored, Check, Subscribe, At
    <3>4. phase'[u][s] = "check" /\ target'[u][s] = e
      BY <2>1, <3>3 DEF UseDiagnosis, Goto, TypeOK
    <3> QED
      BY <3>4 DEF UnderwayBound
  <2>3. CASE phase[u][s] = "check"
    <3>1. target[u][s] = e /\ Check(u, s)
      BY <1>10, <2>3 DEF UnderwayBound, Handle, ConnectedSingle, ConnectedNone,
                         ConnectedSeveral, Binding, BindingIgnored, Subscribe, At
    <3>2. CASE HasSubscription(e)
      BY <1>8, <2>1, <3>2
    <3>3. CASE ~HasSubscription(e)
      <4>1. phase'[u][s] = "subscribe" /\ target'[u][s] = e
        BY <3>1, <3>3 DEF Check, Goto, TypeOK
      <4> QED
        BY <4>1 DEF UnderwayBound
    <3> QED
      BY <3>2, <3>3
  <2>4. CASE phase[u][s] = "subscribe"
    <3>1. target[u][s] = e /\ Subscribe(u, s)
      BY <1>10, <2>4 DEF UnderwayBound, Handle, ConnectedSingle, ConnectedNone,
                         ConnectedSeveral, Binding, BindingIgnored, Check, At
    <3>2. subscriptions'[e] = subscriptions[e] + 1 /\ subscriptions[e] \in Nat
      BY <1>2, <2>1, <3>1 DEF Subscribe, TypeOK
    <3> QED
      BY <3>2 DEF HasSubscription
  <2> QED
    BY <1>10, <2>2, <2>3, <2>4 DEF UnderwayBound
<1>11. \A e \in boundLate \cap Offering : e \in Entities
  BY DEF TypeOK
<1>12. \A e \in boundLate \cap Offering :
         \/ HasSubscription(e)'
         \/ \E v \in UseCases, t \in Slots : UnderwayBound(v, t, e)'
  BY <1>3, <1>8, <1>9, <1>10, <1>11
<1> QED
  BY <1>7, <1>12

(* An entity that binds after the connection was handled is subscribed to once its
   binding is handled, however the handlers of the use cases and of several
   bindings interleave. *)
THEOREM BoundLateSubscribedHolds == Spec => []BoundLateSubscribed
<1>1. Init => SeveralInv
  BY DEF Init, SeveralInv
<1>2. TypeOK /\ SeveralInv /\ [Next]_vars => SeveralInv'
  <2>1. SeveralInv /\ UNCHANGED vars => SeveralInv'
    BY DEF SeveralInv, Connecting, UnderwayBound, Offering, HasSubscription, vars,
           deviceVars, handlerVars, useCaseVars, historyVars
  <2> QED
    BY <2>1, DeviceKeepsSeveral, HandleKeepsSeveral DEF Next
<1>3. SeveralInv => BoundLateSubscribed
  BY DEF SeveralInv, BoundLateSubscribed, Settled, Free, UnderwayBound
<1> QED
  BY <1>1, <1>2, <1>3, TypeCorrect, PTL DEF Spec

-----------------------------------------------------------------------------
(* The diagnosis of the present connection.                                *)

\* Unless a connection overtook a handler, every handler belongs to the present one,
\* and gives its use case the one server of the device, or has still to.
DiagnosisInv ==
    ~overtaken =>
        /\ \A u \in UseCases, s \in Slots :
             phase[u][s] # "idle" => event[s].connection = connection
        /\ connected /\ ~changed =>
             \A e \in Entities, u \in UseCases : Offering = {e} =>
                \/ heartbeatDiag[u] = [connection |-> connection, entity |-> e]
                \/ \E s \in Slots : Connecting(u, s)

\* The invariant of the heartbeat source is kept by what the device does,
LEMMA DeviceKeepsDiagnosis == TypeOK /\ DiagnosisInv /\ Device => DiagnosisInv'
<1> SUFFICES ASSUME TypeOK, DiagnosisInv, Device, ~overtaken'
             PROVE  /\ \A u \in UseCases, s \in Slots :
                         phase'[u][s] # "idle" => event'[s].connection = connection'
                    /\ connected' /\ ~changed' =>
                         \A e \in Entities, u \in UseCases : Offering' = {e} =>
                            \/ heartbeatDiag'[u] = [connection |-> connection', entity |-> e]
                            \/ \E s \in Slots : Connecting(u, s)'
  BY DEF DiagnosisInv
<1>1. ASSUME NEW D \in DiagnosisSets, Connect(D)
      PROVE  /\ \A u \in UseCases, s \in Slots :
                  phase'[u][s] # "idle" => event'[s].connection = connection'
             /\ \A u \in UseCases : \E s \in Slots : Connecting(u, s)'
  <2>1. /\ Settled /\ connection' = connection + 1
        /\ Publish("connected", connection + 1, NoEntity)
    BY <1>1 DEF Connect, TypeOK
  <2>2. PICK c : c = connection + 1
    OBVIOUS
  <2>3. PICK s \in Slots :
          /\ event'[s] = [kind |-> "connected", connection |-> c, entity |-> NoEntity]
          /\ \A u \in UseCases : phase'[u][s] = "start"
          /\ \A t \in Slots \ {s} : \A u \in UseCases : phase'[u][t] = phase[u][t]
    BY <2>1, <2>2, PublishKeepsOthers
  <2>4. \A u \in UseCases, t \in Slots : phase'[u][t] # "idle" => t = s
    BY <2>1, <2>3 DEF Settled, Free
  <2>5. \A u \in UseCases : Connecting(u, s)'
    BY <2>1, <2>2, <2>3 DEF Connecting
  <2> QED
    BY <2>1, <2>2, <2>3, <2>4, <2>5
<1>2. ASSUME NEW D \in DiagnosisSets, EntitiesChange(D)
      PROVE  /\ \A u \in UseCases, s \in Slots :
                  phase'[u][s] # "idle" => event'[s].connection = connection'
             /\ changed'
  BY <1>2 DEF EntitiesChange, handlerVars, DiagnosisInv
<1>3. CASE Disconnect
  BY <1>3 DEF Disconnect, handlerVars, DiagnosisInv
<1>4. ASSUME NEW b \in Entities, Bind(b)
      PROVE  /\ \A u \in UseCases, s \in Slots :
                  phase'[u][s] # "idle" => event'[s].connection = connection'
             /\ connected' /\ ~changed' =>
                  \A e \in Entities, u \in UseCases : Offering' = {e} =>
                     \/ heartbeatDiag'[u] = [connection |-> connection', entity |-> e]
                     \/ \E s \in Slots : Connecting(u, s)'
  <2>1. /\ UNCHANGED <<connected, changed, connection, diagnosis, overtaken>>
        /\ Publish("binding", connection, b)
    BY <1>4 DEF Bind, deviceVars
  <2>2. PICK c : c = connection
    OBVIOUS
  <2>3. UNCHANGED heartbeatDiag
    BY <2>1, PublishKeepsOthers
  <2>4. PICK s \in Slots :
          /\ Free(s)
          /\ event'[s] = [kind |-> "binding", connection |-> c, entity |-> b]
          /\ \A t \in Slots \ {s} : /\ event'[t] = event[t]
                                   /\ \A u \in UseCases : phase'[u][t] = phase[u][t]
    BY <2>1, <2>2, PublishKeepsOthers
  <2>5. \A u \in UseCases, t \in Slots : Connecting(u, t) => Connecting(u, t)'
    BY <2>1, <2>4 DEF Connecting, Free
  <2>6. \A u \in UseCases, t \in Slots :
           phase'[u][t] # "idle" => event'[t].connection = connection'
    BY <2>1, <2>2, <2>4 DEF DiagnosisInv
  <2> QED
    BY <2>1, <2>3, <2>5, <2>6 DEF DiagnosisInv, Offering
<1> QED
  BY <1>1, <1>2, <1>3, <1>4 DEF Device

\* and by the handlers.
LEMMA HandleKeepsDiagnosis ==
    ASSUME TypeOK, DiagnosisInv, NEW u \in UseCases, NEW s \in Slots, Handle(u, s)
    PROVE  DiagnosisInv'
<1>1. /\ UNCHANGED <<connection, connected, diagnosis, changed, overtaken>>
      /\ phase[u][s] # "idle"
      /\ \A v \in UseCases, t \in Slots :
           <<v, t>> # <<u, s>> =>
               /\ phase'[v][t] = phase[v][t]
               /\ target'[v][t] = target[v][t]
               /\ phase[v][t] # "idle" => event'[t] = event[t]
  BY HandleKeepsOthers
<1>2. SUFFICES ASSUME ~overtaken
               PROVE  /\ \A v \in UseCases, t \in Slots :
                           phase'[v][t] # "idle" => event'[t].connection = connection
                      /\ connected /\ ~changed =>
                           \A e \in Entities, v \in UseCases : Offering = {e} =>
                              \/ heartbeatDiag'[v] = [connection |-> connection, entity |-> e]
                              \/ \E t \in Slots : Connecting(v, t)'
  BY <1>1 DEF DiagnosisInv, Offering
<1>3. event[s].connection = connection
  BY <1>1, <1>2 DEF DiagnosisInv
<1>4. phase'[u][s] # "idle" => event'[s] = event[s]
  BY DEF TypeOK, Handle, ConnectedSingle, ConnectedNone, ConnectedSeveral, Binding,
         BindingIgnored, Check, Subscribe, UseDiagnosis, Return, Goto
<1>5. \A v \in UseCases, t \in Slots :
         phase'[v][t] # "idle" => event'[t].connection = connection
  BY <1>1, <1>2, <1>3, <1>4 DEF DiagnosisInv
<1>6. ASSUME connected, ~changed, NEW e \in Entities, NEW v \in UseCases, Offering = {e}
      PROVE  \/ heartbeatDiag'[v] = [connection |-> connection, entity |-> e]
             \/ \E t \in Slots : Connecting(v, t)'
  <2>1. \/ heartbeatDiag[v] = [connection |-> connection, entity |-> e]
        \/ \E t \in Slots : Connecting(v, t)
    BY <1>2, <1>6 DEF DiagnosisInv
  <2>2. \A t \in Slots : <<v, t>> # <<u, s>> /\ Connecting(v, t) => Connecting(v, t)'
    BY <1>1 DEF Connecting
  \* Whatever diagnosis a handler gives its use case, it is the one of the device.
  <2>3. ASSUME NEW d \in Entities, UseDiagnosis(u, s, d), d \in Offering
        PROVE  heartbeatDiag'[u] = [connection |-> connection, entity |-> e]
               /\ \A w \in UseCases \ {u} : heartbeatDiag'[w] = heartbeatDiag[w]
    BY <1>3, <1>6, <2>3 DEF UseDiagnosis, TypeOK
  <2>4. CASE ConnectedSingle(u, s)
    <3>1. PICK d \in Entities : /\ DeviceDiagEntities(event[s].connection) = {d}
                                /\ UseDiagnosis(u, s, d)
      BY <2>4 DEF ConnectedSingle
    <3>2. d \in Offering
      BY <1>3, <3>1 DEF DeviceDiagEntities, Offering
    <3> QED
      BY <2>1, <2>2, <2>3, <3>1, <3>2
  <2>5. CASE Binding(u, s)
    <3>1. UseDiagnosis(u, s, event[s].entity) /\ event[s].entity \in Offering
      BY <1>3, <2>5 DEF Binding, Subscribes, Offering
    <3>2. event[s].entity \in Entities
      BY <3>1, CsEventsAssumption DEF Offering
    <3> QED
      BY <2>1, <2>2, <2>3, <3>1, <3>2
  <2>6. CASE ~ConnectedSingle(u, s) /\ ~Binding(u, s)
    <3>1. UNCHANGED heartbeatDiag
      BY <2>6 DEF Handle, ConnectedNone, ConnectedSeveral, BindingIgnored, Check,
                  Subscribe, useCaseVars
    <3>2. ~Connecting(u, s)
      <4>1. SUFFICES ASSUME Connecting(u, s) PROVE FALSE
        OBVIOUS
      <4>2. DeviceDiagEntities(event[s].connection) = {e}
        BY <1>3, <1>6 DEF DeviceDiagEntities, Offering
      <4>3. ~(Cardinality(DeviceDiagEntities(event[s].connection)) > 1)
        <5>1. Cardinality(DeviceDiagEntities(event[s].connection)) = 1
          BY ONLY <4>2, OneOrNoneOffering, Zenon
        <5> QED
          BY ONLY <5>1
      <4>4. ~ConnectedNone(u, s) /\ ~ConnectedSeveral(u, s)
        BY <4>2, <4>3 DEF ConnectedNone, ConnectedSeveral
      <4> QED
        BY <2>6, <4>1, <4>4 DEF Connecting, Handle, BindingIgnored, Check, Subscribe, At
    <3> QED
      BY <2>1, <2>2, <3>1, <3>2
  <2> QED
    BY <2>4, <2>5, <2>6
<1> QED
  BY <1>5, <1>6

(* IsHeartbeatWithinDuration looks at the device object of the present connection,
   unless a reconnection overtook a handler. *)
THEOREM DiagnosisCurrentHolds == Spec => []DiagnosisCurrent
<1>1. Init => DiagnosisInv
  BY DEF Init, DiagnosisInv
<1>2. TypeOK /\ DiagnosisInv /\ [Next]_vars => DiagnosisInv'
  <2>1. DiagnosisInv /\ UNCHANGED vars => DiagnosisInv'
    BY DEF DiagnosisInv, Connecting, Offering, vars, deviceVars, handlerVars,
           useCaseVars, historyVars
  <2> QED
    BY <2>1, DeviceKeepsDiagnosis, HandleKeepsDiagnosis DEF Next
<1>3. DiagnosisInv => DiagnosisCurrent
  BY DEF DiagnosisInv, DiagnosisCurrent, Settled, Free, Connecting
<1> QED
  BY <1>1, <1>2, <1>3, TypeCorrect, PTL DEF Spec

-----------------------------------------------------------------------------
(* The number of subscriptions.                                            *)

Handlers == UseCases \X Slots

\* The handlers that found no subscription to entity e and are about to make one.
Subscribing(e) ==
    {h \in Handlers : phase[h[1]][h[2]] = "subscribe" /\ target[h[1]][h[2]] = e}

\* Each subscription there is, or is about to be, has a handler of its own.
CountInv ==
    \A e \in Entities :
        subscriptions[e] + Cardinality(Subscribing(e))
            <= Cardinality(UseCases) * Cardinality(Slots)

\* The handlers of an entity are finitely many.
LEMMA HandlersFinite ==
    /\ IsFiniteSet(Handlers)
    /\ Cardinality(Handlers) = Cardinality(UseCases) * Cardinality(Slots)
    /\ Cardinality(Handlers) \in Nat
BY CsEventsAssumption, FS_Product, FS_CardinalityType DEF Handlers

\* So is any set of them, and it is no larger.
LEMMA SubsetOfHandlers ==
    ASSUME NEW S, NEW T, T \subseteq Handlers, S \subseteq T
    PROVE  /\ IsFiniteSet(S) /\ IsFiniteSet(T)
           /\ Cardinality(S) \in Nat /\ Cardinality(T) \in Nat
           /\ Cardinality(S) <= Cardinality(T)
           /\ Cardinality(T) <= Cardinality(Handlers)
<1>1. IsFiniteSet(T) /\ Cardinality(T) <= Cardinality(Handlers)
  BY HandlersFinite, FS_Subset
<1>2. IsFiniteSet(S) /\ Cardinality(S) <= Cardinality(T)
  BY <1>1, FS_Subset
<1> QED
  BY <1>1, <1>2, FS_CardinalityType

\* A step that makes no subscription and lets no further handler make one.
LEMMA FewerSubscribing ==
    ASSUME TypeOK, CountInv, NEW e \in Entities,
           subscriptions'[e] \in Nat, subscriptions'[e] <= subscriptions[e],
           Subscribing(e)' \subseteq Subscribing(e)
    PROVE  subscriptions'[e] + Cardinality(Subscribing(e))'
             <= Cardinality(UseCases) * Cardinality(Slots)
<1> DEFINE S == Subscribing(e)'
           T == Subscribing(e)
<1>1. T \subseteq Handlers
  BY DEF Subscribing
<1>2. /\ Cardinality(S) \in Nat /\ Cardinality(T) \in Nat
      /\ Cardinality(S) <= Cardinality(T)
  BY <1>1, SubsetOfHandlers
<1>3. subscriptions[e] \in Nat
  BY DEF TypeOK
<1>4. subscriptions[e] + Cardinality(T) <= Cardinality(Handlers)
  BY HandlersFinite DEF CountInv
<1> HIDE DEF S, T
<1>5. subscriptions'[e] + Cardinality(S) <= Cardinality(Handlers)
  BY <1>2, <1>3, <1>4, HandlersFinite
<1> QED
  BY <1>5, HandlersFinite DEF S

\* The count of requests is kept by what the device does,
LEMMA DeviceKeepsCount == TypeOK /\ CountInv /\ Device => CountInv'
<1> SUFFICES ASSUME TypeOK, CountInv, Device, NEW e \in Entities
             PROVE  subscriptions'[e] + Cardinality(Subscribing(e))'
                      <= Cardinality(UseCases) * Cardinality(Slots)
  BY DEF CountInv
<1>1. subscriptions[e] \in Nat
  BY DEF TypeOK
<1>2. subscriptions'[e] \in Nat /\ subscriptions'[e] <= subscriptions[e]
  BY <1>1 DEF Device, Connect, EntitiesChange, Disconnect, Bind, NoSubscription
<1>3. Subscribing(e)' \subseteq Subscribing(e)
  <2>1. SUFFICES ASSUME NEW u \in UseCases, NEW s \in Slots,
                        phase'[u][s] = "subscribe", target'[u][s] = e
                 PROVE  phase[u][s] = "subscribe" /\ target[u][s] = e
    BY DEF Subscribing, Handlers
  <2>2. CASE UNCHANGED <<phase, target>>
    BY <2>1, <2>2
  <2>3. ASSUME NEW kind, NEW c, NEW b, Publish(kind, c, b)
        PROVE  phase[u][s] = "subscribe" /\ target[u][s] = e
    BY <2>1, <2>3, PublishKeepsOthers
  <2> QED
    BY <2>2, <2>3 DEF Device, Connect, EntitiesChange, Disconnect, Bind, handlerVars
<1> QED
  BY <1>2, <1>3, FewerSubscribing

\* and by the handlers.
LEMMA HandleKeepsCount ==
    ASSUME TypeOK, CountInv, NEW u \in UseCases, NEW s \in Slots, Handle(u, s)
    PROVE  CountInv'
<1> SUFFICES ASSUME NEW e \in Entities
             PROVE  subscriptions'[e] + Cardinality(Subscribing(e))'
                      <= Cardinality(UseCases) * Cardinality(Slots)
  BY DEF CountInv
<1>1. \A v \in UseCases, t \in Slots :
         <<v, t>> # <<u, s>> =>
             phase'[v][t] = phase[v][t] /\ target'[v][t] = target[v][t]
  BY HandleKeepsOthers
<1>2. subscriptions[e] \in Nat
  BY DEF TypeOK
<1>3. Subscribing(e)' \subseteq Subscribing(e) \cup {<<u, s>>}
  BY <1>1 DEF Subscribing, Handlers
<1>4. CASE Check(u, s)
  <2>1. subscriptions' = subscriptions
    BY <1>4 DEF Check
  <2>2. CASE phase'[u][s] = "subscribe" /\ target'[u][s] = e
    <3>1. subscriptions[e] = 0
      <4>1. ~HasSubscription(target[u][s]) /\ target'[u][s] = target[u][s]
        BY <1>4, <2>2 DEF Check, Return, Goto, TypeOK
      <4> QED
        BY <1>2, <2>2, <4>1 DEF HasSubscription
    <3> DEFINE S == Subscribing(e)'
    <3>2. S \subseteq Handlers
      BY DEF Subscribing
    <3>3. Cardinality(S) \in Nat /\ Cardinality(S) <= Cardinality(Handlers)
      BY <3>2, SubsetOfHandlers
    <3> HIDE DEF S
    <3>4. subscriptions'[e] + Cardinality(S) <= Cardinality(Handlers)
      BY <2>1, <3>1, <3>3, HandlersFinite
    <3> QED
      BY <3>4, HandlersFinite DEF S
  <2>3. CASE ~(phase'[u][s] = "subscribe" /\ target'[u][s] = e)
    <3>1. <<u, s>> \notin Subscribing(e)'
      BY <2>3 DEF Subscribing
    <3> QED
      BY <1>2, <1>3, <2>1, <3>1, FewerSubscribing
  <2> QED
    BY <2>2, <2>3
<1>5. CASE Subscribe(u, s)
  <2>1. phase[u][s] = "subscribe" /\ phase'[u][s] = "idle"
    BY <1>5 DEF Subscribe, At, Return, Goto, TypeOK
  <2>2. Subscribing(e)' \subseteq Subscribing(e) \ {<<u, s>>}
    BY <1>3, <2>1 DEF Subscribing
  <2>3. CASE target[u][s] = e /\ connected
    <3>1. subscriptions'[e] = subscriptions[e] + 1
      BY <1>5, <2>3 DEF Subscribe, TypeOK
    <3> DEFINE S == Subscribing(e)'
               T == Subscribing(e)
    <3>2. T \subseteq Handlers /\ <<u, s>> \in T
      BY <2>1, <2>3 DEF Subscribing, Handlers
    <3>3. /\ Cardinality(T) \in Nat /\ IsFiniteSet(T)
      BY <3>2, SubsetOfHandlers
    <3>4. Cardinality(T \ {<<u, s>>}) = Cardinality(T) - 1
      BY <3>2, <3>3, FS_RemoveElement
    <3>5. /\ Cardinality(S) \in Nat
          /\ Cardinality(S) <= Cardinality(T \ {<<u, s>>})
      BY <2>2, <3>2, SubsetOfHandlers
    <3>6. subscriptions[e] + Cardinality(T) <= Cardinality(Handlers)
      BY HandlersFinite DEF CountInv
    <3> HIDE DEF S, T
    <3>7. subscriptions'[e] + Cardinality(S) <= Cardinality(Handlers)
      BY <1>2, <3>1, <3>3, <3>4, <3>5, <3>6, HandlersFinite
    <3> QED
      BY <3>7, HandlersFinite DEF S
  <2>4. CASE ~(target[u][s] = e /\ connected)
    <3>1. subscriptions'[e] = subscriptions[e]
      BY <1>5, <2>4 DEF Subscribe, TypeOK
    <3> QED
      BY <1>2, <2>2, <3>1, FewerSubscribing
  <2> QED
    BY <2>3, <2>4
<1>6. CASE ~Check(u, s) /\ ~Subscribe(u, s)
  <2>1. subscriptions' = subscriptions /\ phase'[u][s] # "subscribe"
    BY <1>6 DEF TypeOK, Handle, ConnectedSingle, ConnectedNone, ConnectedSeveral,
                Binding, BindingIgnored, UseDiagnosis, Return, Goto
  <2>2. <<u, s>> \notin Subscribing(e)'
    BY <2>1 DEF Subscribing
  <2> QED
    BY <1>2, <1>3, <2>1, <2>2, FewerSubscribing
<1> QED
  BY <1>4, <1>5, <1>6

(* An entity is never subscribed to more often than handlers ran at the same time,
   whatever binds again and reconnects. *)
THEOREM SubscribedOncePerHandlerHolds == Spec => []SubscribedOncePerHandler
<1>1. Init => CountInv
  <2> SUFFICES ASSUME Init, NEW e \in Entities
               PROVE  subscriptions[e] + Cardinality(Subscribing(e))
                        <= Cardinality(UseCases) * Cardinality(Slots)
    BY DEF CountInv
  <2>1. subscriptions[e] = 0 /\ Subscribing(e) = {}
    BY DEF Init, NoSubscription, Subscribing, Handlers
  <2> QED
    BY <2>1, FS_EmptySet, HandlersFinite
<1>2. TypeOK /\ CountInv /\ [Next]_vars => CountInv'
  <2>1. CountInv /\ UNCHANGED vars => CountInv'
    BY DEF CountInv, Subscribing, vars, deviceVars, handlerVars
  <2> QED
    BY <2>1, DeviceKeepsCount, HandleKeepsCount DEF Next
<1>3. TypeOK /\ CountInv => SubscribedOncePerHandler
  <2> SUFFICES ASSUME TypeOK, CountInv, NEW e \in Entities
               PROVE  subscriptions[e] <= Cardinality(UseCases) * Cardinality(Slots)
    BY DEF SubscribedOncePerHandler
  <2>1. Subscribing(e) \subseteq Handlers
    BY DEF Subscribing
  <2>2. Cardinality(Subscribing(e)) \in Nat
    BY <2>1, SubsetOfHandlers
  <2>3. subscriptions[e] \in Nat
    BY DEF TypeOK
  <2>4. subscriptions[e] + Cardinality(Subscribing(e)) <= Cardinality(Handlers)
    BY HandlersFinite DEF CountInv
  <2>5. subscriptions[e] <= Cardinality(Handlers)
    BY <2>2, <2>3, <2>4, HandlersFinite
  <2> QED
    BY <2>5, HandlersFinite
<1> QED
  BY <1>1, <1>2, <1>3, TypeCorrect, PTL DEF Spec

=============================================================================
