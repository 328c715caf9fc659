# Formal verification of eebus2mqtt

This directory holds TLA+ models of eebus2mqtt, the TLC configurations that
check them on small instances, and theorems about them that TLAPS proves for
every instance. All paths below are relative to the repository's root.

## Checking and proving

    tlc -workers 2 -config MCHemsWatchdog.cfg MCHemsWatchdog.tla
    tlapm HemsWatchdogProofs.tla

`PROJECT.json` lists every run with its expected result, the source lines each
definition stands for, a mutation of the model that breaks each property, the
hazards of the code with the properties that cover them, the findings and the
theorems.

## The system

eebus2mqtt is a bridge: as the energy management system of a house it takes
production limits from a grid operator's device over EEBUS and publishes the
production it allows on MQTT. It is the application `devices/hems/main.go` on
top of a fork of the library eebus-go (`api`, `features`, `service`,
`usecases`). The protocol stacks SHIP and SPINE are external modules.

| Part | State it keeps | Operations | Interacts with |
|---|---|---|---|
| Heartbeat watchdog (`main.go:466-566`, `:763-772`) | globals `ekg`, `isFailsafe`, `cancel`; per goroutine its allowed production or its start time | `EKG`, `FailsafeCountdown`, `RemoteSKIConnected` | events of LPP write `ekg`; reads limits from LPP; publishes on MQTT |
| Write approval (`usecases/cs/lpc`, `cs/lpp`, `main.go:570-664`) | `pendingLimits` of each use case | `loadControlWriteCB`, `PendingProductionLimits`, `ApproveOrDeny...Limit`, `OnLPCEvent`, `OnLPPEvent` | both use cases register a callback on one LoadControl server feature, which counts their approvals |
| Use case base (`usecases/usecase`) | `availableEntityScenarios` | `HandleEvent`: update, removal of a device or an entity | events of SPINE; calls the application back |
| Configuration (`main.go:47-289`, `:301-438`, `:693-716`, `:825-941`) | global `config`, the file `config.json` | `init`, `generateConfic`, `mqttConnect`, `run`, `getFailsafeLPP`, `encryptPassword`, `decryptPassword`, failsafe events of `OnLPPEvent` | DeviceConfiguration server, the user who edits the file |
| MQTT (`main.go:806-851`) | the client | `mqttConnect`, `sub` | the broker |
| Controllable system events (`usecases/cs/*/events.go`) | `heartbeatDiag`, `heartbeatKeoWorkaround` | `deviceConnected`, `subscribeHeartbeatWorkaround`, data updates | SPINE events; calls the application back |
| Controllable system values (`usecases/cs/*/public.go`, `AddFeatures`) | limits, failsafe values and nominal maxima in three server features both use cases share | getters and setters of the application | writes of the remote device |
| Energy guard (`usecases/eg/lpc`, `eg/lpp`) | none of its own | subscribe, read, write limits and failsafe values | client features, answers of the remote device |
| Monitoring (`usecases/ma/mgcp`, `cem/vabd`, `cem/vapd`) | none of its own | subscribe and request after an entity was added; getters | client features |
| Use case helpers (`usecases/internal`) | none | write a limit, phase measurements, event predicates | client and server features |
| Server features (`features/server`) | data held by the local SPINE feature | add descriptions (new identifiers), update data by identifier or filter | feature lookups |
| Client features (`features/client`) | data cached by the remote SPINE feature | request, subscribe, bind, write | the SPINE sender |
| Feature lookups (`features/internal`) | none | filters over descriptions and data | the two above |
| Service (`service`) | `isRunning`, `isPairingPossible`, the list of use cases | set-up, start, shutdown, pairing | the SHIP hub, the application |
| Interfaces and configuration (`api`, `usecases/api`) | none over time | validation of the service configuration | |
| Mocks (`mocks`), binaries (`build`) | | generated | |

### What is hard in it

* **Concurrency without locks.** SPINE runs every event handler in a goroutine
  of its own; the timers and tickers of the application are goroutines too.
  The watchdog shares three globals without any lock, the failsafe events share
  `config` and `config.json`, and the use case base locks the look at its list
  and the change of it separately.
* **Time.** A loss is a stale heartbeat, a limit ends by its duration, failsafe
  ends after a minimum duration, and a write must be decided before the
  feature's timeout.
* **Lists that arrive piece by piece.** A value of a remote device is read from up
  to three lists that are requested one after the other, by several use cases
  that share subscriptions and received data.
* **Shared features.** LPC and LPP keep their values in the same lists, told
  apart only by descriptions and identifiers; a device may only take whole lists.
* **Reconnection and restart.** Counters start again, device objects are new,
  a second watchdog starts, the process knows nothing but `config.json`.
* **Crashes.** The file is truncated before it is written again.

What makes each part correct:

* watchdog: one at a time; a loss leads to the failsafe limit on the topic, a
  heartbeat out of failsafe, and a limit in force is what is published;
* approval: nothing is applied that the application did not accept, nothing is
  forgotten, nothing is refused without reason;
* use case base: the list is what the device announced, an index is used on the
  entry it was found for, the application knows every change;
* configuration: what the operator and the user set survives restarts;
* events: every heartbeat source is subscribed to;
* values of the controllable system: each is a register of its own, although
  all share three features;
* monitoring and energy guard: what a device publishes reaches the application,
  whatever the order in which lists, changes and handlers come, and a getter
  never returns what was not published;
* writes of the energy guard: each changes its own value only, and an answer that
  is told belongs to its write.

`PROJECT.json` has the single hazards with their lines.

## The modules

| Module | Part | Mapped code |
|---|---|---|
| `HemsWatchdog` | heartbeat watchdog | `main.go`, `cs/lpp/public.go` |
| `HemsWatchdogProofs` | theorems about it | |
| `WriteApproval` | approval of limit writes | `cs/lpc/usecase.go`, `cs/lpp/usecase.go`, `cs/lpp/public.go`, `main.go` |
| `WriteApprovalProofs` | theorems about it | |
| `UseCaseBase` | remote entities of a use case | `usecases/usecase` |
| `UseCaseBaseProofs` | theorems about it | |
| `CsEvents` | controllable system events | `cs/lpp/events.go`, `cs/lpc/events.go`, `features/client/feature.go` |
| `CsEventsProofs` | theorems about it | |
| `ConfigStore` | configuration and encryption | `main.go`, `cs/lpp/events.go`, `cs/lpp/public.go` |
| `ConfigStoreProofs` | theorems about it | |
| `FeatureData` | feature lookups and payload filters | `features/internal` |
| `ServerFeatures` | identifiers and updates of server features; EXTENDS `FeatureData` | `features/server` |
| `CsData` | values of the controllable system; EXTENDS `ServerFeatures` | `cs/lpc`, `cs/lpp`: `public.go`, `usecase.go`, `events.go` |
| `NamedValues` | abstract specification of `CsData`: independent registers | |
| `CsDataProofs` | theorems about `CsData`, with its refinement of `NamedValues` | |
| `Readings` | getters of the client use cases; EXTENDS `FeatureData` | `mgcp`, `vabd`, `vapd`, `eg`: `public.go`, `usecases/internal/measurement.go` |
| `RemoteData` | events of all client use cases; EXTENDS `Readings` | `mgcp`, `vabd`, `vapd`, `eg`: `events.go`, `features/client/feature.go`, `main.go` |
| `RemoteDataProofs` | theorems about it, and about the getters of `Readings` | |
| `EnergyGuard` | writes of the energy guard; EXTENDS `ServerFeatures` | `eg`: `public.go`, `usecases/internal/loadcontrol.go`, `features/client` |
| `RemoteRegisters` | abstract specification of `EnergyGuard`: registers of a remote device | |
| `EnergyGuardProofs` | theorems about `EnergyGuard`, with its refinement of `RemoteRegisters` | |
| `MC...` | constants of the TLC runs | |

In each module definitions with a comment that starts with *Mutant:* are
not part of the model. They are what the definition after them would be after a
plausible mistake, and show that the properties notice it.

### HemsWatchdog

Variables `hbAge`, `isFailsafe` and `current` stand for the globals `ekg` (its
age, in seconds), `isFailsafe` and `cancel`. A monitor is a run of the goroutine
of `EKG`, with its phase, its `allowedproduction` and the boolean it sampled.
A countdown is a run of `FailsafeCountdown`, with its time left. `limit`,
`fsLimit` and `fsDuration` are the data the LPP use case reads from its server
features. `published` and `limitActiv` are the last messages on the two topics.

One tick of a monitor is three or fewer steps, at the places where it looks at
shared variables: the sample of `ekg` with the publication (`TickSample`), the
test of `isFailsafe` (`TickLost`), and the effect (`EnterFailsafe`,
`TickRefresh`). The last tick of a countdown is two: the test of `isFailsafe`
(`CountdownTick`) and its clearing (`CountdownEnd`), between which a monitor may
enter failsafe again. `EKG` itself is split at the read of `cancel`
(`RemoteSKIConnected`) and its overwrite (`Install`). A cancelled monitor with a
tick in its channel may take either, as Go's `select` chooses.

`Second` lets a second pass: ages and durations move and every ticker fires. It
waits until the goroutines have handled the previous tick; the model thus leaves
out goroutines that are late by a second or more, and a ticker that drops ticks.
`Restart` is a new process; the failsafe data survives in `config.json`
(see `ConfigStore` for how far that is true).

Not modelled: the log file with its two flags, and the topics `last_heartbeat`,
`LimitCountdown` and `FailsafeCountdown`, which only show values. The three
seconds before a monitor starts may take any time. Five variables are history and
guard nothing: `refreshed`, `overlapped`, `calm`, `reconnected`, which says that
a monitor was started while a countdown ran and no heartbeat came since, and
`resumed`, the monitors that were started while `isFailsafe` was set and have
neither entered failsafe nor refreshed the limit since.

### WriteApproval

Writes are numbered in the order they arrive. `pending` is the map
`pendingLimits` of each use case, `stage` where the goroutine of each callback
stands, `todo` the snapshot `OnLPPEvent` iterates over. `timer`, `received`,
`outcome` and `applied` belong to the LoadControl feature of SPINE, which is not
in the repository: it arms a timer per write, counts approvals per device and
counter, applies the write after the second one, and ignores a decision without
a timer. That part is modelled from how the callbacks use it and marked
external; a decision there is one atomic step.

`LoadControlWriteCB` is the code both use cases share, and differs only in what
the announcement leads to: `OnLPCEvent` is empty, `OnLPPEvent` takes a snapshot
(`TakePending`) and decides every entry of it (`Decide`) in any order, as Go
iterates over maps. A reconnection lets counters start at 1, while the use cases
keep what they hold.

### UseCaseBase

`available` is the list `availableEntityScenarios`. Every event starts a handler,
which may be overtaken by others between any two sections under the lock:
lookup, append or comparison, write, callback; for a removal the collection of
indices and each removal by index. Entities are numbers. A device object
belongs to a connection, and a handler goes on reading its own after the device
was removed. `crashed` is an index out of range, a panic that ends the process.
The model reads the data of the device once when the handler starts; `todo` is the
set of updates that follow from it, which are dealt with in the order of the loops
in the code (`Earlier`).
The condition on a use case's actor, name and availability is part of what the
device announces: `announced` holds for each entity no scenario list, when the
use case is not available or the list is missing, or one list, which may be empty:
an empty list is not skipped and makes an entry without scenarios.

### ConfigStore

`file` is `config.json` (absent, truncated, or written with a configuration),
`config` the global, `server` the failsafe data held by the
DeviceConfiguration server. Every place where the file is written has two steps,
so `Crash` can come in between. An encrypted value is a pair of the serial
number and the text; decrypting it under another serial number fails, and the
code falls back to its defaults. Base64, nonces and key derivation are
left out. A limit or duration of the remote device may have a fraction, which
`int` cuts off before it is encrypted (`Truncate`). A password is its length: below
25 characters or not.

A start goes through `init` (generate, or read, or create the identity),
`mqttConnect` and `run`. An event of the remote device is handled in the steps
of `OnLPPEvent`: read the server, assign the global, truncate, marshal, write;
first for the limit and then for the duration, because
`CheckEventPayloadDataForFilter` matches any item that has a value. The user
edits the file while the process is down.

### CsEvents

`event` holds the events that are being handled, `phase` where the goroutine of
each use case stands with each of them: before its first look at the device
(`start`), before `HasSubscription` (`check`) and before `Subscribe`. The
variables `heartbeatDiag` and `heartbeatKeoWorkaround` are the fields of LPC and
LPP; `subscriptions` is the list of the client feature both share, with the
number of requests sent to each entity, which spine clears when the device is
gone. `deviceConnected` is `ConnectedSingle`, `ConnectedNone` or
`ConnectedSeveral`; a binding is `Binding` when it leads to a subscription, else
`BindingIgnored`. A handler reads the device object of its own connection, but
its subscription goes to the address, and so to the present connection.

Entities that come or go raise no event this code handles, and the properties
speak of connections without such a change. Events about data only reach the
application: the heartbeat is an action of `HemsWatchdog`, the limit and failsafe
events are actions of `CsData` and, for what is stored, of `ConfigStore`.

### FeatureData, ServerFeatures and Readings

These have no state. A list of SPINE is a set of records, `Nil` a field that is
not set, and a filter the record of its fields that are set, compared as
`searchFilterInItem` does. The first item of a list is the one with the least
identifier, as SPINE keeps its lists sorted. `KeyPayloadMatches` keeps the
precedence of `&&` and `||` that the code has: any item with a value matches.
`ServerFeatures` gives each operation as the feature after the call; the merge of
a partial update (`UpdateData`, `Deleted`) belongs to SPINE and is external.
`Readings` has one operator per getter, whose result is a value or the error.

### CsData

`loadControl`, `deviceConfiguration` and `electricalConnection` are the server
features of the local entity, `added` and `running` those of the service's fields
that matter, `handlers` the event goroutines that did not run yet, and `view` what
the application knows: what it set, or read when it was told of a change.
`AddUseCase` is `Service.AddUseCase` with all of `AddFeatures`, in either order of
LPC and LPP and with or without the other, before `Start` as in
`devices/hems/main.go:352-397` (the function itself does not check); the setters are one action each, with
the duration outside of 2 h to 24 h refused. The remote device writes limits and
failsafe values (`WriteLimits`, `WriteFailsafe`) and each use case handles the
event later (`HandleEvent`), when the values may have changed again.

`ActsAsRegisters` is the refinement: with the getters as refinement mapping every
step is one of `NamedValues`, where each use case has a limit, a failsafe
limit and a nominal maximum of its own and a call changes the one it names.

### RemoteData

The remote entity is one of `Entities`: its use cases, features, what it lets be
read, whether it answers partial reads, which values change, and the data of each
version. `cache` are the versions received, `outbox` and `inbox` the messages
both ways, `links` the subscriptions and bindings, `served` the features the
device sends notifications of, `handlers` the event goroutines.

`ConnectFeature` is one `if` block of `gridConnected`, `inverterConnected` or
`connected`: subscribe and bind unless done (`Link`), ask for descriptions
(`RequestData`, which is `requestData` with its check of what may be read).
`DescriptionDataUpdate` asks for the values, `DataUpdate` calls the
application, which reads the value it is told of at once (`OnMGCPEvent`). A
handler of a data event has the payload of its event, but looks at the lists as
they are when it runs. A handler is one step per feature: its subscription,
binding and requests are adjacent, and messages of another goroutine come
between two features but not between these. Two handlers that overlap more
finely could both find no subscription and send two; `CsEvents` has that
interleaving for the same code, and here a second one would serve nothing new.

The entity stays: connection and removal are `CsEvents` and `UseCaseBase`.

`EntitiesAssumption` says what kind of device the properties are about. It is about
the device and not about the code, and where it fails the code does not inform
the application either:

* descriptions do not change while the entity is there. The use cases ask for values when
  descriptions arrive, and not for descriptions again;
* a value that was published is not withdrawn later (`Kept`). The payload filters
  ignore items without a value, so that no event is raised for one;
* what a use case needs for its values may be read (`Needs`), if the entity has the
  feature at all. Otherwise `requestData` returns an error that is only logged;
* an identifier is used once in a list (`WellFormed`), as SPINE merges lists by it,
  and a limit is described in one direction only.

`NothingToRead` is what the application need not be told of: an error, or a list of
phases none of which has a value.

### EnergyGuard

`device` holds the lists of the device, `cache` the copy the client
features have, `toDevice` and `toGuard` the messages. A write is one action up
to `Sender.Write`; the registration of its callback is a second one
(`AddResponseCallback`), as the answer may come in between. `Message` is what
`WriteLimitData` and `WriteKeyValues` send: the one item with a partial filter,
or, to a device that has no partial writes, the cached list with the item merged
into it. The device takes or refuses the writes in their order, changes its limits
by itself, and sends the answer and the new list in either order.

`ActsAsRemoteRegisters` is the refinement of `RemoteRegisters`: a write that is
taken changes its own register, once and to what was asked for; a duration of 0
keeps the period unless it is to be deleted; the application is told at most
once, and only what was decided. For a device without partial writes a write
may set the other registers of its list back to values they had, and to
nothing where a key was never read; the abstract specification allows exactly that.

## The runs

| Run | Checks | States, time | Shows |
|---|---|---|---|
| `watchdog` | `TypeOK`, `SingleMonitor`, `LossPublished`, `LimitFollowed`, `HeartbeatEndsFailsafe`, `CountdownsSequential` | 2,466,426, 60 s | the watchdog does its work without locks as long as two starts do not overlap |
| `watchdog_live` | `LossNoticed`, `FailsafeLeftForGood` | 118,746, 21 s | a loss is noticed, failsafe is left for good |
| `watchdog_reconnect` | `FailsafeLimitInForce` is violated | | finding 1 |
| `approval` | `TypeOK`, `AppliedOnlyAccepted`, `NoProductionWritePending`, `PromptAnswer`, `RefusedOnlyWithReason` | 256,818, 7 s | two callbacks, snapshots and timeouts open no way around the application's decision |
| `approval_others` | `ApprovesOthersOnly` is violated | | finding 2 |
| `usecase_base` | `TypeOK`, `ListCurrent`, `IndexValid`, `ApplicationInformed` | 3,025,089, 57 s | the split lock is harmless among updates |
| `config_store` | `TypeOK`, `FailsafeStored`, `PasswordUsable` | 111,552, 4 s | what can survive comes back after any crash that leaves a process able to start, and the broker never gets ciphertext or an older password |
| `cs_events` | `TypeOK`, `SubscribedWhenSingle`, `BoundLateSubscribed`, `SubscribedOncePerHandler`, `DiagnosisCurrent` | 891,648, 28 s | late and overlapping handlers of both use cases still subscribe to the heartbeat |
| `cs_data` | `TypeOK`, `ApplicationInformed`, `ActsAsRegisters` | 29,060, 60 s | the shared features are independent registers, and the application knows the last write |
| `remote_data` | `TypeOK`, `Informed`, `ReadsPublished`, `EventuallyInformed` | 60,733, 64 s | every published value reaches the application in every order of lists, changes and handlers |
| `nominal_max` | `NominalMaxRead` is violated | | finding 3 |
| `limit_write` | `TypeOK`, `ActsAsRemoteRegisters`, `EventuallyAnswered` | 76,256, 40 s | concurrent writes of both use cases keep their own values, and answers find their callbacks |

### Bounds, and why they are enough

* Watchdog: two monitors (the one before and the one after a reconnection) and
  two countdowns; a heartbeat timeout of 3 seconds in place of 120, longer than
  the two seconds a tick's result needs to reach the topic; limits of 2 seconds and
  a failsafe of 3 seconds, which end before and after other events and leave time
  for a second loss while a countdown runs; the age of
  the heartbeat saturates two seconds after the timeout and `calm` at 2, since
  no guard or property looks further. The live run has a timeout of 1 second and
  one limit.
* Approval: two writes, two counters, and seven payloads, one per branch of the
  callbacks and of `OnLPPEvent`. Two writes let a snapshot hold the
  write of another goroutine and let one reuse the counter of the other after a
  reconnection. Three writes with fewer payloads (3.07 million states) pass as
  well.
* Use case base: two entities, one of which lacks a feature, two
  overlapping handlers, two connections and five events per process.
* Configuration: two handlers, a limit with and one without a fraction, a duration
  within the permitted range, one below it and one that is above it by a fraction
  only, an empty, a short and a long password, three serial numbers.

* Controllable system events: three entities, one of a type that is not
  compatible, with no, one or two servers among those that are; two
  connections, four events, two of them handled at once by two use cases.
* Values of the controllable system: three calls or writes after the use cases
  were added, one limit with a duration and one without, durations of 1 h
  (refused) and 2 h, limits of both use cases written alone and together, and
  two writes of failsafe values, one of them of two values at once. Three calls
  are enough for a limit with a duration to be set, to be set without one, and
  to be written in between.
* Remote data: nine entities, one per shape that matters: each use case with all
  features and with some missing, partial reads or whole lists, a list that may not
  be read, LPC and LPP sharing a feature, a value that is missing at first and
  one that becomes faulty. Each value has two versions and may change at any moment,
  so a change meets every state of the requests.
* Energy guard: two writes, of the same or of different registers, and one
  change by the device; limits with a positive duration, with none, and with the
  duration deleted; a device with and one without partial writes.

A heartbeat timeout of 1 second would be too short for `CountdownsSequential`: a
countdown may need two seconds to notice that its failsafe was left, and the next
loss could come first. The theorem assumes a timeout of 2 seconds or more; the code
has 120.

Symmetry is used for monitors, countdowns and handlers in runs of safety
properties. No run for liveness uses it.

### Fairness

`FairSpec` of `HemsWatchdog` assumes weak fairness of every step a goroutine
takes by itself, since the Go scheduler runs goroutines that are ready, and
strong fairness of `Second`, since time passes whatever the goroutines do: it is
disabled again and again while ticks are handled. Nothing is assumed of the
remote device: it may never connect, and send heartbeats and limits at any time
or never.

`FairSpec` of `RemoteData` assumes that handlers run (the Go scheduler), that
messages arrive, and that the remote device answers; it may change its data or not.
`Spec` of `EnergyGuard` assumes that the device decides about each write and that
its messages are handled. Neither the application's calls nor the registration
of a callback is fair: `EventuallyAnswered` speaks of callbacks that are there
when the answer is still under way.

`LossNoticed` is about a monitor that runs, and accepts a monitor that keeps
being started anew. Before the first connection no monitor runs and no loss is
noticed; that is how the code is (`main.go:763`).

## What is proved

Every invariant and action property of the passing runs, and both refinements, are
theorems. Each theorem holds for every value of the constants that the named
assumption of its module allows, any bound on the number of writes and events, and
infinite sets where no finite ones are asked for. TLC evaluates the assumptions in
every run, and finds the inductive invariants true in the states of the runs, those
it can evaluate: `StoredInv`, `ListsInv` and the types in `TypeInv` of
`RemoteDataProofs` range over infinite sets.

**`HemsWatchdogProofs`** (`WatchdogAssumption`).

* `TypeCorrect`, `SingleMonitorHolds`. Two monitors that nobody told to stop run
  side by side only if two starts overlapped. The property is not inductive: a
  start that has told the old monitor to stop has not yet put its own name into
  `cancel`. `MonitorInv` says what holds in between: a monitor that runs and was not
  told to stop is the one `cancel` names, and while a start is under way there is
  none. `StandingInv` and `SoleInv`, on which the others rest, say who has a tick
  and that ticks are handled by one monitor at a time.
* `HeartbeatEndsFailsafeHolds`. `AliveInv` follows the heartbeat second by second:
  after one nobody is about to enter failsafe and whoever has its tick will leave
  it, after two the countdowns that are left are about to notice.
* `LimitFollowedHolds`. `FollowedInv`: a second without input brings the limit into
  `allowed`, the next one brings it to the topic.
* `LossPublishedHolds`. `LossInv`: a monitor that saw the heartbeat alive has a failsafe
  limit as its allowed production whenever failsafe is active, one second after the
  timeout at the latest, and has published it one second later.
* `CountdownsSequentialHolds`, which also assumes `HbTimeout > 1`. `KeptInv` says that
  failsafe never outlives its countdown and that some monitor is always live or
  being started; `CountdownInv` that a heartbeat ends the countdowns early enough
  for the next loss to find none.

**`WriteApprovalProofs`** (`WriteApprovalAssumption`).

* `TypeCorrect`. That `received` never exceeds 1 is part of it: the second approval
  concludes the write.
* `NothingForgotten` is the theorem that no production write is pending when all
  goroutines are done. Its invariant says that for every pending counter some
  goroutine will still decide it: it has announced it and not yet taken its
  snapshot, or its snapshot holds that counter. A write is added to `pending`
  together with the announcement, a snapshot contains every pending counter of
  its moment, and an entry leaves a snapshot only when its counter leaves `pending`.
* `AppliedCorrect`, `RefusedCorrect`. `LinkInv` ties the four parts of the state
  together that only a counter links: the timers of the feature, the entries in
  `pending`, the goroutines of the callbacks, and what the application decided. An
  approval that is counted is then one of the write whose timer runs, and two of them
  for one write are an approval by each use case, while a refusal is one by LPP of
a limit that is not acceptable (`ApprovalsRight`). This holds until
  a reconnection lets a counter come again, and both properties are stated so.
* `PromptAnswerCorrect`. `AloneInv`: a write that no other overlapped is the only one
  that awaits an answer, as many approvals were counted as were given, and the one
  that is missing is still to come.

**`UseCaseBaseProofs`** (`UseCaseAssumption`).

* `TypeCorrect`, `IndexValidHolds`. `IndexInv`: an index that a handler holds is that of its
  entity, since updates only append or replace in place; a removal shifts indices, and
  `RemovingInv` has it work alone. Its indices are those of the whole list, the last
  one first, so that a removal leaves the others valid.
* `ApplicationInformedHolds`. `InformedInv`: a list the application has not read is one
  that a handler will tell it of.
* `ListCurrentHolds`. One event at a time (`AloneInv`); the list has no entity twice
  (`EachOnce`); while the device is gone its handler empties the list (`GoneInv`), and
  while it is there each entry is what was announced on this connection, or will
  be corrected by the handler at work (`ThereInv`, `KnownInv`).

**`ConfigStoreProofs`** (`ConfigAssumption`).

* `TypeCorrect`. The types include that an encrypted value never gets into the server,
  where a failed decryption would put a text in place of a number.
* `PasswordCorrect`, for passwords of any length and any new identities. `StartInv`
  follows the password from the user's edit through `init`, `mqttConnect` and `run`:
  the file and the global both hold it, in clear or encrypted under the serial number
  that stands next to it, or under an earlier one exactly if the identity was removed
  since. Decryption then gives the password, or nothing in the two cases the code
  loses it.
* `FailsafeCorrect`. `FailsafeInv` says for each step of `OnLPPEvent` which of server,
  global, encoding and file already hold what can survive of the remote device's last
  write (`Storing`), and that a start gives that back to the server: whole watts, and
  whole seconds or the two hours that stand in for a duration out of range.

**`CsEventsProofs`** (`CsEventsAssumption`; the sets of use cases, entities and slots
are finite).

* `TypeCorrect`, `SubscribedWhenSingleHolds`. `SingleInv`: as long as the one server is not
  subscribed to, some handler is about to do it: it has not looked at the device of this
  connection yet, or it is on its way to subscribe to that very entity. Handlers of
  earlier connections cannot spoil this, since they only add subscriptions.
* `BoundLateSubscribedHolds`. `SeveralInv`: once the connection was handled the use
  cases wait for the binding, and an entity that binds later has a handler until
  it is subscribed to.
* `DiagnosisCurrentHolds`. `DiagnosisInv`: unless a connection overtook one, every handler
  belongs to the present connection, and gives its use case the one server or has
  still to.
* `SubscribedOncePerHandlerHolds`. `CountInv` counts: the subscriptions there are plus
  those that handlers have decided on never exceed the number of handlers. A handler
  decides on one only where there is none, and so the first term is 0 whenever
  the second grows. The proof argues with cardinalities of finite sets.

**`EnergyGuardProofs`** (`EnergyGuardAssumption`).

* `TypeCorrect`. With the types goes that every list, stored or in a message, has
  one item per identifier (`ListsInv`).
* `ActsAsRemoteRegistersHolds`: `Spec` implements `RemoteRegisters!Spec` under the
  mapping of the run. Initial states map to initial states and every step to a step
  or a stutter. `HeldInv` says that the values in every list are values its registers
  had, which is what a write of a whole list may set the others back to;
  `OrderInv` that the messages to the device are the open writes in their order;
  `CarriesInv` that each message, merged into the list of the device, does what its
  write asked for; `TellInv` that an answer under way is the decision about its
  write, and that a callback is there for it at most once.

**`CsDataProofs`** (`CsDataAssumption`).

* `TypeCorrect`, `ActsAsRegistersHolds`: `Spec` implements `NamedValues!Spec` with the
  getters as mapping. `StoredInv` gives each of the three shared features a
  normal form: one description and one item for each use case or key that was added,
  with identifiers that differ (`LimitsAre`, `KeysAre`, `CharacteristicsAre`). A
  getter then reads the item of its own use case, and an update by identifier or
  filter changes only that. New identifiers are fresh because they exceed the greatest
  one there is; that a set of numbers has a least element is taken from
  well-founded induction on the naturals.
* `ApplicationInformedHolds`. `ToldInv`: each limit and failsafe value is what the
  application has in view, or an event goroutine that has not run will tell it.

**`RemoteDataProofs`** (`RemoteDataAssumption`, `EntitiesAssumption`). The nine entities of
the run become any set of entities: any measurements, keys, limits, features and use
cases, and any number of versions. `Read` of the 20 values that are no heartbeat, and the
events that tell of them,
are first brought to one form per kind of value (`MeasuredIs`, `KeyIs`, `LimitReadIs`
for the lookups; `TellsMeasured`, `TellsKey`, `TellsLimit` for the events). Four facts
about data connect them: what is read depends on few parts (`ReadDepends`), an event
raised by any published payload matches the lists that are held (`ToldMatches`), a
handler that comes late still matches (`MatchTold`), and what matched once does so
for good (`MatchGrows`).

* `TypeCorrect`. `TypeInv` has the order of messages as well. `LinksInv`: nothing is read of
  a feature before it is subscribed to, so that no change falls between the
  answer and the first notification. `OrderInv`: the versions of a part arrive in
  their order, answers and notifications together.
* `ReadsPublishedHolds`. The measurements of the grid connection point are also looked
  up in the electrical connection, whose lists come separately. `DirectionInv`:
  wherever the descriptions of the measurements are, in a handler, asked for, on
  their way or known, the descriptions and parameters of the connection are one step
  ahead (`MeasuredAfter`). All other getters need the two lists of their own feature only.
* `InformedHolds`. `KnownInv` follows the lists: as long as descriptions are neither
  known nor on their way somebody has still to ask for them; once they arrived they
  are being handled, or the values are asked for, or the last values are on their
  way or known. `ToldInv` follows the application: it has read what is held, or a
  handler has a payload with all of it (`Telling`), or newer data is to come.
  `HeartbeatInv` says the same of heartbeats, which only count when they are notified.
  When nothing is under way each disjunction leaves one case: the last value is held,
  and read. `Informed` by itself is not inductive, since it speaks of
  quiet states only.

Only model-checked: the liveness properties `LossNoticed`, `FailsafeLeftForGood`,
`EventuallyInformed` and `EventuallyAnswered`, since TLAPS has no rules here for
fairness. What the findings show is false, and there is nothing to prove.

## Findings

1. `watchdog_reconnect`: a monitor started while `isFailsafe` is set publishes
   the nominal maximum (`main.go:482`), and as it does not enter failsafe again
   (`:497`) still does so two seconds later, although the failsafe limit
   "becomes activated in "init" state or "failsafe state"" (`cs/lpp/public.go:161`).
2. `approval_others`: a consumption limit is approved without a decision when
   its counter is pending from an earlier connection (`cs/lpc/usecase.go:162`),
   while the comment at line 129 says the callback approves writes of others.
3. `nominal_max`: the energy guard neither subscribes to ElectricalConnection nor
   requests the characteristics (`eg/lpc/events.go:48`, `eg/lpp/events.go:49`), so
   `ConsumptionNominalMax` and `ProductionNominalMax` never have data, while
   `eg/lpc/public.go:269-270` says they return the nominal maximum.

Observed while modelling, and part of the models where it matters:

* after the minimum duration the next tick enters failsafe again (`main.go:562`,
  `:497`), while README.md:108 names the minimum duration as an end of failsafe;
* a reconnection restarts the ticker of the watchdog (`main.go:473`); reconnections
  that keep it from acting on a heartbeat until that heartbeat is nearly stale let it
  leave failsafe and enter it again a second later, beside a countdown that has
  not noticed; `CountdownsSequential` therefore asks for a heartbeat after a
  reconnection in which a countdown ran;
* each failsafe leaves a goroutine behind (`main.go:550`);
* an update that is still running when its device is removed adds the entity again
  (`usecase.go:205`), although `events.go:31` says everything related to the
  device is removed; `ListCurrent` therefore excludes overlapping events;
* what comes back of the failsafe data is cut to whole watts and seconds
  (`main.go:696`, `:710`), and a duration outside of 2 h to 24 h, which nothing
  stops the remote device from writing, comes back as two hours (`FailsafeStored`);
* of two failsafe events handled at once the one that marshalled earlier may write
  last (`main.go:697-702`): the older value then stays in `config.json` until the
  next write; `FailsafeStored` speaks of events handled one at a time;
* a password of 25 characters or more is taken for ciphertext (`main.go:828`): it stays
  in `config.json` in plain text and the broker gets an empty one, whatever
  README.md:72 says; `PasswordUsable` says so;
* a new identity makes an encrypted password unreadable (`main.go:170`), and the
  broker gets an empty one (`PasswordUsable`);
* an empty file left by a crash ends every later start (`main.go:150`); the first
  run panics after it wrote the file (`:144`), so the first real run has a failsafe
  limit of 0 W and never the 4200 W of `:405`;
* a binding handled before the connection it belongs to is never followed by a
  subscription (`cs/lpp/events.go:128`), whatever lines 120-121 say of
  bindings; `BoundLateSubscribed` speaks of the later ones;
* a write of one failsafe value raises the events of all keys, since `&&` binds
  tighter than `||` (`features/internal/deviceconfiguration.go:53`);
* a value that is withdrawn, or written without a value, raises no event, and the
  application keeps what it read before; a request that fails is not repeated;
* before `AddFeatures` of LPP, and if the limit description is ambiguous, its
  getter reads limit 0, which may be that of LPC (`cs/lpp/usecase.go:100`);
* `CurrentPerPhase` returns an empty list and no error when the device describes the
  other energy direction (`usecases/internal/measurement.go:61`), and a list of
  phases with gaps is shorter, so that a later phase takes the place of a missing one;
* phases that are described but have no value yet read as an empty list without an
  error, and raise no event (`usecases/internal/measurement.go`, `features/internal`);
* an answer that comes before its callback is registered is dropped
  (`usecases/internal/loadcontrol.go:187`);
* to a device without partial writes whose keys were not read yet, a write of a
  failsafe limit sends a list of that one key (`features/client/deviceconfiguration.go:57-90`).

## Not modelled, and the plan

Not modelled, and why:

* phase limits of charging stations (`LoadControlLimits`,
  `WriteLoadControlPhaseLimits`, with `GetPhaseCurrentLimits` and
  `AdjustValueToBeWithinPermittedValuesForParameterId`), manufacturer data,
  bills, identification, incentive tables, time series, and the server's measurement
  and parameter descriptions: library code that nothing in `src` calls, the use
  cases for it are not part of this fork;
* `service` beyond `AddUseCase` and `Start`: it builds objects and forwards to
  the hub of ship-go, which keeps the state of pairings and connections;
* error answers to requests and the loss of a connection in the middle of them
  (`RemoteData`, `EnergyGuard`): the code logs the error and starts anew
  when the entity is added again, which is `Init` of these modules;
* generated mocks and binaries, logging, the search for a port, certificates and
  key derivation, the SHIP and SPINE stacks and the MQTT client beyond what the
  code here relies on;
* validation of the service configuration (`api`), which has no state over time.

Worth modelling next: `HemsWatchdog` and `WriteApproval` might be composed, so that a
limit reaches the watchdog only by an approved write; and an entity whose descriptions
change or whose values are withdrawn, which `EntitiesAssumption` excludes.
