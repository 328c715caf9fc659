---------------------------- MODULE HemsWatchdog ----------------------------
(***************************************************************************)
(* The heartbeat watchdog of the HEMS application (devices/hems/main.go):  *)
(* the goroutine EKG started three seconds after every connection, the     *)
(* goroutine FailsafeCountdown it spawns when the heartbeat is lost, and   *)
(* the event handlers that feed them.  They share the globals ekg,         *)
(* isFailsafe and cancel without any lock.                                 *)
(*                                                                         *)
(* Time is counted in whole seconds.  A step of Second makes every ticker  *)
(* fire; the goroutines then handle their ticks in any order, interleaved  *)
(* with events from the remote device, before the next second.             *)
(***************************************************************************)
EXTENDS Integers, FiniteSets

CONSTANTS
    Monitors,          \* identities of EKG goroutines, reused once they ended
    Countdowns,        \* identities of FailsafeCountdown goroutines, reused
    NoMonitor,         \* the nil value of the global cancel
    HbTimeout,         \* seconds without a heartbeat before failsafe (120)
    NominalMax,        \* pv_max of the configuration
    LimitValues,       \* values an approved limit may carry (production: <= 0)
    LimitDurations,    \* seconds until the end time of a written limit
    FailsafeLimits,    \* values of the failsafe production limit
    FailsafeDurations  \* values of the minimum failsafe duration

ASSUME WatchdogAssumption ==
    /\ NoMonitor \notin Monitors
    /\ Monitors \cap Countdowns = {}
    /\ Countdowns # {}
    /\ HbTimeout \in Nat \ {0}
    /\ NominalMax \in Nat
    /\ LimitValues \subseteq {v \in Int : v <= 0}
    /\ LimitDurations \subseteq Nat
    /\ FailsafeLimits \subseteq Nat
    /\ FailsafeDurations \subseteq Nat

VARIABLES
    hbAge,       \* seconds since the global ekg was set, saturating at AgeCap
    isFailsafe,  \* the global isFailsafe
    current,     \* the goroutine the global cancel ends, or NoMonitor
    cancelled,   \* goroutines whose context is done
    phase,       \* where each EKG goroutine (or the start of one) stands
    allowed,     \* its local allowedproduction
    lost,        \* its local since.Seconds() > 120, FALSE when out of use
    cdLeft,      \* seconds left of each FailsafeCountdown; Idle when none
    ending,      \* those that found their time over or failsafe left, and have
                 \* not cleared isFailsafe yet
    due,         \* goroutines with an unread tick in their ticker channel
    limit,       \* the production limit held by the LoadControl server
    fsLimit,     \* the failsafe limit held by the DeviceConfiguration server
    fsDuration,  \* the minimum failsafe duration held there
    published,   \* last value sent to the topic lpp/allowed_production
    limitActiv   \* last value sent to the topic lpp/limit_activ

(* History variables: they appear in no guard and only serve properties.   *)
VARIABLES
    refreshed,   \* monitors that ended a tick with the heartbeat alive since the
                 \* last heartbeat
    overlapped,  \* two executions of EKG overlapped in their start
    reconnected, \* a monitor was started while a countdown ran, since the last
                 \* heartbeat
    resumed,     \* monitors that started while isFailsafe was set, and neither
                 \* entered nor left failsafe since
    calm         \* seconds since the last input or limit expiry, up to 2

remoteVars == <<limit, fsLimit, fsDuration>>
monitorVars == <<current, cancelled, phase, allowed, lost>>
countdownVars == <<cdLeft, ending>>
topicVars == <<published, limitActiv>>
historyVars == <<refreshed, overlapped, reconnected, resumed, calm>>
vars == <<hbAge, isFailsafe, monitorVars, countdownVars, due, remoteVars,
          topicVars, historyVars>>

AgeCap == HbTimeout + 2
Idle == -2                       \* cdLeft of a countdown that is not running
Phases == {"idle", "starting", "select", "sampled", "entering"}
Limits == [active : BOOLEAN, value : LimitValues \cup {-NominalMax},
           left : Nat]

Running(m) == phase[m] \in {"select", "sampled", "entering"}

\* Mutant: the global cancel is never called.
StopTargetNone == {}
\* The goroutines EKG tells to stop: the one named by the global cancel.
StopTarget == {n \in {current} : n # NoMonitor /\ Running(n)}

\* Mutant: the boundary of the timeout is off by one.
HeartbeatLostEarly == hbAge >= HbTimeout
\* since.Seconds() > 120
HeartbeatLost == hbAge > HbTimeout

\* Mutant: the flag is tested the wrong way round.
MayEnterInverted == isFailsafe
\* Mutant: every tick of an outage enters failsafe.
MayEnterAlways == TRUE
\* !isFailsafe, the second condition for entering failsafe.
MayEnter == ~isFailsafe

\* Mutant: the allowed production is not lowered on entry.
FailsafeProductionNominal == NominalMax
\* What FailsafeProductionActivePowerLimit() returns.
FailsafeProduction == fsLimit

\* Mutant: the end time of the limit is not looked at.
LimitInForceForever == limit.active
\* productionlimit.IsActive && productionlimit.Duration.Seconds() > 0
LimitInForce == limit.active /\ limit.left > 0

\* Mutant: the countdown does not look at isFailsafe.
CountdownOngoingBlind(c) == cdLeft[c] >= 0
\* failsafe_time <= d && isFailsafe
CountdownOngoing(c) == cdLeft[c] >= 0 /\ isFailsafe

\* Mutant: the remaining duration is not floored at zero.
RemainingUnfloored(d) == d - 1
\* The duration of a time period one second later: zero once it has ended.
Remaining(d) == IF d > 0 THEN d - 1 ELSE 0

RunningCountdowns == {c \in Countdowns : cdLeft[c] # Idle}

\* What run() writes before any connection.
NoLimit == [active |-> FALSE, value |-> -NominalMax, left |-> 0]

(* The state run() leaves behind before any connection: the limit is       *)
(* inactive, the failsafe limit is published and marked active once.       *)
Init ==
    /\ fsLimit \in FailsafeLimits
    /\ fsDuration \in FailsafeDurations
    /\ hbAge = 0
    /\ isFailsafe = FALSE
    /\ current = NoMonitor
    /\ cancelled = {}
    /\ phase = [m \in Monitors |-> "idle"]
    /\ allowed = [m \in Monitors |-> 0]
    /\ lost = [m \in Monitors |-> FALSE]
    /\ cdLeft = [c \in Countdowns |-> Idle]
    /\ ending = {}
    /\ due = {}
    /\ limit = NoLimit
    /\ published = fsLimit
    /\ limitActiv = TRUE
    /\ refreshed = {}
    /\ overlapped = FALSE
    /\ reconnected = FALSE
    /\ resumed = {}
    /\ calm = 0

-----------------------------------------------------------------------------
(* Starting a monitor.                                                     *)

\* The remote connected.  The timer armed by the callback fires at any later
\* time, sets the nominal maximum and calls EKG, whose first half tells the
\* monitor named by the global cancel to stop.
RemoteSKIConnected(m) ==
    /\ phase[m] = "idle"
    /\ current # m
    /\ phase' = [phase EXCEPT ![m] = "starting"]
    /\ cancelled' = cancelled \cup StopTarget
    /\ overlapped' = (overlapped \/ \E n \in Monitors : phase[n] = "starting")
    /\ reconnected' = (reconnected \/ RunningCountdowns # {})
    /\ calm' = 0
    /\ UNCHANGED <<hbAge, isFailsafe, current, allowed, lost, countdownVars, due,
                   remoteVars, topicVars, refreshed, resumed>>

\* Second half of EKG: cancel is overwritten and the goroutine starts with the
\* nominal maximum as its allowed production.
Install(m) ==
    /\ phase[m] = "starting"
    /\ phase' = [phase EXCEPT ![m] = "select"]
    /\ current' = m
    /\ allowed' = [allowed EXCEPT ![m] = NominalMax]
    /\ resumed' = IF isFailsafe THEN resumed \cup {m} ELSE resumed
    /\ calm' = 0
    /\ UNCHANGED <<hbAge, isFailsafe, cancelled, lost, countdownVars, due,
                   remoteVars, topicVars, refreshed, overlapped, reconnected>>

\* case <-ctx.Done() of the select.
Stop(m) ==
    /\ phase[m] = "select"
    /\ m \in cancelled
    /\ phase' = [phase EXCEPT ![m] = "idle"]
    /\ cancelled' = cancelled \ {m}
    /\ due' = due \ {m}
    /\ allowed' = [allowed EXCEPT ![m] = 0]
    /\ refreshed' = refreshed \ {m}
    /\ resumed' = resumed \ {m}
    /\ UNCHANGED <<hbAge, isFailsafe, current, lost, countdownVars, remoteVars,
                   topicVars, overlapped, reconnected, calm>>

-----------------------------------------------------------------------------
(* One tick of a monitor.  A cancelled monitor with a tick in its channel  *)
(* may still take it: Go's select chooses among its ready cases.           *)

\* The age of the heartbeat is sampled and the allowed production, as the
\* previous tick left it, is published.
TickSample(m) ==
    /\ phase[m] = "select"
    /\ m \in due
    /\ due' = due \ {m}
    /\ phase' = [phase EXCEPT ![m] = "sampled"]
    /\ lost' = [lost EXCEPT ![m] = HeartbeatLost]
    /\ published' = allowed[m]
    /\ UNCHANGED <<hbAge, isFailsafe, current, cancelled, allowed, countdownVars,
                   remoteVars, limitActiv, historyVars>>

\* since > 120: the monitor goes on to enter failsafe only if isFailsafe is not
\* set already; otherwise the tick is over.
TickLost(m) ==
    /\ phase[m] = "sampled"
    /\ lost[m]
    /\ phase' = [phase EXCEPT ![m] = IF MayEnter THEN "entering" ELSE "select"]
    /\ lost' = [lost EXCEPT ![m] = FALSE]
    /\ UNCHANGED <<hbAge, isFailsafe, current, cancelled, allowed, countdownVars,
                   due, remoteVars, topicVars, historyVars>>

\* Failsafe is entered: the failsafe limit becomes the allowed production and
\* a countdown starts.  With all of Countdowns running (the bound), one more is
\* not represented; that takes monitors whose starts overlapped.
EnterFailsafe(m) ==
    /\ phase[m] = "entering"
    /\ \/ \E c \in Countdowns \ RunningCountdowns :
             cdLeft' = [cdLeft EXCEPT ![c] = fsDuration]
       \/ RunningCountdowns = Countdowns /\ UNCHANGED cdLeft
    /\ phase' = [phase EXCEPT ![m] = "select"]
    /\ allowed' = [allowed EXCEPT ![m] = FailsafeProduction]
    /\ isFailsafe' = TRUE
    /\ limitActiv' = TRUE
    /\ resumed' = resumed \ {m}
    /\ UNCHANGED <<hbAge, current, cancelled, lost, ending, due, remoteVars,
                   published, refreshed, overlapped, reconnected, calm>>

\* since <= 120: failsafe is left and the limit is applied.  A limit that is
\* inactive but whose end time has not passed changes nothing.
TickRefresh(m) ==
    /\ phase[m] = "sampled"
    /\ ~lost[m]
    /\ phase' = [phase EXCEPT ![m] = "select"]
    /\ isFailsafe' = FALSE
    /\ \/ /\ LimitInForce
          /\ allowed' = [allowed EXCEPT ![m] = -limit.value]
          /\ limitActiv' = TRUE
       \/ /\ limit.left < 1
          /\ allowed' = [allowed EXCEPT ![m] = NominalMax]
          /\ limitActiv' = FALSE
       \/ /\ ~LimitInForce
          /\ limit.left >= 1
          /\ UNCHANGED <<allowed, limitActiv>>
    /\ refreshed' = refreshed \cup {m}
    /\ resumed' = resumed \ {m}
    /\ UNCHANGED <<hbAge, current, cancelled, lost, countdownVars, due, remoteVars,
                   published, overlapped, reconnected, calm>>

\* One tick of FailsafeCountdown.  When the minimum duration has passed, or
\* failsafe was left meanwhile, it stops its ticker.
CountdownTick(c) ==
    /\ c \in due
    /\ due' = due \ {c}
    /\ \/ CountdownOngoing(c) /\ limitActiv' = TRUE /\ UNCHANGED ending
       \/ ~CountdownOngoing(c) /\ ending' = ending \cup {c} /\ UNCHANGED limitActiv
    /\ UNCHANGED <<hbAge, isFailsafe, monitorVars, cdLeft, remoteVars, published,
                   historyVars>>

\* It then clears isFailsafe, whatever monitors did meanwhile.
CountdownEnd(c) ==
    /\ c \in ending
    /\ ending' = ending \ {c}
    /\ isFailsafe' = FALSE
    /\ cdLeft' = [cdLeft EXCEPT ![c] = Idle]
    /\ UNCHANGED <<hbAge, monitorVars, due, remoteVars, topicVars, historyVars>>

-----------------------------------------------------------------------------
(* Events from the remote device, restarts, and the passing of time.       *)

\* DataUpdateHeartbeat: ekg = time.Now().
OnHeartbeat ==
    /\ hbAge' = 0
    /\ refreshed' = {}
    /\ reconnected' = FALSE
    /\ calm' = 0
    /\ UNCHANGED <<isFailsafe, monitorVars, countdownVars, due, remoteVars,
                   topicVars, overlapped, resumed>>

\* A limit write that OnLPPEvent approved: an active limit has a duration.
OnLimitWrite(active, v, d) ==
    /\ active => d # 0
    /\ limit' = [active |-> active, value |-> v, left |-> d]
    /\ calm' = 0
    /\ UNCHANGED <<hbAge, isFailsafe, monitorVars, countdownVars, due, fsLimit,
                   fsDuration, topicVars, refreshed, overlapped, reconnected,
                   resumed>>

\* The remote wrote the failsafe limit or the minimum failsafe duration.
OnFailsafeWrite(l, d) ==
    /\ fsLimit' = l
    /\ fsDuration' = d
    /\ calm' = 0
    /\ UNCHANGED <<hbAge, isFailsafe, monitorVars, countdownVars, due, limit,
                   topicVars, refreshed, overlapped, reconnected, resumed>>

\* The process ends and is started again; config.json keeps the failsafe data.
Restart ==
    /\ hbAge' = 0
    /\ isFailsafe' = FALSE
    /\ current' = NoMonitor
    /\ cancelled' = {}
    /\ phase' = [m \in Monitors |-> "idle"]
    /\ allowed' = [m \in Monitors |-> 0]
    /\ lost' = [m \in Monitors |-> FALSE]
    /\ cdLeft' = [c \in Countdowns |-> Idle]
    /\ ending' = {}
    /\ due' = {}
    /\ limit' = NoLimit
    /\ published' = fsLimit
    /\ limitActiv' = TRUE
    /\ refreshed' = {}
    /\ overlapped' = FALSE
    /\ reconnected' = FALSE
    /\ resumed' = {}
    /\ calm' = 0
    /\ UNCHANGED <<fsLimit, fsDuration>>

\* Every goroutine has handled its tick, starts and stops are over.
Settled ==
    /\ due = {}
    /\ ending = {}
    /\ \A m \in Monitors : phase[m] \in {"idle", "select"}
    /\ cancelled = {}

\* A second passes: ages grow, durations shrink, the tickers fire.
Second ==
    /\ Settled
    /\ hbAge' = IF hbAge < AgeCap THEN hbAge + 1 ELSE hbAge
    /\ cdLeft' = [c \in Countdowns |->
                    IF cdLeft[c] >= 0 THEN cdLeft[c] - 1 ELSE cdLeft[c]]
    /\ limit' = [limit EXCEPT !.left = Remaining(@)]
    /\ due' = {m \in Monitors : phase[m] = "select"} \cup RunningCountdowns
    /\ calm' = IF limit.left = 1 THEN 0 ELSE IF calm < 2 THEN calm + 1 ELSE calm
    /\ UNCHANGED <<isFailsafe, monitorVars, ending, fsLimit, fsDuration, topicVars,
                   refreshed, overlapped, reconnected, resumed>>

-----------------------------------------------------------------------------
MonitorStep(m) ==
    \/ RemoteSKIConnected(m)
    \/ Install(m)
    \/ Stop(m)
    \/ TickSample(m)
    \/ TickLost(m)
    \/ EnterFailsafe(m)
    \/ TickRefresh(m)

Next ==
    \/ \E m \in Monitors : MonitorStep(m)
    \/ \E c \in Countdowns : CountdownTick(c) \/ CountdownEnd(c)
    \/ OnHeartbeat
    \/ \E active \in BOOLEAN, v \in LimitValues, d \in LimitDurations :
          OnLimitWrite(active, v, d)
    \/ \E l \in FailsafeLimits, d \in FailsafeDurations : OnFailsafeWrite(l, d)
    \/ Restart
    \/ Second

(* The scheduler runs ready goroutines and timers, and time does not stop. *)
(* Nothing forces the remote to connect, to send a heartbeat or a limit.   *)
Fairness ==
    /\ \A m \in Monitors : /\ WF_vars(Install(m))
                           /\ WF_vars(TickSample(m))
                           /\ WF_vars(TickLost(m))
                           /\ WF_vars(EnterFailsafe(m))
                           /\ WF_vars(TickRefresh(m))
                           /\ WF_vars(Stop(m))
    /\ \A c \in Countdowns : WF_vars(CountdownTick(c)) /\ WF_vars(CountdownEnd(c))
    /\ SF_vars(Second)

Spec == Init /\ [][Next]_vars

FairSpec == Spec /\ Fairness

-----------------------------------------------------------------------------
(* Properties.                                                             *)

\* Every variable has a value the code can give it.
TypeOK ==
    /\ hbAge \in 0..AgeCap
    /\ isFailsafe \in BOOLEAN
    /\ current \in Monitors \cup {NoMonitor}
    /\ cancelled \subseteq Monitors
    /\ phase \in [Monitors -> Phases]
    /\ allowed \in [Monitors -> Int]
    /\ lost \in [Monitors -> BOOLEAN]
    /\ cdLeft \in [Countdowns -> Int]
    /\ ending \subseteq Countdowns
    /\ due \subseteq Monitors \cup Countdowns
    /\ limit \in Limits
    /\ fsLimit \in FailsafeLimits
    /\ fsDuration \in FailsafeDurations
    /\ published \in Int
    /\ limitActiv \in BOOLEAN
    /\ refreshed \subseteq Monitors
    /\ overlapped \in BOOLEAN
    /\ reconnected \in BOOLEAN
    /\ resumed \subseteq Monitors
    /\ calm \in 0..2

\* The unlocked global cancel still keeps at most one watchdog alive: two EKG
\* goroutines can publish side by side only if two starts overlapped.
SingleMonitor ==
    ~overlapped =>
        \A m, n \in Monitors :
            Running(m) /\ Running(n) /\ {m, n} \cap cancelled = {} => m = n

\* Each entry into failsafe spawns a countdown and none is ever told to stop,
\* yet they run one after the other: while the heartbeat is lost, a countdown
\* begins only when the one before it has ended, unless the remote reconnected
\* while one ran and sent no heartbeat since.
CountdownsSequential ==
    [][/\ RunningCountdowns' \ RunningCountdowns # {}
       /\ hbAge > HbTimeout
       /\ ~reconnected
       /\ ~overlapped
       => RunningCountdowns = {}]_vars

\* Two seconds after the heartbeat timed out, what subscribers of
\* lpp/allowed_production last saw is a failsafe limit, whatever limit, tick and
\* countdown came before, if a monitor is running that saw the heartbeat alive.
LossPublished ==
    /\ Settled
    /\ hbAge = AgeCap
    /\ \E m \in refreshed : Running(m)
    /\ ~overlapped
    => published \in FailsafeLimits

\* With a heartbeat present and no input for two seconds, the topics show the
\* limit in force, or the nominal maximum once its end time has passed.
LimitFollowed ==
    /\ Settled
    /\ calm = 2
    /\ hbAge <= HbTimeout
    /\ \E m \in Monitors : Running(m)
    /\ ~overlapped
    => /\ limit.active /\ limit.left > 0
            => published = -limit.value /\ limitActiv
       /\ limit.left = 0 => published = NominalMax /\ ~limitActiv

\* A heartbeat ends failsafe within a second and its countdown within two, also
\* when the heartbeat arrived between a monitor's sample and its decision.
HeartbeatEndsFailsafe ==
    /\ Settled
    /\ hbAge \in 1..HbTimeout
    /\ \E m \in Monitors : Running(m)
    => /\ calm >= 1 => ~isFailsafe
       /\ calm = 2 /\ ~overlapped => RunningCountdowns = {}

NoStart == \A m \in Monitors : phase[m] # "starting"

\* A lost heartbeat is eventually noticed by a running monitor, unless
\* heartbeats come back or the monitor keeps being started anew.
LossNoticed ==
    (hbAge > HbTimeout /\ \E m \in Monitors : Running(m))
        ~> (isFailsafe \/ hbAge <= HbTimeout \/ ~NoStart)

\* When heartbeats keep coming and the connection stays, failsafe is left for
\* good: no countdown or late tick sets it again.
FailsafeLeftForGood ==
    <>[](hbAge <= HbTimeout /\ NoStart /\ \E m \in Monitors : Running(m))
        => <>[]~isFailsafe

\* What cs/lpp/public.go says of the failsafe limit: it is activated in the
\* failsafe state.  That a monitor was started while isFailsafe is set makes no
\* difference: two seconds without input bring the limit to the topic.
FailsafeLimitInForce ==
    /\ Settled
    /\ calm = 2
    /\ isFailsafe
    /\ \E m \in resumed : Running(m)
    /\ ~overlapped
    => published \in FailsafeLimits

=============================================================================
