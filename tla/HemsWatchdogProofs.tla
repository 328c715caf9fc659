------------------------- MODULE HemsWatchdogProofs -------------------------
(***************************************************************************)
(* Proofs about the watchdog for every set of goroutines, every timeout    *)
(* and every set of limits: type correctness, and that overlapping starts  *)
(* are the only way to two live monitors.                                  *)
(***************************************************************************)
EXTENDS HemsWatchdog, TLAPS

\* A second passes: the arithmetic of its ages and durations stays in range.
LEMMA SecondTypeOK ==
    ASSUME TypeOK, Second
    PROVE  TypeOK'
<1> USE WatchdogAssumption
<1>1. hbAge' \in 0..AgeCap
  BY DEF TypeOK, Second, AgeCap
<1>2. cdLeft' \in [Countdowns -> Int]
  BY DEF TypeOK, Second
<1>3. limit' \in Limits
  <2>1. limit.left \in Nat
    BY DEF TypeOK, Limits
  <2>2. Remaining(limit.left) \in Nat
    BY <2>1 DEF Remaining
  <2> QED
    BY <2>2 DEF TypeOK, Second, Limits
<1>4. due' \subseteq Monitors \cup Countdowns
  BY DEF Second, RunningCountdowns
<1>5. calm' \in 0..2
  BY DEF TypeOK, Second
<1> QED
  BY <1>1, <1>2, <1>3, <1>4, <1>5
     DEF TypeOK, Second, monitorVars, topicVars

\* Each step of a monitor keeps the types.
LEMMA MonitorTypeOK ==
    ASSUME TypeOK, NEW m \in Monitors, MonitorStep(m)
    PROVE  TypeOK'
<1> USE WatchdogAssumption
    DEF TypeOK, remoteVars, topicVars, historyVars, countdownVars
<1>1. CASE RemoteSKIConnected(m)
  BY <1>1 DEF RemoteSKIConnected, StopTarget, Phases
<1>2. CASE Install(m)
  BY <1>2 DEF Install, Phases
<1>3. CASE Stop(m)
  BY <1>3 DEF Stop, Phases
<1>4. CASE TickSample(m)
  <2>1. HeartbeatLost \in BOOLEAN
    BY DEF HeartbeatLost
  <2>2. lost' \in [Monitors -> BOOLEAN]
    BY <1>4, <2>1, Zenon DEF TickSample
  <2> QED
    BY <1>4, <2>2 DEF TickSample, Phases
<1>5. CASE TickLost(m)
  BY <1>5 DEF TickLost, Phases
<1>6. CASE EnterFailsafe(m)
  BY <1>6 DEF EnterFailsafe, FailsafeProduction, Phases
<1>7. CASE TickRefresh(m)
  <2>1. -limit.value \in Int
    <3>1. limit.value \in LimitValues \/ limit.value = -NominalMax
      BY DEF Limits
    <3>2. LimitValues \subseteq Int /\ -NominalMax \in Int
      BY ONLY WatchdogAssumption
    <3>3. limit.value \in Int
      BY ONLY <3>1, <3>2, Zenon
    <3> QED
      BY ONLY <3>3
  <2>2. allowed' \in [Monitors -> Int]
    BY <1>7, <2>1 DEF TickRefresh
  <2>3. limitActiv' \in BOOLEAN
    BY <1>7 DEF TickRefresh
  <2> QED
    BY <1>7, <2>2, <2>3 DEF TickRefresh, Phases
<1> QED
  BY <1>1, <1>2, <1>3, <1>4, <1>5, <1>6, <1>7 DEF MonitorStep

\* Every variable keeps its type: what the goroutines and the event handlers
\* write to the shared globals stays within the values the code gives them.
THEOREM TypeCorrect == Spec => []TypeOK
<1>1. Init => TypeOK
  <2> SUFFICES ASSUME Init PROVE TypeOK
    OBVIOUS
  <2> USE WatchdogAssumption
  <2>1. phase \in [Monitors -> Phases] /\ cdLeft \in [Countdowns -> Int]
    BY DEF Init, Phases, Idle
  <2>2. limit \in Limits
    BY DEF Init, Limits, NoLimit
  <2>3. allowed \in [Monitors -> Int]
    BY DEF Init
  <2>4. lost \in [Monitors -> BOOLEAN]
    BY Zenon DEF Init
  <2>5. hbAge \in 0..AgeCap /\ published \in Int /\ calm \in 0..2
    BY DEF Init, AgeCap
  <2>6. /\ isFailsafe \in BOOLEAN /\ limitActiv \in BOOLEAN
        /\ overlapped \in BOOLEAN /\ reconnected \in BOOLEAN
        /\ current \in Monitors \cup {NoMonitor}
        /\ fsLimit \in FailsafeLimits /\ fsDuration \in FailsafeDurations
        /\ cancelled = {} /\ due = {} /\ ending = {}
        /\ refreshed = {} /\ resumed = {}
    BY DEF Init
  <2> QED
    BY <2>1, <2>2, <2>3, <2>4, <2>5, <2>6 DEF TypeOK
<1>2. TypeOK /\ [Next]_vars => TypeOK'
  <2> SUFFICES ASSUME TypeOK, [Next]_vars PROVE TypeOK'
    OBVIOUS
  <2> USE WatchdogAssumption DEF countdownVars
  <2>1. ASSUME NEW m \in Monitors, MonitorStep(m) PROVE TypeOK'
    BY <2>1, MonitorTypeOK
  <2>2. ASSUME NEW c \in Countdowns, CountdownTick(c) PROVE TypeOK'
    <3>1. limitActiv' \in BOOLEAN /\ ending' \subseteq Countdowns
      BY <2>2 DEF TypeOK, CountdownTick
    <3> QED
      BY <2>2, <3>1
         DEF TypeOK, CountdownTick, monitorVars, remoteVars, historyVars
  <2>3. CASE OnHeartbeat
    <3>1. hbAge' \in 0..AgeCap /\ calm' \in 0..2
      BY <2>3 DEF OnHeartbeat, AgeCap
    <3> QED
      BY <2>3, <3>1
         DEF TypeOK, OnHeartbeat, monitorVars, remoteVars, topicVars
  <2>4. ASSUME NEW active \in BOOLEAN, NEW v \in LimitValues,
               NEW d \in LimitDurations, OnLimitWrite(active, v, d)
        PROVE  TypeOK'
    BY <2>4 DEF TypeOK, OnLimitWrite, Limits, monitorVars, topicVars
  <2>5. ASSUME NEW l \in FailsafeLimits, NEW d \in FailsafeDurations,
               OnFailsafeWrite(l, d)
        PROVE  TypeOK'
    BY <2>5 DEF TypeOK, OnFailsafeWrite, monitorVars, topicVars
  <2>6. CASE Restart
    <3>1. phase' \in [Monitors -> Phases] /\ cdLeft' \in [Countdowns -> Int]
      BY <2>6 DEF Restart, Phases, Idle
    <3>2. limit' \in Limits
      BY <2>6 DEF Restart, Limits, NoLimit
    <3>3. hbAge' \in 0..AgeCap /\ published' \in Int /\ calm' \in 0..2
      BY <2>6 DEF TypeOK, Restart, AgeCap
    <3>4. allowed' \in [Monitors -> Int]
      BY <2>6 DEF Restart
    <3>5. lost' \in [Monitors -> BOOLEAN]
      BY <2>6, Zenon DEF Restart
    <3>6. /\ isFailsafe' \in BOOLEAN /\ limitActiv' \in BOOLEAN
          /\ overlapped' \in BOOLEAN /\ reconnected' \in BOOLEAN
          /\ current' \in Monitors \cup {NoMonitor}
          /\ fsLimit' \in FailsafeLimits /\ fsDuration' \in FailsafeDurations
          /\ cancelled' = {} /\ due' = {} /\ ending' = {}
          /\ refreshed' = {} /\ resumed' = {}
      BY <2>6 DEF TypeOK, Restart
    <3> QED
      BY <3>1, <3>2, <3>3, <3>4, <3>5, <3>6 DEF TypeOK
  <2>7. CASE Second
    BY <2>7, SecondTypeOK
  <2>8. CASE UNCHANGED vars
    BY <2>8 DEF TypeOK, vars, monitorVars, remoteVars, topicVars, historyVars
  <2>9. ASSUME NEW c \in Countdowns, CountdownEnd(c) PROVE TypeOK'
    <3>1. isFailsafe' \in BOOLEAN /\ ending' \subseteq Countdowns
      BY <2>9 DEF TypeOK, CountdownEnd
    <3>2. cdLeft' \in [Countdowns -> Int]
      BY <2>9 DEF TypeOK, CountdownEnd, Idle
    <3> QED
      BY <2>9, <3>1, <3>2
         DEF TypeOK, CountdownEnd, monitorVars, remoteVars, topicVars, historyVars
  <2> QED
    BY <2>1, <2>2, <2>3, <2>4, <2>5, <2>6, <2>7, <2>8, <2>9 DEF Next
<1> QED
  BY <1>1, <1>2, PTL DEF Spec

-----------------------------------------------------------------------------
(* SingleMonitor is not inductive: between the two halves of EKG the       *)
(* global cancel still names the old goroutine.  The strengthening says    *)
(* who may be alive then.                                                  *)

\* While one start is under way every live goroutine has been told to stop;
\* otherwise the one live goroutine is the one the global cancel names.
MonitorInv ==
    ~overlapped =>
        /\ \A m, n \in Monitors :
              phase[m] = "starting" /\ phase[n] = "starting" => m = n
        /\ \A m, n \in Monitors :
              phase[m] = "starting" /\ Running(n) => n \in cancelled
        /\ \A n \in Monitors : Running(n) /\ n \notin cancelled => n = current

\* A step that leaves the goroutines' standing alone keeps the invariant.
LEMMA MonitorInvFrame ==
    ASSUME MonitorInv, UNCHANGED <<current, cancelled, overlapped>>,
           \A m \in Monitors : /\ phase'[m] = "starting" <=> phase[m] = "starting"
                               /\ Running(m)' <=> Running(m)
    PROVE  MonitorInv'
BY DEF MonitorInv

\* The invariant is kept by every step of a monitor.
LEMMA MonitorInvStep ==
    ASSUME TypeOK, MonitorInv, NEW m \in Monitors, MonitorStep(m)
    PROVE  MonitorInv'
<1> USE DEF TypeOK, historyVars
<1>1. CASE RemoteSKIConnected(m)
  BY <1>1, WatchdogAssumption
     DEF RemoteSKIConnected, StopTarget, MonitorInv, Running
<1>2. CASE Install(m)
  BY <1>2 DEF Install, MonitorInv, Running
<1>3. CASE Stop(m)
  BY <1>3 DEF Stop, MonitorInv, Running
<1>4. CASE TickSample(m)
  BY <1>4, MonitorInvFrame DEF TickSample, Running
<1>5. CASE TickLost(m)
  BY <1>5, MonitorInvFrame DEF TickLost, Running
<1>6. CASE EnterFailsafe(m)
  BY <1>6, MonitorInvFrame DEF EnterFailsafe, Running
<1>7. CASE TickRefresh(m)
  BY <1>7, MonitorInvFrame DEF TickRefresh, Running
<1> QED
  BY <1>1, <1>2, <1>3, <1>4, <1>5, <1>6, <1>7 DEF MonitorStep

\* Every step keeps the invariant of the monitors.
LEMMA MonitorInvNext ==
    ASSUME TypeOK, MonitorInv, [Next]_vars
    PROVE  MonitorInv'
<1> USE DEF Running, monitorVars
<1>1. ASSUME NEW m \in Monitors, MonitorStep(m) PROVE MonitorInv'
  BY <1>1, MonitorInvStep
<1>2. ASSUME NEW c \in Countdowns, CountdownTick(c) PROVE MonitorInv'
  BY <1>2, MonitorInvFrame DEF CountdownTick, historyVars
<1>3. CASE OnHeartbeat
  BY <1>3, MonitorInvFrame DEF OnHeartbeat
<1>4. ASSUME NEW active \in BOOLEAN, NEW v \in LimitValues,
             NEW d \in LimitDurations, OnLimitWrite(active, v, d)
      PROVE  MonitorInv'
  BY <1>4, MonitorInvFrame DEF OnLimitWrite
<1>5. ASSUME NEW l \in FailsafeLimits, NEW d \in FailsafeDurations,
             OnFailsafeWrite(l, d)
      PROVE  MonitorInv'
  BY <1>5, MonitorInvFrame DEF OnFailsafeWrite
<1>6. CASE Restart
  BY <1>6 DEF Restart, MonitorInv
<1>7. CASE Second
  BY <1>7, MonitorInvFrame DEF Second
<1>8. CASE UNCHANGED vars
  BY <1>8, MonitorInvFrame DEF vars, historyVars
<1>9. ASSUME NEW c \in Countdowns, CountdownEnd(c) PROVE MonitorInv'
  BY <1>9, MonitorInvFrame DEF CountdownEnd, historyVars
<1> QED
  BY <1>1, <1>2, <1>3, <1>4, <1>5, <1>6, <1>7, <1>8, <1>9 DEF Next

\* Two live EKG goroutines need overlapping starts, however often the remote
\* reconnects and however late a cancelled goroutine notices.
THEOREM SingleMonitorHolds == Spec => []SingleMonitor
<1>1. Init => MonitorInv
  BY DEF Init, MonitorInv, Running
<1>2. TypeOK /\ MonitorInv /\ [Next]_vars => MonitorInv'
  BY MonitorInvNext
<1>3. MonitorInv => SingleMonitor
  BY DEF MonitorInv, SingleMonitor
<1> QED
  BY <1>1, <1>2, <1>3, TypeCorrect, PTL DEF Spec

-----------------------------------------------------------------------------
(* What the timed properties rest on: where goroutines stand while the     *)
(* application settles after each second.                                  *)

\* A goroutine that has not been told to stop.
Live(m) == Running(m) /\ m \notin cancelled

\* A goroutine that has not finished handling its last tick.
Busy(m) == m \in due \/ phase[m] \in {"sampled", "entering"}

\* Only running goroutines have ticks, have refreshed and can be stopped; a sample
\* taken after the timeout says lost; a second without input leaves no start or
\* stop under way.
StandingInv ==
    /\ \A m \in Monitors : ~Running(m) => m \notin due \cup refreshed \cup cancelled
    /\ (due \cap Countdowns) \cup ending \subseteq RunningCountdowns
    /\ due \cap ending = {}
    /\ \A m \in Monitors :
          phase[m] = "sampled" /\ hbAge > HbTimeout => lost[m]
    /\ calm >= 1 => /\ hbAge >= 1
                    /\ cancelled = {}
                    /\ NoStart

\* Ticks are handled by one goroutine at a time, and one that is live and has had a
\* tick is the only one that runs.
SoleInv ==
    ~overlapped =>
        /\ \A m, n \in Monitors : Busy(m) /\ Busy(n) => m = n
        /\ \A m, n \in Monitors :
              Live(m) /\ (Busy(m) \/ m \in refreshed) /\ Running(n) => n = m

\* Every step keeps the invariant above: of running goroutines.
LEMMA StandingStep ==
    ASSUME TypeOK, StandingInv, [Next]_vars
    PROVE  StandingInv'
<1> USE WatchdogAssumption DEF TypeOK, countdownVars, StandingInv, Running, NoStart, RunningCountdowns
<1>1. ASSUME NEW m \in Monitors, MonitorStep(m) PROVE StandingInv'
  <2>1. CASE RemoteSKIConnected(m)
    BY <2>1 DEF RemoteSKIConnected, StopTarget
  <2>2. CASE Install(m)
    BY <2>2 DEF Install
  <2>3. CASE Stop(m)
    BY <2>3 DEF Stop
  <2>4. CASE TickSample(m)
    BY <2>4 DEF TickSample, HeartbeatLost, historyVars, AgeCap
  <2>5. CASE TickLost(m)
    BY <2>5 DEF TickLost, historyVars
  <2>6. CASE EnterFailsafe(m)
    BY <2>6 DEF EnterFailsafe, historyVars
  <2>7. CASE TickRefresh(m)
    BY <2>7 DEF TickRefresh
  <2> QED
    BY <1>1, <2>1, <2>2, <2>3, <2>4, <2>5, <2>6, <2>7 DEF MonitorStep
<1>2. ASSUME NEW c \in Countdowns, CountdownTick(c) PROVE StandingInv'
  BY <1>2 DEF CountdownTick, monitorVars, historyVars
<1>3. CASE OnHeartbeat
  BY <1>3 DEF OnHeartbeat, monitorVars, AgeCap
<1>4. ASSUME NEW active \in BOOLEAN, NEW v \in LimitValues,
             NEW d \in LimitDurations, OnLimitWrite(active, v, d)
      PROVE  StandingInv'
  BY <1>4 DEF OnLimitWrite, monitorVars
<1>5. ASSUME NEW l \in FailsafeLimits, NEW d \in FailsafeDurations,
             OnFailsafeWrite(l, d)
      PROVE  StandingInv'
  BY <1>5 DEF OnFailsafeWrite, monitorVars
<1>6. CASE Restart
  BY <1>6 DEF Restart
<1>7. CASE Second
  BY <1>7 DEF Second, Settled, monitorVars, AgeCap, Idle
<1>8. CASE UNCHANGED vars
  BY <1>8 DEF vars, monitorVars, historyVars
<1>9. ASSUME NEW c \in Countdowns, CountdownEnd(c) PROVE StandingInv'
  BY <1>9
     DEF CountdownEnd, monitorVars, historyVars
<1> QED
  BY <1>1, <1>2, <1>3, <1>4, <1>5, <1>6, <1>7, <1>8, <1>9 DEF Next

\* Of the live goroutine that runs alone.
LEMMA SoleStep ==
    ASSUME TypeOK, StandingInv, MonitorInv, SoleInv, [Next]_vars
    PROVE  SoleInv'
<1> USE WatchdogAssumption DEF TypeOK, countdownVars, StandingInv, SoleInv, Running, Live, Busy
<1>1. ASSUME NEW m \in Monitors, MonitorStep(m) PROVE SoleInv'
  <2>1. CASE RemoteSKIConnected(m)
    BY <2>1 DEF RemoteSKIConnected, StopTarget, MonitorInv
  <2>2. CASE Install(m)
    BY <2>2 DEF Install, MonitorInv
  <2>3. CASE Stop(m)
    BY <2>3 DEF Stop
  <2>4. CASE TickSample(m)
    BY <2>4 DEF TickSample, historyVars
  <2>5. CASE TickLost(m)
    BY <2>5 DEF TickLost, historyVars
  <2>6. CASE EnterFailsafe(m)
    BY <2>6 DEF EnterFailsafe, historyVars
  <2>7. CASE TickRefresh(m)
    BY <2>7 DEF TickRefresh
  <2> QED
    BY <1>1, <2>1, <2>2, <2>3, <2>4, <2>5, <2>6, <2>7 DEF MonitorStep
<1>2. ASSUME NEW c \in Countdowns, CountdownTick(c) PROVE SoleInv'
  BY <1>2 DEF CountdownTick, monitorVars, historyVars
<1>3. CASE OnHeartbeat
  BY <1>3 DEF OnHeartbeat, monitorVars
<1>4. ASSUME NEW active \in BOOLEAN, NEW v \in LimitValues,
             NEW d \in LimitDurations, OnLimitWrite(active, v, d)
      PROVE  SoleInv'
  BY <1>4 DEF OnLimitWrite, monitorVars
<1>5. ASSUME NEW l \in FailsafeLimits, NEW d \in FailsafeDurations,
             OnFailsafeWrite(l, d)
      PROVE  SoleInv'
  BY <1>5 DEF OnFailsafeWrite, monitorVars
<1>6. CASE Restart
  BY <1>6 DEF Restart
<1>7. CASE Second
  BY <1>7 DEF Second, Settled, monitorVars, MonitorInv, RunningCountdowns
<1>8. CASE UNCHANGED vars
  BY <1>8 DEF vars, monitorVars, historyVars
<1>9. ASSUME NEW c \in Countdowns, CountdownEnd(c) PROVE SoleInv'
  BY <1>9
     DEF CountdownEnd, monitorVars, historyVars
<1> QED
  BY <1>1, <1>2, <1>3, <1>4, <1>5, <1>6, <1>7, <1>8, <1>9 DEF Next

-----------------------------------------------------------------------------
(* With the heartbeat back.                                                *)

Alive == hbAge \in 1..HbTimeout

\* A second after a heartbeat nobody is about to enter failsafe, and whoever still
\* has its tick will leave it; a second later nobody is in failsafe and the
\* countdowns are about to notice.
AliveInv ==
    /\ calm >= 1 /\ Alive =>
         \A m \in Monitors : /\ phase[m] # "entering"
                             /\ phase[m] = "sampled" => ~lost[m]
                             /\ isFailsafe /\ Running(m) => Busy(m)
    /\ calm = 2 /\ Alive /\ (\E m \in Monitors : Running(m)) =>
         /\ ~isFailsafe
         /\ RunningCountdowns \subseteq due \cup ending

\* Of the heartbeat that ends failsafe.
LEMMA AliveStep ==
    ASSUME TypeOK, StandingInv, AliveInv, [Next]_vars
    PROVE  AliveInv'
<1> USE WatchdogAssumption
    DEF TypeOK, countdownVars, StandingInv, AliveInv, Alive, Running, Busy, RunningCountdowns
<1>1. ASSUME NEW m \in Monitors, MonitorStep(m) PROVE AliveInv'
  <2>1. CASE RemoteSKIConnected(m)
    BY <2>1 DEF RemoteSKIConnected
  <2>2. CASE Install(m)
    BY <2>2 DEF Install
  <2>3. CASE Stop(m)
    BY <2>3 DEF Stop
  <2>4. CASE TickSample(m)
    <3>1. Alive => ~HeartbeatLost
      BY DEF HeartbeatLost
    <3>2. Alive => ~lost'[m]
      BY ONLY <2>4, <3>1, TypeOK, m \in Monitors, Zenon DEF TypeOK, TickSample
    <3> QED
      BY <2>4, <3>2 DEF TickSample, historyVars
  <2>5. CASE TickLost(m)
    BY <2>5 DEF TickLost, historyVars
  <2>6. CASE EnterFailsafe(m)
    BY <2>6 DEF EnterFailsafe, historyVars
  <2>7. CASE TickRefresh(m)
    BY <2>7 DEF TickRefresh
  <2> QED
    BY <1>1, <2>1, <2>2, <2>3, <2>4, <2>5, <2>6, <2>7 DEF MonitorStep
<1>2. ASSUME NEW c \in Countdowns, CountdownTick(c) PROVE AliveInv'
  BY <1>2 DEF CountdownTick, CountdownOngoing, monitorVars, historyVars
<1>3. CASE OnHeartbeat
  BY <1>3 DEF OnHeartbeat
<1>4. ASSUME NEW active \in BOOLEAN, NEW v \in LimitValues,
             NEW d \in LimitDurations, OnLimitWrite(active, v, d)
      PROVE  AliveInv'
  BY <1>4 DEF OnLimitWrite
<1>5. ASSUME NEW l \in FailsafeLimits, NEW d \in FailsafeDurations,
             OnFailsafeWrite(l, d)
      PROVE  AliveInv'
  BY <1>5 DEF OnFailsafeWrite
<1>6. CASE Restart
  BY <1>6 DEF Restart
<1>7. CASE Second
  BY <1>7 DEF Second, Settled, monitorVars, AgeCap, Idle
<1>8. CASE UNCHANGED vars
  BY <1>8 DEF vars, monitorVars, historyVars
<1>9. ASSUME NEW c \in Countdowns, CountdownEnd(c) PROVE AliveInv'
  BY <1>9
     DEF CountdownEnd, monitorVars, historyVars
<1> QED
  BY <1>1, <1>2, <1>3, <1>4, <1>5, <1>6, <1>7, <1>8, <1>9 DEF Next

\* The value v is the limit in force, or the nominal maximum without one.
Follows(v) ==
    /\ limit.active /\ limit.left > 0 => v = -limit.value
    /\ limit.left = 0 => v = NominalMax

\* The topic limit_activ tells the same.
FollowsActiv ==
    /\ limit.active /\ limit.left > 0 => limitActiv
    /\ limit.left = 0 => ~limitActiv

\* A second without input brings the limit into the allowed production, the next
\* one brings it to the topic.
FollowedInv ==
    ~overlapped /\ calm >= 1 /\ Alive =>
        \A m \in Monitors : Running(m) =>
            /\ ~Busy(m) \/ calm = 2 => Follows(allowed[m]) /\ FollowsActiv
            /\ calm = 2 /\ m \notin due => Follows(published)

\* Of the limit that is followed.
LEMMA FollowedStep ==
    ASSUME TypeOK, StandingInv, MonitorInv, AliveInv, FollowedInv, [Next]_vars
    PROVE  FollowedInv'
<1> USE WatchdogAssumption
    DEF TypeOK, countdownVars, StandingInv, FollowedInv, Alive, Running, Busy, Follows,
        FollowsActiv
<1>1. ASSUME NEW m \in Monitors, MonitorStep(m) PROVE FollowedInv'
  <2>1. CASE RemoteSKIConnected(m)
    BY <2>1 DEF RemoteSKIConnected
  <2>2. CASE Install(m)
    BY <2>2 DEF Install
  <2>3. CASE Stop(m)
    BY <2>3 DEF Stop
  <2>4. CASE TickSample(m)
    BY <2>4 DEF TickSample, historyVars, remoteVars, MonitorInv
  <2>5. CASE TickLost(m)
    BY <2>5 DEF TickLost, historyVars, remoteVars, topicVars, AliveInv
  <2>6. CASE EnterFailsafe(m)
    BY <2>6 DEF EnterFailsafe, historyVars, remoteVars, AliveInv
  <2>7. CASE TickRefresh(m)
    BY <2>7 DEF TickRefresh, remoteVars, LimitInForce, MonitorInv, Limits
  <2> QED
    BY <1>1, <2>1, <2>2, <2>3, <2>4, <2>5, <2>6, <2>7 DEF MonitorStep
<1>2. ASSUME NEW c \in Countdowns, CountdownTick(c) PROVE FollowedInv'
  BY <1>2
     DEF CountdownTick, CountdownOngoing, monitorVars, remoteVars, historyVars,
         AliveInv
<1>3. CASE OnHeartbeat
  BY <1>3 DEF OnHeartbeat
<1>4. ASSUME NEW active \in BOOLEAN, NEW v \in LimitValues,
             NEW d \in LimitDurations, OnLimitWrite(active, v, d)
      PROVE  FollowedInv'
  BY <1>4 DEF OnLimitWrite
<1>5. ASSUME NEW l \in FailsafeLimits, NEW d \in FailsafeDurations,
             OnFailsafeWrite(l, d)
      PROVE  FollowedInv'
  BY <1>5 DEF OnFailsafeWrite
<1>6. CASE Restart
  BY <1>6 DEF Restart
<1>7. CASE Second
  BY <1>7 DEF Second, Settled, Remaining, Limits, monitorVars, topicVars, AgeCap
<1>8. CASE UNCHANGED vars
  BY <1>8 DEF vars, monitorVars, historyVars, remoteVars, topicVars
<1>9. ASSUME NEW c \in Countdowns, CountdownEnd(c) PROVE FollowedInv'
  BY <1>9
     DEF CountdownEnd, monitorVars, remoteVars, topicVars, historyVars, AliveInv
<1> QED
  BY <1>1, <1>2, <1>3, <1>4, <1>5, <1>6, <1>7, <1>8, <1>9 DEF Next

-----------------------------------------------------------------------------
(* With the heartbeat lost.                                                *)

\* A goroutine that saw the heartbeat alive and lost it has a failsafe limit as its
\* allowed production when failsafe is active, one second after the timeout at the
\* latest, and publishes it one second later.
LossInv ==
    ~overlapped =>
        \A m \in refreshed : Live(m) =>
            /\ isFailsafe => allowed[m] \in FailsafeLimits
            /\ hbAge > HbTimeout => Busy(m) \/ allowed[m] \in FailsafeLimits
            /\ hbAge = AgeCap => /\ allowed[m] \in FailsafeLimits
                                 /\ m \in due \/ published \in FailsafeLimits

\* Of the loss that is published.
LEMMA LossStep ==
    ASSUME TypeOK, StandingInv, SoleInv, LossInv, [Next]_vars
    PROVE  LossInv'
<1> USE WatchdogAssumption
    DEF TypeOK, countdownVars, StandingInv, LossInv, Running, Live, Busy
<1>1. ASSUME NEW m \in Monitors, MonitorStep(m) PROVE LossInv'
  <2>1. CASE RemoteSKIConnected(m)
    BY <2>1 DEF RemoteSKIConnected, remoteVars, topicVars
  <2>2. CASE Install(m)
    BY <2>2 DEF Install, remoteVars, topicVars
  <2>3. CASE Stop(m)
    BY <2>3 DEF Stop, remoteVars, topicVars
  <2>4. CASE TickSample(m)
    BY <2>4 DEF TickSample, historyVars, remoteVars, SoleInv
  <2>5. CASE TickLost(m)
    BY <2>5 DEF TickLost, MayEnter, historyVars, remoteVars, topicVars, SoleInv
  <2>6. CASE EnterFailsafe(m)
    BY <2>6 DEF EnterFailsafe, FailsafeProduction, historyVars, remoteVars, SoleInv
  <2>7. CASE TickRefresh(m)
    BY <2>7 DEF TickRefresh, remoteVars, SoleInv, AgeCap
  <2> QED
    BY <1>1, <2>1, <2>2, <2>3, <2>4, <2>5, <2>6, <2>7 DEF MonitorStep
<1>2. ASSUME NEW c \in Countdowns, CountdownTick(c) PROVE LossInv'
  BY <1>2 DEF CountdownTick, monitorVars, historyVars, remoteVars
<1>3. CASE OnHeartbeat
  BY <1>3 DEF OnHeartbeat, monitorVars, AgeCap
<1>4. ASSUME NEW active \in BOOLEAN, NEW v \in LimitValues,
             NEW d \in LimitDurations, OnLimitWrite(active, v, d)
      PROVE  LossInv'
  BY <1>4 DEF OnLimitWrite, monitorVars, topicVars
<1>5. ASSUME NEW l \in FailsafeLimits, NEW d \in FailsafeDurations,
             OnFailsafeWrite(l, d)
      PROVE  LossInv'
  BY <1>5 DEF OnFailsafeWrite, monitorVars, topicVars
<1>6. CASE Restart
  BY <1>6 DEF Restart
<1>7. CASE Second
  BY <1>7 DEF Second, Settled, monitorVars, topicVars, AgeCap
<1>8. CASE UNCHANGED vars
  BY <1>8 DEF vars, monitorVars, historyVars, remoteVars, topicVars
<1>9. ASSUME NEW c \in Countdowns, CountdownEnd(c) PROVE LossInv'
  BY <1>9
     DEF CountdownEnd, monitorVars, remoteVars, topicVars, historyVars
<1> QED
  BY <1>1, <1>2, <1>3, <1>4, <1>5, <1>6, <1>7, <1>8, <1>9 DEF Next

-----------------------------------------------------------------------------
(* The countdowns of successive failsafes.                                 *)

\* Failsafe and its countdowns come from goroutines, and of these one is always
\* live or being started: a reconnection stops one only to start another.
KeptInv ==
    /\ isFailsafe => RunningCountdowns # {}
    /\ \/ RunningCountdowns # {}
       \/ \E m \in Monitors : Running(m)
       => \E m \in Monitors : phase[m] = "starting" \/ Live(m)

\* A heartbeat ends failsafe within a second and the countdowns within another, so
\* that the next loss finds none; from then on one runs exactly while failsafe is
\* active, and nobody is about to start another one.
CountdownInv ==
    ~overlapped /\ ~reconnected =>
        /\ Alive =>
              \A m \in Monitors : /\ phase[m] # "entering"
                                  /\ phase[m] = "sampled" => ~lost[m]
        /\ hbAge = 1 /\ isFailsafe =>
              NoStart /\ \A m \in Monitors : Live(m) => Busy(m)
        /\ hbAge \in 2..HbTimeout =>
              ~isFailsafe /\ RunningCountdowns \subseteq due \cup ending
        /\ hbAge > HbTimeout =>
              /\ \A c, d \in RunningCountdowns : c = d
              /\ \A m \in Monitors :
                    phase[m] = "entering" => RunningCountdowns = {}
              /\ RunningCountdowns # {} => isFailsafe

\* Of the goroutine failsafe and its countdowns come from.
LEMMA KeptStep ==
    ASSUME TypeOK, StandingInv, KeptInv, [Next]_vars
    PROVE  KeptInv'
<1> USE WatchdogAssumption
    DEF TypeOK, countdownVars, StandingInv, KeptInv, Running, Live, RunningCountdowns
<1>1. ASSUME NEW m \in Monitors, MonitorStep(m) PROVE KeptInv'
  <2>1. CASE RemoteSKIConnected(m)
    BY <2>1 DEF RemoteSKIConnected, StopTarget
  <2>2. CASE Install(m)
    BY <2>2 DEF Install
  <2>3. CASE Stop(m)
    BY <2>3 DEF Stop
  <2>4. CASE TickSample(m)
    BY <2>4 DEF TickSample
  <2>5. CASE TickLost(m)
    BY <2>5 DEF TickLost
  <2>6. CASE EnterFailsafe(m)
    BY <2>6 DEF EnterFailsafe, RunningCountdowns, Idle
  <2>7. CASE TickRefresh(m)
    BY <2>7 DEF TickRefresh
  <2> QED
    BY <1>1, <2>1, <2>2, <2>3, <2>4, <2>5, <2>6, <2>7 DEF MonitorStep
<1>2. ASSUME NEW c \in Countdowns, CountdownTick(c) PROVE KeptInv'
  BY <1>2 DEF CountdownTick, monitorVars, historyVars
<1>3. CASE OnHeartbeat
  BY <1>3 DEF OnHeartbeat, monitorVars
<1>4. ASSUME NEW active \in BOOLEAN, NEW v \in LimitValues,
             NEW d \in LimitDurations, OnLimitWrite(active, v, d)
      PROVE  KeptInv'
  BY <1>4 DEF OnLimitWrite, monitorVars
<1>5. ASSUME NEW l \in FailsafeLimits, NEW d \in FailsafeDurations,
             OnFailsafeWrite(l, d)
      PROVE  KeptInv'
  BY <1>5 DEF OnFailsafeWrite, monitorVars
<1>6. CASE Restart
  BY <1>6 DEF Restart
<1>7. CASE Second
  BY <1>7 DEF Second, monitorVars, Idle
<1>8. CASE UNCHANGED vars
  BY <1>8 DEF vars, monitorVars, historyVars
<1>9. ASSUME NEW c \in Countdowns, CountdownEnd(c) PROVE KeptInv'
  BY <1>9
     DEF CountdownEnd, monitorVars, historyVars
<1> QED
  BY <1>1, <1>2, <1>3, <1>4, <1>5, <1>6, <1>7, <1>8, <1>9 DEF Next

\* Of countdowns that do not overlap.
LEMMA CountdownStep ==
    ASSUME TypeOK, StandingInv, MonitorInv, SoleInv, KeptInv, CountdownInv,
           HbTimeout > 1, [Next]_vars
    PROVE  CountdownInv'
<1> USE WatchdogAssumption
    DEF TypeOK, countdownVars, StandingInv, CountdownInv, Alive, Running, Live, Busy,
        RunningCountdowns, NoStart
<1>1. ASSUME NEW m \in Monitors, MonitorStep(m) PROVE CountdownInv'
  <2>1. CASE RemoteSKIConnected(m)
    BY <2>1 DEF RemoteSKIConnected, KeptInv
  <2>2. CASE Install(m)
    BY <2>2 DEF Install, KeptInv
  <2>3. CASE Stop(m)
    BY <2>3 DEF Stop
  <2>4. CASE TickSample(m)
    BY <2>4 DEF TickSample, HeartbeatLost, historyVars
  <2>5. CASE TickLost(m)
    BY <2>5 DEF TickLost, MayEnter, historyVars
  <2>6. CASE EnterFailsafe(m)
    BY <2>6 DEF EnterFailsafe, historyVars, SoleInv
  <2>7. CASE TickRefresh(m)
    BY <2>7 DEF TickRefresh
  <2> QED
    BY <1>1, <2>1, <2>2, <2>3, <2>4, <2>5, <2>6, <2>7 DEF MonitorStep
<1>2. ASSUME NEW c \in Countdowns, CountdownTick(c) PROVE CountdownInv'
  BY <1>2 DEF CountdownTick, CountdownOngoing, monitorVars, historyVars
<1>3. CASE OnHeartbeat
  BY <1>3 DEF OnHeartbeat
<1>4. ASSUME NEW active \in BOOLEAN, NEW v \in LimitValues,
             NEW d \in LimitDurations, OnLimitWrite(active, v, d)
      PROVE  CountdownInv'
  BY <1>4 DEF OnLimitWrite, monitorVars
<1>5. ASSUME NEW l \in FailsafeLimits, NEW d \in FailsafeDurations,
             OnFailsafeWrite(l, d)
      PROVE  CountdownInv'
  BY <1>5 DEF OnFailsafeWrite, monitorVars
<1>6. CASE Restart
  BY <1>6 DEF Restart, AgeCap
<1>7. CASE Second
  BY <1>7 DEF Second, Settled, KeptInv, MonitorInv, monitorVars, AgeCap, Idle
<1>8. CASE UNCHANGED vars
  BY <1>8 DEF vars, monitorVars, historyVars
<1>9. ASSUME NEW c \in Countdowns, CountdownEnd(c) PROVE CountdownInv'
  <2>1. RunningCountdowns' = RunningCountdowns \ {c}
    BY <1>9 DEF CountdownEnd, Idle
  <2>2. c \in RunningCountdowns
    BY <1>9 DEF CountdownEnd
  <2> QED
    BY <1>9, <2>1, <2>2 DEF CountdownEnd, monitorVars, historyVars
<1> QED
  BY <1>1, <1>2, <1>3, <1>4, <1>5, <1>6, <1>7, <1>8, <1>9 DEF Next

\* No other step starts a countdown.
LEMMA OnlyEnteringStartsCountdown ==
    ASSUME TypeOK, [Next]_vars, RunningCountdowns' \ RunningCountdowns # {}
    PROVE  \E m \in Monitors : EnterFailsafe(m)
<1> USE DEF RunningCountdowns
<1>1. cdLeft' # cdLeft
  OBVIOUS
<1>2. \A c \in Countdowns : ~CountdownTick(c) /\ ~CountdownEnd(c)
  BY <1>1 DEF TypeOK, CountdownTick, CountdownEnd
<1>3. ~Second
  BY DEF TypeOK, Second, Idle
<1>4. ~Restart
  BY DEF Restart
<1>5. \A m \in Monitors : MonitorStep(m) => EnterFailsafe(m)
  BY <1>1 DEF MonitorStep, RemoteSKIConnected, Install, Stop, TickSample,
              TickLost, TickRefresh, countdownVars
<1> QED
  BY <1>1, <1>2, <1>3, <1>4, <1>5
     DEF Next, OnHeartbeat, OnLimitWrite, OnFailsafeWrite, vars, countdownVars

-----------------------------------------------------------------------------
(* The theorems.                                                           *)

\* The invariants of this module, each resting on those before it.
Inductive == StandingInv /\ MonitorInv /\ SoleInv /\ AliveInv /\ FollowedInv
             /\ LossInv /\ KeptInv

\* They hold together, whatever the goroutines, the remote device and time do.
THEOREM InductiveHolds == Spec => []Inductive
<1>1. Init => Inductive
  <2> SUFFICES ASSUME Init PROVE Inductive
    OBVIOUS
  <2>1. \A m \in Monitors : phase[m] = "idle"
    BY DEF Init
  <2>2. RunningCountdowns = {}
    BY DEF Init, RunningCountdowns
  <2> QED
    BY <2>1, <2>2, WatchdogAssumption
       DEF Init, Inductive, StandingInv, MonitorInv, SoleInv, AliveInv, FollowedInv,
           LossInv, KeptInv, Running, Live, Busy, Alive, NoStart
<1>2. TypeOK /\ Inductive /\ [Next]_vars => Inductive'
  BY MonitorInvNext, StandingStep, SoleStep, AliveStep, FollowedStep, LossStep,
     KeptStep
     DEF Inductive
<1> QED
  BY <1>1, <1>2, TypeCorrect, PTL DEF Spec

\* The heartbeat ends failsafe within a second and its countdowns within two,
\* whoever was about to enter it.
THEOREM HeartbeatEndsFailsafeHolds == Spec => []HeartbeatEndsFailsafe
<1>1. TypeOK /\ Inductive => HeartbeatEndsFailsafe
  BY WatchdogAssumption
     DEF TypeOK, Inductive, StandingInv, AliveInv, HeartbeatEndsFailsafe, Settled,
         Running, Busy, Alive, RunningCountdowns
<1> QED
  BY <1>1, TypeCorrect, InductiveHolds, PTL

\* With a heartbeat and two seconds without input the topics show the limit in
\* force, or the nominal maximum.
THEOREM LimitFollowedHolds == Spec => []LimitFollowed
<1>1. TypeOK /\ Inductive => LimitFollowed
  BY WatchdogAssumption
     DEF TypeOK, Inductive, StandingInv, FollowedInv, LimitFollowed, Settled,
         Running, Busy, Alive, Follows, FollowsActiv
<1> QED
  BY <1>1, TypeCorrect, InductiveHolds, PTL

\* Two seconds after the timeout subscribers were told a failsafe limit, if the
\* goroutine in charge saw the heartbeat alive.
THEOREM LossPublishedHolds == Spec => []LossPublished
<1>1. TypeOK /\ Inductive => LossPublished
  BY DEF TypeOK, Inductive, LossInv, LossPublished, Settled, Running, Live, Busy
<1> QED
  BY <1>1, TypeCorrect, InductiveHolds, PTL

\* Countdowns run one after the other, if the timeout is at least the two seconds
\* that a countdown may take to notice that failsafe has ended.
THEOREM CountdownsSequentialHolds ==
    HbTimeout > 1 => (Spec => CountdownsSequential)
<1> SUFFICES ASSUME HbTimeout > 1 PROVE Spec => CountdownsSequential
  OBVIOUS
<1>1. Init => CountdownInv
  BY DEF Init, CountdownInv, Running, Live, Busy, Alive, RunningCountdowns
<1>2. /\ TypeOK /\ Inductive /\ CountdownInv /\ [Next]_vars
      => CountdownInv'
  BY CountdownStep DEF Inductive
<1>3. TypeOK /\ CountdownInv /\ [Next]_vars
      => [/\ RunningCountdowns' \ RunningCountdowns # {}
          /\ hbAge > HbTimeout
          /\ ~reconnected
          /\ ~overlapped
          => RunningCountdowns = {}]_vars
  <2> SUFFICES ASSUME TypeOK, CountdownInv, [Next]_vars, hbAge > HbTimeout,
                      ~reconnected, ~overlapped,
                      RunningCountdowns' \ RunningCountdowns # {}
               PROVE  RunningCountdowns = {}
    OBVIOUS
  <2>1. PICK m \in Monitors : EnterFailsafe(m)
    BY OnlyEnteringStartsCountdown
  <2>2. phase[m] = "entering"
    BY <2>1 DEF EnterFailsafe
  <2> QED
    BY <2>2 DEF CountdownInv
<1> QED
  BY <1>1, <1>2, <1>3, TypeCorrect, InductiveHolds, PTL
     DEF Spec, CountdownsSequential

=============================================================================
