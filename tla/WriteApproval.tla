---------------------------- MODULE WriteApproval ----------------------------
(***************************************************************************)
(* The approval of limit writes (usecases/cs/lpc, usecases/cs/lpp, and the *)
(* handlers OnLPCEvent and OnLPPEvent of devices/hems/main.go).            *)
(*                                                                         *)
(* Both use cases share one LoadControl server feature, and each registers *)
(* a callback there.  A write of the remote device is applied once both    *)
(* callbacks approved it, refused once one denied it, and answered with a  *)
(* timeout otherwise.  The feature is spine code, outside the repository:  *)
(* its part (the timers, the counting of approvals) is modelled from how   *)
(* the callbacks and ApproveOrDenyWrite are used, and marked external.     *)
(*                                                                         *)
(* The application registers one remote device.  Its message counter       *)
(* starts again with every connection.  The use cases key their pending    *)
(* writes by that counter alone and keep them across connections.          *)
(***************************************************************************)
EXTENDS Integers, FiniteSets

CONSTANTS
    MaxWrites,   \* bound: writes the remote device sends
    MaxCounter,  \* bound: the highest message counter it reaches
    Payloads     \* what a write may carry, see PayloadType

LPC == "lpc"
LPP == "lpp"
UseCases == {LPC, LPP}

\* The limits a write addresses (with none, its list is empty or names other
\* limits only), whether it has a list, and what the production limit says.
PayloadType == [items : SUBSET UseCases, hasData : BOOLEAN,
                active : BOOLEAN, value : Int, duration : Nat]

ASSUME WriteApprovalAssumption ==
    /\ MaxWrites \in Nat
    /\ MaxCounter \in Nat \ {0}
    /\ Payloads \subseteq PayloadType
    /\ \A p \in Payloads : ~p.hasData => p.items = {}

Writes == 1..MaxWrites
Counters == 1..MaxCounter
None == 0           \* no write
Stages == {"none", "called", "approving", "event", "deciding"}
Outcomes == {"none", "waiting", "applied", "refused", "timeout", "dropped"}

VARIABLES
    sent,      \* number of writes sent so far; writes are 1..sent
    counter,   \* message counter of the remote device in this connection
    msg,       \* what each write carries: its counter and its payload
    pending,   \* pendingLimits of each use case: counter -> write, or None
    stage,     \* where the callback goroutine of a use case stands per write
    todo,      \* the pending writes OnLPPEvent still has to decide, per goroutine
    timer,     \* spine: counter -> the write awaiting approval, or None
    received,  \* spine: counter -> approvals counted so far
    outcome,   \* the answer the remote device got to each write
    applied    \* writes whose data the LoadControl feature took over

(* History variable.                                                       *)
VARIABLE
    together   \* writes that were awaiting approval together with another one

vars == <<sent, counter, msg, pending, stage, todo, timer, received, outcome,
          applied, together>>
spineVars == <<timer, received, outcome, applied>>

Sent == 1..sent
NoPayload == [items |-> {}, hasData |-> FALSE, active |-> FALSE, value |-> 0,
              duration |-> 0]
NoMsg == [ctr |-> 1, load |-> NoPayload]

Init ==
    /\ sent = 0
    /\ counter = 1
    /\ msg = [w \in Writes |-> NoMsg]
    /\ pending = [u \in UseCases |-> [c \in Counters |-> None]]
    /\ stage = [u \in UseCases |-> [w \in Writes |-> "none"]]
    /\ todo = [w \in Writes |-> {}]
    /\ timer = [c \in Counters |-> None]
    /\ received = [c \in Counters |-> 0]
    /\ outcome = [w \in Writes |-> "none"]
    /\ applied = {}
    /\ together = {}

-----------------------------------------------------------------------------
(* The remote device and the LoadControl feature of spine.                 *)

Waiting == {w \in Sent : outcome[w] = "waiting"}

\* A write arrives: a timer is armed and both callbacks are called, each in a
\* goroutine of its own.
RemoteWrite(p) ==
    /\ sent < MaxWrites
    /\ counter <= MaxCounter
    /\ LET w == sent + 1 IN
         /\ sent' = w
         /\ msg' = [msg EXCEPT ![w] = [ctr |-> counter, load |-> p]]
         /\ timer' = [timer EXCEPT ![counter] = w]
         /\ outcome' = [outcome EXCEPT ![w] = "waiting"]
         /\ stage' = [u \in UseCases |-> [stage[u] EXCEPT ![w] = "called"]]
         /\ together' = IF Waiting = {} THEN together
                        ELSE together \cup Waiting \cup {w}
    /\ counter' = counter + 1
    /\ UNCHANGED <<pending, todo, received, applied>>

\* The device disconnects and connects again.  spine drops what it kept for the
\* device; the goroutines and the use cases go on with what they hold.
Reconnect ==
    /\ counter' = 1
    /\ timer' = [c \in Counters |-> None]
    /\ received' = [c \in Counters |-> 0]
    /\ outcome' = [w \in Writes |->
                     IF outcome[w] = "waiting" THEN "dropped" ELSE outcome[w]]
    /\ UNCHANGED <<sent, msg, pending, stage, todo, applied, together>>

\* Nobody decided in time: the remote device gets an error.
ApprovalTimeout(c) ==
    /\ timer[c] # None
    /\ timer' = [timer EXCEPT ![c] = None]
    /\ outcome' = [outcome EXCEPT ![timer[c]] = "timeout"]
    /\ UNCHANGED <<sent, counter, msg, pending, stage, todo, received, applied,
                   together>>

\* There is a timer for this counter, else the decision has no effect.
Awaited(c) == timer[c] # None

\* One more approval.  The first one for a counter starts a map of its own for
\* the device, so the counts of its other writes are forgotten.
Counted(c) ==
    IF received[c] > 0
      THEN [received EXCEPT ![c] = @ + 1]
      ELSE [d \in Counters |-> IF d = c THEN 1 ELSE 0]

\* Mutant: the count of a concluded write is kept.
ConcludeCountKept(c, result) ==
    /\ timer' = [timer EXCEPT ![c] = None]
    /\ received' = Counted(c)
    /\ outcome' = [outcome EXCEPT ![timer[c]] = result]
\* The write that awaits approval under counter c is answered.
Conclude(c, result) ==
    /\ timer' = [timer EXCEPT ![c] = None]
    /\ received' = [received EXCEPT ![c] = 0]
    /\ outcome' = [outcome EXCEPT ![timer[c]] = result]

\* ApproveOrDenyWrite: a denial concludes the write, approvals do so once both
\* callbacks gave one.  It looks up the counter only; the data applied is that of
\* the message the last approval was given for.
ApproveOrDenyWrite(w, approve) ==
    LET c == msg[w].ctr IN
      \/ ~Awaited(c) /\ UNCHANGED spineVars
      \/ Awaited(c) /\ ~approve /\ Conclude(c, "refused") /\ UNCHANGED applied
      \/ /\ Awaited(c) /\ approve
         /\ IF Counted(c)[c] < Cardinality(UseCases)
              THEN received' = Counted(c) /\ UNCHANGED <<timer, outcome, applied>>
              ELSE Conclude(c, "applied") /\ applied' = applied \cup {w}

-----------------------------------------------------------------------------
(* The callbacks of the use cases.                                         *)

HasItem(u, w) == u \in msg[w].load.items

\* Mutant: a write is kept for decision whatever limit it addresses.
KeptEvenIfOther(u, w) == pending[u][msg[w].ctr] = None
\* Mutant: only one write at a time is kept.
KeptIfOnly(u, w) ==
    HasItem(u, w) /\ \A c \in Counters : pending[u][c] = None
\* The write addresses the limit of this use case and its counter is unused.
Kept(u, w) == HasItem(u, w) /\ pending[u][msg[w].ctr] = None

\* loadControlWriteCB: a write without data is ignored, a write to the limit of
\* this use case is kept and announced, any other is approved in a goroutine.
LoadControlWriteCB(u, w, announced) ==
    /\ stage[u][w] = "called"
    /\ \/ /\ ~msg[w].load.hasData
          /\ stage' = [stage EXCEPT ![u][w] = "none"]
          /\ UNCHANGED pending
       \/ /\ msg[w].load.hasData
          /\ Kept(u, w)
          /\ pending' = [pending EXCEPT ![u][msg[w].ctr] = w]
          /\ stage' = [stage EXCEPT ![u][w] = announced]
       \/ /\ msg[w].load.hasData
          /\ ~Kept(u, w)
          /\ stage' = [stage EXCEPT ![u][w] = "approving"]
          /\ UNCHANGED pending
    /\ UNCHANGED <<sent, counter, msg, todo, spineVars, together>>

\* WriteApprovalRequired of LPC reaches OnLPCEvent, whose body is empty.
LpcLoadControlWriteCB(w) == LoadControlWriteCB(LPC, w, "none")
\* WriteApprovalRequired of LPP makes OnLPPEvent run in the same goroutine.
LppLoadControlWriteCB(w) == LoadControlWriteCB(LPP, w, "event")

\* go approveOrDeny...Limit(msg, true, "")
AutoApprove(u, w) ==
    /\ stage[u][w] = "approving"
    /\ stage' = [stage EXCEPT ![u][w] = "none"]
    /\ ApproveOrDenyWrite(w, TRUE)
    /\ UNCHANGED <<sent, counter, msg, pending, todo, together>>

-----------------------------------------------------------------------------
(* OnLPPEvent: every pending write is decided, not only the announced one. *)

\* Mutant: only the write with the highest counter is returned.
PendingProductionLimitsLast ==
    {[ctr |-> c, load |-> msg[pending[LPP][c]].load] :
        c \in {d \in Counters : /\ pending[LPP][d] # None
                                /\ \A e \in Counters : pending[LPP][e] # None => e <= d}}
\* Mutant: every counter gets the limit of the last pending write.
PendingProductionLimitsShared ==
    LET open == {c \in Counters : pending[LPP][c] # None}
        last == CHOOSE c \in open : \A d \in open : d <= c
    IN {[ctr |-> c, load |-> msg[pending[LPP][last]].load] : c \in open}
\* PendingProductionLimits: the pending counters with the limits written.
PendingProductionLimits ==
    {[ctr |-> c, load |-> msg[pending[LPP][c]].load] :
        c \in {d \in Counters : pending[LPP][d] # None}}

TakePending(w) ==
    /\ stage[LPP][w] = "event"
    /\ todo' = [todo EXCEPT ![w] = PendingProductionLimits]
    /\ stage' = [stage EXCEPT ![LPP][w] = "deciding"]
    /\ UNCHANGED <<sent, counter, msg, pending, spineVars, together>>

\* An active limit needs a duration, and no limit may ask for consumption.
Acceptable(load) == (load.active => load.duration # 0) /\ load.value <= 0

\* ApproveOrDenyProductionLimit for one write of the snapshot, in any order: it
\* decides whatever is pending under that counter by now, if anything is.
Decide(w, item) ==
    LET x == pending[LPP][item.ctr] IN
      /\ stage[LPP][w] = "deciding"
      /\ item \in todo[w]
      /\ todo' = [todo EXCEPT ![w] = @ \ {item}]
      /\ IF x = None
           THEN UNCHANGED <<pending, spineVars>>
           ELSE /\ ApproveOrDenyWrite(x, Acceptable(item.load))
                /\ pending' = [pending EXCEPT ![LPP][item.ctr] = None]
      /\ UNCHANGED <<sent, counter, msg, stage, together>>

Decided(w) ==
    /\ stage[LPP][w] = "deciding"
    /\ todo[w] = {}
    /\ stage' = [stage EXCEPT ![LPP][w] = "none"]
    /\ UNCHANGED <<sent, counter, msg, pending, todo, spineVars, together>>

-----------------------------------------------------------------------------
Goroutine(w) ==
    \/ LpcLoadControlWriteCB(w)
    \/ LppLoadControlWriteCB(w)
    \/ \E u \in UseCases : AutoApprove(u, w)
    \/ TakePending(w)
    \/ \E item \in todo[w] : Decide(w, item)
    \/ Decided(w)

Next ==
    \/ \E p \in Payloads : RemoteWrite(p)
    \/ Reconnect
    \/ \E c \in Counters : ApprovalTimeout(c)
    \/ \E w \in Writes : Goroutine(w)

Spec == Init /\ [][Next]_vars

-----------------------------------------------------------------------------
(* Properties.                                                             *)

MsgType == [ctr : Counters, load : Payloads \cup {NoPayload}]

\* Every variable has a value the code can give it.
TypeOK ==
    /\ sent \in 0..MaxWrites
    /\ counter \in 1..(MaxCounter + 1)
    /\ msg \in [Writes -> MsgType]
    /\ pending \in [UseCases -> [Counters -> Writes \cup {None}]]
    /\ stage \in [UseCases -> [Writes -> Stages]]
    /\ todo \in [Writes -> SUBSET [ctr : Counters, load : Payloads \cup {NoPayload}]]
    /\ timer \in [Counters -> Writes \cup {None}]
    /\ received \in [Counters -> 0..1]
    /\ outcome \in [Writes -> Outcomes]
    /\ applied \subseteq Writes
    /\ together \subseteq Writes

\* No two writes had the same counter.
CountersDistinct ==
    \A v, w \in Sent : msg[v].ctr = msg[w].ctr => v = w

\* A write is applied only if the application accepted every limit in it: no
\* production limit it would have denied, and no consumption limit at all, since
\* OnLPCEvent accepts none.  Two callbacks, the event goroutines deciding each
\* other's writes, and timeouts must not open a way around that.
AppliedOnlyAccepted ==
    CountersDistinct =>
        \A w \in applied :
            /\ ~HasItem(LPC, w)
            /\ HasItem(LPP, w) => Acceptable(msg[w].load)

Quiet == \A u \in UseCases, w \in Writes : stage[u][w] = "none"

\* When all goroutines are done, no production write is left pending, although
\* each of them decides the pending writes of a moment only.
NoProductionWritePending ==
    Quiet => \A c \in Counters : pending[LPP][c] = None

\* The only writes left to the timeout are those OnLPCEvent never decides, those
\* without data, and those that overlapped another write of the device.
PromptAnswer ==
    Quiet => \A w \in Waiting :
                \/ HasItem(LPC, w)
                \/ ~msg[w].load.hasData
                \/ w \in together

\* No write is refused without reason: it has a production limit, and that is
\* active without a duration or asks for consumption.  A goroutine decides writes
\* other than the announced one, from limits it read before others decided and
\* before the timeout; a refusal must still be for the write it was meant for.
RefusedOnlyWithReason ==
    CountersDistinct =>
        \A w \in Sent : outcome[w] = "refused" =>
            /\ HasItem(LPP, w)
            /\ \/ msg[w].load.value > 0
               \/ msg[w].load.active /\ msg[w].load.duration = 0

\* What the comment of loadControlWriteCB says: the callback considers writes for
\* its use case and approves all others.  So it approves no write of its own.
ApprovesOthersOnly ==
    \A u \in UseCases, w \in Sent : stage[u][w] = "approving" => ~HasItem(u, w)

=============================================================================
