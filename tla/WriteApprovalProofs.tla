------------------------- MODULE WriteApprovalProofs -------------------------
(***************************************************************************)
(* Proofs about the approval of writes for every number of writes and      *)
(* counters and every payload: type correctness, that no production write  *)
(* is left pending when the goroutines are done, that nothing is applied   *)
(* which the application would not accept, that nothing is refused without *)
(* reason, and which writes are left to the timeout.                       *)
(***************************************************************************)
EXTENDS WriteApproval, FiniteSetTheorems, TLAPS

\* Two callbacks have to approve a write.
LEMMA TwoUseCases == Cardinality(UseCases) = 2
<1>1. LPC # LPP
  BY DEF LPC, LPP
<1>2. IsFiniteSet({LPC}) /\ Cardinality({LPC}) = 1
  BY FS_Singleton
<1>3. Cardinality({LPC} \cup {LPP}) = 2
  BY <1>1, <1>2, FS_AddElement
<1>4. UseCases = {LPC} \cup {LPP}
  BY DEF UseCases
<1> QED
  BY <1>3, <1>4

\* Concluding a write keeps the types of what spine holds.
LEMMA ConcludeTypeOK ==
    ASSUME TypeOK, NEW c \in Counters, NEW result \in Outcomes,
           Conclude(c, result)
    PROVE  /\ timer' \in [Counters -> Writes \cup {None}]
           /\ received' \in [Counters -> 0..1]
           /\ outcome' \in [Writes -> Outcomes]
<1>1. timer' \in [Counters -> Writes \cup {None}]
  BY DEF TypeOK, Conclude
<1>2. received' \in [Counters -> 0..1]
  <2>1. received \in [Counters -> 0..1] /\ 0 \in 0..1
    BY DEF TypeOK
  <2> QED
    BY <2>1, Zenon DEF Conclude
<1>3. outcome' \in [Writes -> Outcomes]
  BY DEF TypeOK, Conclude
<1> QED
  BY <1>1, <1>2, <1>3

\* A decision keeps the types of what spine holds, and counts one approval at
\* most before the write is concluded.
LEMMA DecisionTypeOK ==
    ASSUME TypeOK, NEW w \in Writes, NEW approve \in BOOLEAN,
           ApproveOrDenyWrite(w, approve)
    PROVE  /\ timer' \in [Counters -> Writes \cup {None}]
           /\ received' \in [Counters -> 0..1]
           /\ outcome' \in [Writes -> Outcomes]
           /\ applied' \subseteq Writes
<1> DEFINE c == msg[w].ctr
<1>1. c \in Counters
  BY DEF TypeOK, MsgType
<1>2. /\ timer \in [Counters -> Writes \cup {None}]
      /\ received \in [Counters -> 0..1]
      /\ outcome \in [Writes -> Outcomes]
      /\ applied \subseteq Writes
  BY DEF TypeOK
<1>3. ASSUME NEW result \in Outcomes, Conclude(c, result)
      PROVE  /\ timer' \in [Counters -> Writes \cup {None}]
             /\ received' \in [Counters -> 0..1]
             /\ outcome' \in [Writes -> Outcomes]
  BY <1>1, <1>3, ConcludeTypeOK
<1>4. "refused" \in Outcomes /\ "applied" \in Outcomes
  BY DEF Outcomes
<1>5. CASE UNCHANGED spineVars
  BY <1>2, <1>5 DEF spineVars
<1>6. CASE Conclude(c, "refused") /\ UNCHANGED applied
  BY <1>2, <1>3, <1>4, <1>6
<1>7. CASE Conclude(c, "applied") /\ applied' = applied \cup {w}
  BY <1>2, <1>3, <1>4, <1>7
<1>8. CASE /\ Counted(c)[c] < Cardinality(UseCases)
           /\ received' = Counted(c)
           /\ UNCHANGED <<timer, outcome, applied>>
  <2>1. Counted(c)[c] < 2
    BY <1>8, TwoUseCases
  <2>2. Counted(c) \in [Counters -> 0..1]
    <3>1. CASE received[c] > 0
      <4>1. Counted(c) = [received EXCEPT ![c] = received[c] + 1]
        BY <3>1 DEF Counted
      <4>2. Counted(c)[c] = received[c] + 1
        BY <4>1, <1>1, <1>2
      <4> QED
        BY <4>1, <4>2, <2>1, <1>1, <1>2
    <3>2. CASE ~(received[c] > 0)
      BY <3>2, <1>1, <1>2 DEF Counted
    <3> QED
      BY <3>1, <3>2
  <2> QED
    BY <1>2, <1>8, <2>2
<1> QED
  BY <1>5, <1>6, <1>7, <1>8 DEF ApproveOrDenyWrite

\* The snapshot OnLPPEvent takes holds writes the remote device sent.
LEMMA SnapshotTypeOK ==
    ASSUME TypeOK
    PROVE  PendingProductionLimits
             \subseteq [ctr : Counters, load : Payloads \cup {NoPayload}]
<1> SUFFICES ASSUME NEW c \in Counters, pending[LPP][c] # None
             PROVE  msg[pending[LPP][c]].load \in Payloads \cup {NoPayload}
  BY DEF PendingProductionLimits
<1>1. pending[LPP][c] \in Writes
  BY DEF TypeOK, UseCases
<1> QED
  BY <1>1 DEF TypeOK, MsgType

\* Each step of a goroutine keeps the types.
LEMMA GoroutineTypeOK ==
    ASSUME TypeOK, NEW w \in Writes, Goroutine(w)
    PROVE  TypeOK'
<1> USE DEF TypeOK
<1>1. ASSUME NEW u \in UseCases, NEW announced \in Stages,
             LoadControlWriteCB(u, w, announced)
      PROVE  TypeOK'
  <2>1. pending' \in [UseCases -> [Counters -> Writes \cup {None}]]
    <3>1. \/ pending' = pending
          \/ pending' = [pending EXCEPT ![u][msg[w].ctr] = w]
      BY <1>1 DEF LoadControlWriteCB
    <3>2. pending \in [UseCases -> [Counters -> Writes \cup {None}]]
      OBVIOUS
    <3> QED
      BY ONLY <3>1, <3>2, w \in Writes, u \in UseCases
  <2>2. stage' \in [UseCases -> [Writes -> Stages]]
    <3>1. \E s \in Stages : stage' = [stage EXCEPT ![u][w] = s]
      BY <1>1 DEF LoadControlWriteCB, Stages
    <3>2. stage \in [UseCases -> [Writes -> Stages]]
      OBVIOUS
    <3> QED
      BY ONLY <3>1, <3>2, w \in Writes, u \in UseCases
  <2> QED
    BY <1>1, <2>1, <2>2 DEF LoadControlWriteCB, spineVars
<1>2. CASE LpcLoadControlWriteCB(w)
  BY <1>1, <1>2 DEF LpcLoadControlWriteCB, UseCases, Stages
<1>3. CASE LppLoadControlWriteCB(w)
  BY <1>1, <1>3 DEF LppLoadControlWriteCB, UseCases, Stages
<1>4. ASSUME NEW u \in UseCases, AutoApprove(u, w)
      PROVE  TypeOK'
  <2>1. ApproveOrDenyWrite(w, TRUE)
    BY <1>4 DEF AutoApprove
  <2>2. /\ timer' \in [Counters -> Writes \cup {None}]
        /\ received' \in [Counters -> 0..1]
        /\ outcome' \in [Writes -> Outcomes]
        /\ applied' \subseteq Writes
    BY <2>1, DecisionTypeOK
  <2>3. stage' \in [UseCases -> [Writes -> Stages]]
    BY <1>4 DEF AutoApprove, Stages
  <2> QED
    BY <1>4, <2>2, <2>3 DEF AutoApprove
<1>5. CASE TakePending(w)
  <2>1. todo' \in [Writes -> SUBSET [ctr : Counters, load : Payloads \cup {NoPayload}]]
    BY <1>5, SnapshotTypeOK DEF TakePending
  <2>2. stage' \in [UseCases -> [Writes -> Stages]]
    BY <1>5 DEF TakePending, Stages
  <2> QED
    BY <1>5, <2>1, <2>2 DEF TakePending, spineVars
<1>6. ASSUME NEW item \in todo[w], Decide(w, item)
      PROVE  TypeOK'
  <2>1. item \in [ctr : Counters, load : Payloads \cup {NoPayload}]
    OBVIOUS
  <2>2. pending[LPP][item.ctr] \in Writes \cup {None}
    BY <2>1 DEF UseCases
  <2>3. todo' \in [Writes -> SUBSET [ctr : Counters, load : Payloads \cup {NoPayload}]]
    BY <1>6 DEF Decide
  <2>4. CASE pending[LPP][item.ctr] = None
    BY <1>6, <2>3, <2>4 DEF Decide, spineVars
  <2>5. CASE pending[LPP][item.ctr] # None
    <3>1. pending[LPP][item.ctr] \in Writes
      BY <2>2, <2>5
    <3>2. ApproveOrDenyWrite(pending[LPP][item.ctr], Acceptable(item.load))
      BY <1>6, <2>5 DEF Decide
    <3>3. Acceptable(item.load) \in BOOLEAN
      BY DEF Acceptable
    <3>4. /\ timer' \in [Counters -> Writes \cup {None}]
          /\ received' \in [Counters -> 0..1]
          /\ outcome' \in [Writes -> Outcomes]
          /\ applied' \subseteq Writes
      BY <3>1, <3>2, <3>3, DecisionTypeOK
    <3>5. pending' \in [UseCases -> [Counters -> Writes \cup {None}]]
      <4>1. pending' = [pending EXCEPT ![LPP][item.ctr] = None]
        BY <1>6, <2>5 DEF Decide
      <4>2. pending \in [UseCases -> [Counters -> Writes \cup {None}]]
        OBVIOUS
      <4> QED
        BY ONLY <4>1, <4>2
    <3> QED
      BY <1>6, <2>3, <3>4, <3>5 DEF Decide
  <2> QED
    BY <2>4, <2>5
<1>7. CASE Decided(w)
  BY <1>7 DEF Decided, Stages, spineVars
<1> QED
  BY <1>2, <1>3, <1>4, <1>5, <1>6, <1>7 DEF Goroutine

\* Every variable keeps its type.  In particular a single approval is all that
\* is ever counted for a write: the second one concludes it.
THEOREM TypeCorrect == Spec => []TypeOK
<1> USE WriteApprovalAssumption
<1>1. Init => TypeOK
  <2> SUFFICES ASSUME Init PROVE TypeOK
    OBVIOUS
  <2>1. msg \in [Writes -> MsgType]
    BY DEF Init, MsgType, NoMsg, Counters
  <2>2. stage \in [UseCases -> [Writes -> Stages]]
    BY DEF Init, Stages
  <2>3. outcome \in [Writes -> Outcomes]
    BY DEF Init, Outcomes
  <2>4. /\ pending \in [UseCases -> [Counters -> Writes \cup {None}]]
        /\ todo \in [Writes -> SUBSET [ctr : Counters, load : Payloads \cup {NoPayload}]]
        /\ timer \in [Counters -> Writes \cup {None}]
    BY DEF Init
  <2>5. received \in [Counters -> 0..1] /\ sent \in 0..MaxWrites
    BY DEF Init
  <2>6. counter \in 1..(MaxCounter + 1) /\ applied = {} /\ together = {}
    BY DEF Init
  <2> QED
    BY <2>1, <2>2, <2>3, <2>4, <2>5, <2>6 DEF TypeOK
<1>2. TypeOK /\ [Next]_vars => TypeOK'
  <2> SUFFICES ASSUME TypeOK, [Next]_vars PROVE TypeOK'
    OBVIOUS
  <2> USE DEF TypeOK
  <2>1. ASSUME NEW p \in Payloads, RemoteWrite(p) PROVE TypeOK'
    <3> DEFINE w == sent + 1
    <3>1. w \in Writes /\ counter \in Counters
      BY <2>1 DEF RemoteWrite, Writes, Counters
    <3>2. msg' \in [Writes -> MsgType]
      BY <2>1, <3>1 DEF RemoteWrite, MsgType
    <3>3. timer' \in [Counters -> Writes \cup {None}]
      BY <2>1, <3>1 DEF RemoteWrite
    <3>4. outcome' \in [Writes -> Outcomes]
      BY <2>1, <3>1 DEF RemoteWrite, Outcomes
    <3>5. stage' \in [UseCases -> [Writes -> Stages]]
      BY <2>1, <3>1 DEF RemoteWrite, Stages
    <3>6. together' \subseteq Writes
      <4>1. Waiting \subseteq Writes
        BY DEF Waiting, Sent, Writes
      <4>2. together' = together \/ together' = together \cup Waiting \cup {w}
        BY <2>1 DEF RemoteWrite
      <4>3. together \subseteq Writes
        OBVIOUS
      <4> QED
        BY ONLY <3>1, <4>1, <4>2, <4>3
    <3>7. sent' \in 0..MaxWrites /\ counter' \in 1..(MaxCounter + 1)
      BY <2>1 DEF RemoteWrite
    <3> QED
      BY <2>1, <3>2, <3>3, <3>4, <3>5, <3>6, <3>7 DEF RemoteWrite
  <2>2. CASE Reconnect
    <3>1. outcome' \in [Writes -> Outcomes]
      BY <2>2 DEF Reconnect, Outcomes
    <3>2. /\ timer' \in [Counters -> Writes \cup {None}]
          /\ received' \in [Counters -> 0..1]
          /\ counter' \in 1..(MaxCounter + 1)
      BY <2>2 DEF Reconnect
    <3> QED
      BY <2>2, <3>1, <3>2 DEF Reconnect
  <2>3. ASSUME NEW c \in Counters, ApprovalTimeout(c) PROVE TypeOK'
    <3>1. outcome' \in [Writes -> Outcomes]
      BY <2>3 DEF ApprovalTimeout, Outcomes
    <3>2. timer' \in [Counters -> Writes \cup {None}]
      BY <2>3 DEF ApprovalTimeout
    <3> QED
      BY <2>3, <3>1, <3>2 DEF ApprovalTimeout
  <2>4. ASSUME NEW w \in Writes, Goroutine(w) PROVE TypeOK'
    BY <2>4, GoroutineTypeOK
  <2>5. CASE UNCHANGED vars
    BY <2>5 DEF vars
  <2> QED
    BY <2>1, <2>2, <2>3, <2>4, <2>5 DEF Next
<1> QED
  BY <1>1, <1>2, PTL DEF Spec

-----------------------------------------------------------------------------
(* No production write stays pending.                                      *)

\* The goroutine of write w is going to decide what is pending under c: it has
\* not looked yet, or it has and still holds c in its snapshot.
WillDecide(w, c) ==
    \/ stage[LPP][w] = "event"
    \/ stage[LPP][w] = "deciding" /\ \E item \in todo[w] : item.ctr = c

\* The inductive invariant: each pending production write has such a goroutine.
Announced ==
    \A c \in Counters : pending[LPP][c] # None => \E w \in Writes : WillDecide(w, c)

\* A write not sent yet has no goroutine, so its arrival disturbs none.
UnsentIdle == \A w \in Writes : w > sent => stage[LPP][w] = "none"

\* A step of the goroutine of write v starts none for a write not sent.
LEMMA GoroutineUnsentIdle ==
    ASSUME TypeOK, UnsentIdle, NEW v \in Writes, Goroutine(v)
    PROVE  UnsentIdle'
<1>1. LPC \in UseCases /\ LPP \in UseCases /\ LPC # LPP
  BY DEF UseCases, LPC, LPP
<1>2. stage \in [UseCases -> [Writes -> Stages]]
  BY DEF TypeOK
<1>3. sent' = sent /\ (\A w \in Writes \ {v} : stage'[LPP][w] = stage[LPP][w])
      /\ (stage'[LPP][v] = stage[LPP][v] \/ stage[LPP][v] # "none")
  <2>1. CASE LpcLoadControlWriteCB(v)
    BY <1>1, <1>2, <2>1 DEF LpcLoadControlWriteCB, LoadControlWriteCB
  <2>2. CASE LppLoadControlWriteCB(v)
    BY <1>1, <1>2, <2>2 DEF LppLoadControlWriteCB, LoadControlWriteCB
  <2>3. ASSUME NEW u \in UseCases, AutoApprove(u, v)
        PROVE  /\ sent' = sent
               /\ \A w \in Writes \ {v} : stage'[LPP][w] = stage[LPP][w]
               /\ stage'[LPP][v] = stage[LPP][v] \/ stage[LPP][v] # "none"
    BY <1>1, <1>2, <2>3 DEF AutoApprove
  <2>4. CASE TakePending(v)
    BY <1>1, <1>2, <2>4 DEF TakePending
  <2>5. ASSUME NEW item \in todo[v], Decide(v, item)
        PROVE  sent' = sent /\ stage' = stage
    BY <2>5 DEF Decide
  <2>6. CASE Decided(v)
    BY <1>1, <1>2, <2>6 DEF Decided
  <2> QED
    BY <2>1, <2>2, <2>3, <2>4, <2>5, <2>6 DEF Goroutine
<1> QED
  BY <1>3 DEF UnsentIdle

\* A step of the goroutine of write v leaves every pending production write with
\* a goroutine that will decide it.
LEMMA GoroutineAnnounced ==
    ASSUME TypeOK, Announced, NEW v \in Writes, Goroutine(v)
    PROVE  Announced'
<1> SUFFICES ASSUME NEW c \in Counters, pending'[LPP][c] # None
             PROVE  \E w \in Writes : WillDecide(w, c)'
  BY DEF Announced
<1>1. /\ stage \in [UseCases -> [Writes -> Stages]]
      /\ pending \in [UseCases -> [Counters -> Writes \cup {None}]]
      /\ todo \in [Writes -> SUBSET [ctr : Counters, load : Payloads \cup {NoPayload}]]
      /\ msg \in [Writes -> MsgType]
  BY DEF TypeOK
<1>2. LPC \in UseCases /\ LPP \in UseCases /\ LPC # LPP
  BY DEF UseCases, LPC, LPP
\* A goroutine other than the one that moves goes on as before.
<1>3. ASSUME NEW w \in Writes, WillDecide(w, c),
             stage'[LPP][w] = stage[LPP][w], todo'[w] = todo[w]
      PROVE  WillDecide(w, c)'
  BY <1>3 DEF WillDecide
<1>4. ASSUME pending[LPP][c] # None
      PROVE  \E w \in Writes : WillDecide(w, c)
  BY <1>4 DEF Announced
<1>5. CASE LpcLoadControlWriteCB(v)
  <2>1. stage'[LPP] = stage[LPP] /\ pending'[LPP] = pending[LPP] /\ todo' = todo
    BY <1>1, <1>2, <1>5 DEF LpcLoadControlWriteCB, LoadControlWriteCB
  <2> QED
    BY <1>3, <1>4, <2>1
<1>6. CASE LppLoadControlWriteCB(v)
  <2>1. todo' = todo /\ stage[LPP][v] = "called"
        /\ \A w \in Writes \ {v} : stage'[LPP][w] = stage[LPP][w]
    BY <1>1, <1>2, <1>6 DEF LppLoadControlWriteCB, LoadControlWriteCB
  <2>2. CASE pending'[LPP][c] = pending[LPP][c]
    <3>1. PICK w \in Writes : WillDecide(w, c)
      BY <1>4, <2>2
    <3>2. w # v
      BY <2>1, <3>1 DEF WillDecide
    <3> QED
      BY <1>3, <2>1, <3>1, <3>2
  <2>3. CASE pending'[LPP][c] # pending[LPP][c]
    <3>1. stage'[LPP][v] = "event"
      BY <1>1, <1>2, <1>6, <2>3 DEF LppLoadControlWriteCB, LoadControlWriteCB
    <3> QED
      BY <3>1 DEF WillDecide
  <2> QED
    BY <2>2, <2>3
<1>7. ASSUME NEW u \in UseCases, AutoApprove(u, v)
      PROVE  \E w \in Writes : WillDecide(w, c)'
  <2>1. /\ pending' = pending /\ todo' = todo
        /\ \A w \in Writes : \/ stage'[LPP][w] = stage[LPP][w]
                              \/ stage[LPP][w] = "approving"
    BY <1>1, <1>2, <1>7 DEF AutoApprove
  <2>2. PICK w \in Writes : WillDecide(w, c)
    BY <1>4, <2>1
  <2>3. stage'[LPP][w] = stage[LPP][w]
    BY <2>1, <2>2 DEF WillDecide
  <2> QED
    BY <1>3, <2>1, <2>2, <2>3
<1>8. CASE TakePending(v)
  <2>1. stage'[LPP][v] = "deciding" /\ todo'[v] = PendingProductionLimits
        /\ pending[LPP][c] # None
    BY <1>1, <1>2, <1>8 DEF TakePending
  <2>2. \E item \in todo'[v] : item.ctr = c
    <3> DEFINE it == [ctr |-> c, load |-> msg[pending[LPP][c]].load]
    <3>1. it \in PendingProductionLimits
      BY <2>1 DEF PendingProductionLimits
    <3>2. it.ctr = c
      OBVIOUS
    <3> HIDE DEF it
    <3> QED
      BY <2>1, <3>1, <3>2
  <2> QED
    BY <2>1, <2>2 DEF WillDecide
<1>9. ASSUME NEW item \in todo[v], Decide(v, item)
      PROVE  \E w \in Writes : WillDecide(w, c)'
  <2>1. /\ stage' = stage
        /\ todo' = [todo EXCEPT ![v] = todo[v] \ {item}]
        /\ item \in [ctr : Counters, load : Payloads \cup {NoPayload}]
    BY <1>1, <1>9 DEF Decide
  <2>2. item.ctr # c /\ pending[LPP][c] # None
    BY <1>1, <1>2, <1>9, <2>1 DEF Decide
  <2>3. PICK w \in Writes : WillDecide(w, c)
    BY <1>4, <2>2
  <2>4. CASE w = v
    BY <1>1, <2>1, <2>2, <2>3, <2>4 DEF WillDecide
  <2>5. CASE w # v
    BY <1>1, <1>3, <2>1, <2>3, <2>5
  <2> QED
    BY <2>4, <2>5
<1>10. CASE Decided(v)
  <2>1. /\ pending' = pending /\ todo' = todo
        /\ stage[LPP][v] = "deciding" /\ todo[v] = {}
        /\ \A w \in Writes \ {v} : stage'[LPP][w] = stage[LPP][w]
    BY <1>1, <1>2, <1>10 DEF Decided
  <2>2. PICK w \in Writes : WillDecide(w, c)
    BY <1>4, <2>1
  <2>3. w # v
    BY <2>1, <2>2 DEF WillDecide
  <2> QED
    BY <1>3, <2>1, <2>2, <2>3
<1> QED
  BY <1>5, <1>6, <1>7, <1>8, <1>9, <1>10 DEF Goroutine

\* OnLPPEvent decides the pending writes of one moment only, and each goroutine
\* may find its own write decided by another; still none is forgotten.
THEOREM NothingForgotten == Spec => []NoProductionWritePending
<1> DEFINE IInv == Announced /\ UnsentIdle
<1>1. Init => IInv
  BY DEF Init, Announced, UnsentIdle, UseCases
<1>2. TypeOK /\ IInv /\ [Next]_vars => IInv'
  <2> SUFFICES ASSUME TypeOK, IInv, [Next]_vars PROVE IInv'
    OBVIOUS
  <2>1. ASSUME NEW p \in Payloads, RemoteWrite(p) PROVE IInv'
    <3>1. pending' = pending /\ todo' = todo /\ sent' = sent + 1
      BY <2>1 DEF RemoteWrite
    <3>2. sent \in Nat /\ Writes \subseteq Nat
      BY WriteApprovalAssumption DEF TypeOK, Writes
    <3>3. \A w \in Writes : stage'[LPP][w] = stage[LPP][w] \/ w = sent + 1
      BY <2>1 DEF RemoteWrite, TypeOK, UseCases
    <3>4. \A w \in Writes, c \in Counters : WillDecide(w, c) => w # sent + 1
      BY <3>2 DEF UnsentIdle, WillDecide
    <3>5. \A w \in Writes, c \in Counters : WillDecide(w, c) => WillDecide(w, c)'
      BY <3>1, <3>3, <3>4 DEF WillDecide
    <3>6. Announced'
      BY <3>1, <3>5 DEF Announced
    <3>7. UnsentIdle'
      BY <3>1, <3>2, <3>3 DEF UnsentIdle
    <3> QED
      BY <3>6, <3>7
  <2>2. CASE Reconnect
    BY <2>2 DEF Reconnect, Announced, WillDecide, UnsentIdle
  <2>3. ASSUME NEW c \in Counters, ApprovalTimeout(c) PROVE IInv'
    BY <2>3 DEF ApprovalTimeout, Announced, WillDecide, UnsentIdle
  <2>4. ASSUME NEW w \in Writes, Goroutine(w) PROVE IInv'
    BY <2>4, GoroutineAnnounced, GoroutineUnsentIdle
  <2>5. CASE UNCHANGED vars
    BY <2>5 DEF vars, Announced, WillDecide, UnsentIdle
  <2> QED
    BY <2>1, <2>2, <2>3, <2>4, <2>5 DEF Next
<1>3. IInv => NoProductionWritePending
  BY DEF Announced, NoProductionWritePending, Quiet, WillDecide, UseCases
<1> QED
  BY <1>1, <1>2, <1>3, TypeCorrect, PTL DEF Spec

-----------------------------------------------------------------------------
(* The bookkeeping of the writes, the first part of the invariant for what *)
(* is applied and answered.                                                *)

\* A write not sent has no goroutine and no answer.
Unsent ==
    \A w \in Writes : w > sent =>
        outcome[w] = "none" /\ \A u \in UseCases : stage[u][w] = "none"

\* spine waits for exactly the writes that await an answer, and counts approvals for
\* counters of this connection only.
TimersMatch ==
    /\ \A c \in Counters : timer[c] # None =>
         /\ timer[c] \in Waiting
         /\ msg[timer[c]].ctr = c
         /\ c < counter
    /\ \A w \in Waiting : timer[msg[w].ctr] = w
    /\ \A c \in Counters : received[c] # 0 => c < counter

\* A use case keeps writes to its limit, under their own counters, and has not
\* answered them in another way.
PendingMatches ==
    \A u \in UseCases, c \in Counters : pending[u][c] # None =>
        /\ pending[u][c] \in Sent
        /\ msg[pending[u][c]].ctr = c
        /\ HasItem(u, pending[u][c])
        /\ stage[u][pending[u][c]] \notin {"called", "approving"}

\* A snapshot holds what was sent, and a callback approves no limit of its own use
\* case, as long as no counter was used twice.
DecisionsMatch ==
    CountersDistinct =>
        /\ \A w \in Writes : \A item \in todo[w] :
             \E x \in Sent : msg[x] = item
        /\ \A u \in UseCases, w \in Sent :
             stage[u][w] = "approving" => ~HasItem(u, w)

LinkInv == Unsent /\ TimersMatch /\ PendingMatches /\ DecisionsMatch

\* The use case has still to answer this write.
NotYet(u, w) ==
    \/ stage[u][w] \in {"called", "approving"}
    \/ pending[u][msg[w].ctr] = w

\* The use case may approve this write.
Approvable(u, w) ==
    HasItem(u, w) => u = LPP /\ Acceptable(msg[w].load)

\* The application has a reason to refuse this write.
Refusable(w) == HasItem(LPP, w) /\ ~Acceptable(msg[w].load)

\* An approval counted, both of an applied write, and the denial of a refused one
\* were rightly given.
ApprovalsRight ==
    CountersDistinct =>
        /\ \A c \in Counters : received[c] # 0 =>
             \E u \in UseCases, w \in Sent :
                /\ msg[w].ctr = c
                /\ ~NotYet(u, w)
                /\ Approvable(u, w)
        /\ \A w \in applied : \A u \in UseCases : Approvable(u, w)
        /\ applied \subseteq Sent
        /\ \A w \in Sent : outcome[w] = "refused" => Refusable(w)

\* A write that awaits approval alone is the only one, and as many of its approvals
\* are counted as were given; one is missing.
AloneInv ==
    \A w \in Waiting \ together :
        /\ Waiting = {w}
        /\ msg[w].load.hasData =>
             /\ (\E u \in UseCases : ~NotYet(u, w)) => received[msg[w].ctr] = 1
             /\ \E u \in UseCases : NotYet(u, w)

-----------------------------------------------------------------------------
(* What a step of a goroutine does to the writes.                          *)

\* The types the proofs below rest on.
LEMMA Types ==
    ASSUME TypeOK
    PROVE  /\ LPC \in UseCases /\ LPP \in UseCases /\ LPC # LPP
           /\ \A u \in UseCases : u = LPC \/ u = LPP
           /\ sent \in Nat /\ counter \in Nat
           /\ Sent \subseteq Writes /\ None \notin Writes
           /\ \A w \in Writes : w \in Sent <=> ~(w > sent)
           /\ \A w \in Writes : msg[w].ctr \in Counters
           /\ \A w \in Writes : msg[w] \in MsgType
           /\ stage \in [UseCases -> [Writes -> Stages]]
           /\ pending \in [UseCases -> [Counters -> Writes \cup {None}]]
           /\ timer \in [Counters -> Writes \cup {None}]
           /\ received \in [Counters -> 0..1]
           /\ outcome \in [Writes -> Outcomes]
<1>1. LPC \in UseCases /\ LPP \in UseCases /\ LPC # LPP
  BY DEF UseCases, LPC, LPP
<1>2. \A u \in UseCases : u = LPC \/ u = LPP
  BY DEF UseCases
<1>3. sent \in Nat /\ counter \in Nat
  BY WriteApprovalAssumption DEF TypeOK
<1>4. Sent \subseteq Writes /\ None \notin Writes /\ \A w \in Writes : w \in Sent <=> ~(w > sent)
  BY WriteApprovalAssumption DEF TypeOK, Sent, Writes, None
<1>5. \A w \in Writes : msg[w] \in MsgType /\ msg[w].ctr \in Counters
  BY DEF TypeOK, MsgType
<1> QED
  BY <1>1, <1>2, <1>3, <1>4, <1>5 DEF TypeOK

\* A decision has no effect, refuses, counts one approval or applies.
LEMMA DecisionCases ==
    ASSUME TypeOK, NEW w \in Writes, NEW approve \in BOOLEAN,
           NEW c, c = msg[w].ctr, ApproveOrDenyWrite(w, approve)
    PROVE  \/ timer[c] = None /\ UNCHANGED spineVars
           \/ /\ timer[c] # None /\ ~approve
              /\ Conclude(c, "refused") /\ UNCHANGED applied
           \/ /\ timer[c] # None /\ approve /\ received[c] = 0
              /\ received' = [d \in Counters |-> IF d = c THEN 1 ELSE 0]
              /\ UNCHANGED <<timer, outcome, applied>>
           \/ /\ timer[c] # None /\ approve /\ received[c] = 1
              /\ Conclude(c, "applied") /\ applied' = applied \cup {w}
<1>1. c \in Counters /\ received \in [Counters -> 0..1] /\ received[c] \in 0..1
  BY Types
<1>2. CASE received[c] = 0
  <2>1. Counted(c) = [d \in Counters |-> IF d = c THEN 1 ELSE 0]
    BY <1>2 DEF Counted
  <2>2. Counted(c)[c] < Cardinality(UseCases)
    BY <1>1, <2>1, TwoUseCases
  <2> QED
    BY <1>2, <2>1, <2>2 DEF ApproveOrDenyWrite, Awaited
<1>3. CASE received[c] = 1
  <2>1. Counted(c) = [received EXCEPT ![c] = received[c] + 1]
    BY <1>3 DEF Counted
  <2>2. Counted(c)[c] = 2
    BY <1>1, <1>3, <2>1
  <2>3. ~(Counted(c)[c] < Cardinality(UseCases))
    BY <2>2, TwoUseCases
  <2> QED
    BY <1>3, <2>3 DEF ApproveOrDenyWrite, Awaited
<1> QED
  BY <1>1, <1>2, <1>3

\* A step that decides no write for any use case, and takes none off its list but
\* one without data.
DecidesNothing ==
    /\ UNCHANGED <<sent, counter, msg, spineVars, together>>
    /\ \A u \in UseCases, w \in Sent :
         /\ NotYet(u, w)' => NotYet(u, w)
         /\ NotYet(u, w) /\ msg[w].load.hasData => NotYet(u, w)'

\* A step that decides write w for use case u, and rightly so.
Decides(u, w, approve) ==
    /\ NotYet(u, w)
    /\ ApproveOrDenyWrite(w, approve)
    /\ UNCHANGED <<sent, counter, msg, together>>
    /\ \A v \in UseCases, x \in Sent :
         NotYet(v, x)' <=> NotYet(v, x) /\ ~(v = u /\ x = w)
    /\ CountersDistinct /\ approve => Approvable(u, w)
    /\ CountersDistinct /\ ~approve => Refusable(w)

\* Every step of a goroutine is one or the other.
LEMMA GoroutineDecides ==
    ASSUME TypeOK, LinkInv, NEW g \in Writes, Goroutine(g)
    PROVE  \/ DecidesNothing
           \/ \E u \in UseCases, w \in Sent, approve \in BOOLEAN : Decides(u, w, approve)
<1>1. ASSUME NEW u \in UseCases, NEW announced \in {"none", "event"},
             LoadControlWriteCB(u, g, announced)
      PROVE  DecidesNothing
  <2>1. /\ stage[u][g] = "called"
        /\ UNCHANGED <<sent, counter, msg, spineVars, together>>
    BY <1>1 DEF LoadControlWriteCB
  <2>2. NotYet(u, g)
    BY <2>1 DEF NotYet
  <2>3. CASE ~msg[g].load.hasData
    <3>1. pending' = pending /\ stage' = [stage EXCEPT ![u][g] = "none"]
      BY <1>1, <2>3 DEF LoadControlWriteCB
    <3> QED
      BY <2>1, <2>2, <2>3, <3>1, Types DEF DecidesNothing, NotYet
  <2>4. CASE msg[g].load.hasData /\ Kept(u, g)
    <3>1. /\ pending[u][msg[g].ctr] = None
          /\ pending' = [pending EXCEPT ![u][msg[g].ctr] = g]
          /\ stage' = [stage EXCEPT ![u][g] = announced]
      BY <1>1, <2>4 DEF LoadControlWriteCB, Kept
    <3>2. NotYet(u, g)'
      BY <2>1, <3>1, Types DEF NotYet
    <3>3. ASSUME NEW v \in UseCases, NEW x \in Sent, v # u \/ x # g
          PROVE  NotYet(v, x)' <=> NotYet(v, x)
      BY <2>1, <3>1, <3>3, Types DEF NotYet
    <3> QED
      BY <2>1, <2>2, <3>2, <3>3 DEF DecidesNothing
  <2>5. CASE msg[g].load.hasData /\ ~Kept(u, g)
    <3>1. pending' = pending /\ stage' = [stage EXCEPT ![u][g] = "approving"]
      BY <1>1, <2>5 DEF LoadControlWriteCB
    <3> QED
      BY <2>1, <2>2, <3>1, Types DEF DecidesNothing, NotYet
  <2> QED
    BY <2>3, <2>4, <2>5
<1>2. CASE LpcLoadControlWriteCB(g)
  BY <1>1, <1>2, Types DEF LpcLoadControlWriteCB
<1>3. CASE LppLoadControlWriteCB(g)
  BY <1>1, <1>3, Types DEF LppLoadControlWriteCB
<1>4. ASSUME NEW u \in UseCases, AutoApprove(u, g)
      PROVE  g \in Sent /\ Decides(u, g, TRUE)
  <2>1. /\ stage[u][g] = "approving"
        /\ stage' = [stage EXCEPT ![u][g] = "none"]
        /\ ApproveOrDenyWrite(g, TRUE)
        /\ UNCHANGED <<sent, counter, msg, pending, together>>
    BY <1>4 DEF AutoApprove
  <2>2. g \in Sent
    BY <2>1, Types DEF LinkInv, Unsent
  <2>3. CountersDistinct => Approvable(u, g)
    BY <2>1, <2>2 DEF LinkInv, DecisionsMatch, Approvable
  <2>4. pending[u][msg[g].ctr] # g
    BY <2>1, Types DEF LinkInv, PendingMatches
  <2>5. ASSUME NEW v \in UseCases, NEW x \in Sent
        PROVE  NotYet(v, x)' <=> NotYet(v, x) /\ ~(v = u /\ x = g)
    BY <2>1, <2>4, Types DEF NotYet
  <2> QED
    BY <2>1, <2>2, <2>3, <2>5 DEF Decides, NotYet
<1>5. CASE TakePending(g)
  <2>1. /\ stage[LPP][g] = "event" /\ stage' = [stage EXCEPT ![LPP][g] = "deciding"]
        /\ UNCHANGED <<sent, counter, msg, pending, spineVars, together>>
    BY <1>5 DEF TakePending
  <2> QED
    BY <2>1, Types DEF DecidesNothing, NotYet
<1>6. ASSUME NEW item \in todo[g], Decide(g, item)
      PROVE  \/ DecidesNothing
             \/ \E x \in Sent, approve \in BOOLEAN : Decides(LPP, x, approve)
  <2> DEFINE x == pending[LPP][item.ctr]
  <2>1. UNCHANGED <<sent, counter, msg, stage, together>>
    BY <1>6 DEF Decide
  <2>2. CASE x = None
    BY <1>6, <2>1, <2>2 DEF Decide, DecidesNothing, NotYet
  <2>3. CASE x # None
    <3>1. /\ ApproveOrDenyWrite(x, Acceptable(item.load))
          /\ pending' = [pending EXCEPT ![LPP][item.ctr] = None]
      BY <1>6, <2>3 DEF Decide
    <3>2. item.ctr \in Counters
      BY DEF TypeOK
    <3>3. /\ x \in Sent /\ msg[x].ctr = item.ctr /\ HasItem(LPP, x)
          /\ stage[LPP][x] \notin {"called", "approving"}
      BY <2>3, <3>2, Types DEF LinkInv, PendingMatches
    <3>4. CountersDistinct => IF Acceptable(item.load) THEN Approvable(LPP, x)
                                                         ELSE Refusable(x)
      <4>1. SUFFICES ASSUME CountersDistinct
                     PROVE  IF Acceptable(item.load) THEN Approvable(LPP, x)
                                                     ELSE Refusable(x)
        OBVIOUS
      <4>2. PICK y \in Sent : msg[y] = item
        BY <4>1 DEF LinkInv, DecisionsMatch
      <4>3. x = y
        BY <3>3, <4>1, <4>2 DEF CountersDistinct
      <4> QED
        BY <4>2, <4>3, <3>3 DEF Approvable, Refusable
    <3>5. ASSUME NEW v \in UseCases, NEW z \in Sent
          PROVE  NotYet(v, z)' <=> NotYet(v, z) /\ ~(v = LPP /\ z = x)
      <4>1. CASE v = LPP /\ msg[z].ctr = item.ctr
        BY <2>1, <2>3, <3>1, <3>2, <3>3, <4>1, Types DEF NotYet
      <4>2. CASE ~(v = LPP /\ msg[z].ctr = item.ctr)
        BY <2>1, <2>3, <3>1, <3>2, <3>3, <4>2, Types DEF NotYet
      <4> QED
        BY <4>1, <4>2
    <3>6. NotYet(LPP, x) /\ Acceptable(item.load) \in BOOLEAN
      BY <3>3 DEF NotYet, Acceptable
    <3>7. Decides(LPP, x, Acceptable(item.load))
      BY <2>1, <3>1, <3>4, <3>5, <3>6 DEF Decides
    <3> QED
      BY <3>3, <3>6, <3>7
  <2> QED
    BY <2>2, <2>3
<1>7. CASE Decided(g)
  <2>1. /\ stage[LPP][g] = "deciding" /\ stage' = [stage EXCEPT ![LPP][g] = "none"]
        /\ UNCHANGED <<sent, counter, msg, pending, spineVars, together>>
    BY <1>7 DEF Decided
  <2> QED
    BY <2>1, Types DEF DecidesNothing, NotYet
<1> QED
  BY <1>2, <1>3, <1>4, <1>5, <1>6, <1>7, Types DEF Goroutine

-----------------------------------------------------------------------------
(* The bookkeeping is an invariant.                                        *)

\* The invariant of timers, counters and snapshots holds at first.
LEMMA InitLink == Init => LinkInv
<1> SUFFICES ASSUME Init PROVE LinkInv
  OBVIOUS
<1>1. Sent = {}
  BY DEF Init, Sent
<1>2. Unsent /\ TimersMatch /\ PendingMatches
  BY <1>1 DEF Init, Unsent, TimersMatch, PendingMatches, Waiting
<1>3. DecisionsMatch
  BY <1>1 DEF Init, DecisionsMatch
<1> QED
  BY <1>2, <1>3 DEF LinkInv

\* A decision answers the write its timer waits for, no other.
LEMMA DecisionKeepsTimers ==
    ASSUME TypeOK, TimersMatch, NEW w \in Writes, NEW approve \in BOOLEAN,
           ApproveOrDenyWrite(w, approve), UNCHANGED <<sent, counter, msg>>
    PROVE  /\ TimersMatch'
           /\ \A x \in Writes : outcome'[x] # outcome[x] => x \in Waiting
<1> DEFINE c == msg[w].ctr
<1>1. Sent' = Sent
  BY DEF Sent
<1>2. c \in Counters
  BY Types
<1>3. ASSUME timer[c] # None, NEW result \in {"refused", "applied"}, Conclude(c, result)
      PROVE  /\ TimersMatch'
             /\ \A x \in Writes : outcome'[x] # outcome[x] => x \in Waiting
  <2>1. timer[c] \in Waiting /\ timer[c] \in Sent /\ timer[c] \in Writes
    BY <1>2, <1>3, Types DEF TimersMatch, Waiting
  <2>2. /\ timer' = [timer EXCEPT ![c] = None]
        /\ received' = [received EXCEPT ![c] = 0]
        /\ outcome' = [outcome EXCEPT ![timer[c]] = result]
    BY <1>3 DEF Conclude
  <2>3. Waiting' = Waiting \ {timer[c]}
    BY <1>1, <2>1, <2>2, Types DEF Waiting
  <2>4. \A d \in Counters : timer'[d] # None => d # c /\ timer'[d] = timer[d]
    BY <1>2, <2>2, Types
  <2>5. \A d \in Counters : timer'[d] # None =>
           timer'[d] \in Waiting' /\ msg'[timer'[d]].ctr = d /\ d < counter'
    <3>1. SUFFICES ASSUME NEW d \in Counters, timer'[d] # None
                   PROVE  timer'[d] \in Waiting' /\ msg'[timer'[d]].ctr = d /\ d < counter'
      OBVIOUS
    <3>2. d # c /\ timer'[d] = timer[d] /\ timer[d] # None
      BY <2>4, <3>1
    <3>3. timer[d] \in Waiting /\ msg[timer[d]].ctr = d /\ d < counter
      BY <3>2 DEF TimersMatch
    <3>4. msg[timer[c]].ctr = c
      BY <1>2, <1>3 DEF TimersMatch
    <3>5. timer[d] # timer[c]
      BY <3>2, <3>3, <3>4
    <3> QED
      BY <2>3, <3>2, <3>3, <3>5
  <2>6. \A x \in Waiting' : timer'[msg'[x].ctr] = x
    <3>1. SUFFICES ASSUME NEW x \in Waiting, x # timer[c] PROVE timer'[msg[x].ctr] = x
      BY <2>3
    <3>2. timer[msg[x].ctr] = x /\ x \in Writes
      BY Types DEF TimersMatch, Waiting
    <3>3. msg[x].ctr # c /\ msg[x].ctr \in Counters
      BY <3>1, <3>2, Types
    <3> QED
      BY <2>2, <3>2, <3>3, Types
  <2>7. \A d \in Counters : received'[d] # 0 => d < counter'
    BY <1>2, <2>2, Types DEF TimersMatch
  <2>8. \A x \in Writes : outcome'[x] # outcome[x] => x \in Waiting
    BY <2>1, <2>2, Types
  <2> QED
    BY <2>5, <2>6, <2>7, <2>8 DEF TimersMatch
<1>4. CASE timer[c] = None /\ UNCHANGED spineVars
  BY <1>4, <1>1 DEF spineVars, TimersMatch, Waiting
<1>5. CASE /\ timer[c] # None
           /\ received' = [d \in Counters |-> IF d = c THEN 1 ELSE 0]
           /\ UNCHANGED <<timer, outcome, applied>>
  <2>1. c < counter
    BY <1>2, <1>5 DEF TimersMatch
  <2> QED
    BY <1>1, <1>5, <2>1 DEF TimersMatch, Waiting
<1> QED
  BY <1>3, <1>4, <1>5, DecisionCases

\* It is kept by a write that arrives,
LEMMA RemoteWriteLinks ==
    ASSUME TypeOK, LinkInv, NEW p \in Payloads, RemoteWrite(p)
    PROVE  LinkInv'
<1> DEFINE w == sent + 1
<1>1. /\ sent' = w /\ counter' = counter + 1
      /\ msg' = [msg EXCEPT ![w] = [ctr |-> counter, load |-> p]]
      /\ timer' = [timer EXCEPT ![counter] = w]
      /\ outcome' = [outcome EXCEPT ![w] = "waiting"]
      /\ stage' = [u \in UseCases |-> [stage[u] EXCEPT ![w] = "called"]]
      /\ UNCHANGED <<pending, todo, received, applied>>
  BY DEF RemoteWrite
<1>2. w \in Writes /\ counter \in Counters /\ w # None
  BY WriteApprovalAssumption DEF RemoteWrite, TypeOK, Writes, Counters, None
<1>3. Sent' = Sent \cup {w} /\ w \notin Sent
  <2>1. sent \in Nat /\ sent' = sent + 1
    BY <1>1, Types
  <2> QED
    BY <2>1 DEF Sent
<1>4. \A x \in Sent : msg'[x] = msg[x] /\ outcome'[x] = outcome[x]
                     /\ \A u \in UseCases : stage'[u][x] = stage[u][x]
  BY <1>1, <1>3, Types DEF TypeOK
<1>5. msg'[w].ctr = counter /\ outcome'[w] = "waiting"
      /\ \A u \in UseCases : stage'[u][w] = "called"
  BY <1>1, <1>2, Types DEF TypeOK
<1>6. Waiting' = Waiting \cup {w}
  BY <1>3, <1>4, <1>5 DEF Waiting
<1>7. Unsent'
  BY <1>1, Types DEF LinkInv, Unsent, Writes
<1>8. TimersMatch'
  <2>1. \A c \in Counters : timer'[c] # None =>
           timer'[c] \in Waiting' /\ msg'[timer'[c]].ctr = c /\ c < counter'
    <3>1. SUFFICES ASSUME NEW c \in Counters, timer'[c] # None
                   PROVE  timer'[c] \in Waiting' /\ msg'[timer'[c]].ctr = c /\ c < counter'
      OBVIOUS
    <3>2. CASE c = counter
      BY <1>1, <1>2, <1>5, <1>6, <3>2, Types
    <3>3. CASE c # counter
      <4>1. timer'[c] = timer[c] /\ timer[c] # None
        BY <1>1, <3>1, <3>3, Types
      <4>2. timer[c] \in Waiting /\ msg[timer[c]].ctr = c /\ c < counter
        BY <4>1 DEF LinkInv, TimersMatch
      <4>3. timer[c] \in Sent
        BY <4>2 DEF Waiting
      <4> QED
        BY <1>1, <1>4, <1>6, <4>1, <4>2, <4>3, Types DEF Counters
    <3> QED
      BY <3>2, <3>3
  <2>2. \A x \in Waiting' : timer'[msg'[x].ctr] = x
    <3>1. SUFFICES ASSUME NEW x \in Waiting PROVE timer'[msg'[x].ctr] = x
      BY <1>1, <1>2, <1>5, <1>6, Types
    <3>2. x \in Sent /\ timer[msg[x].ctr] = x /\ msg'[x] = msg[x]
      BY <1>4 DEF LinkInv, TimersMatch, Waiting
    <3>3. msg[x].ctr \in Counters /\ x # None
      BY <3>2, Types
    <3>4. msg[x].ctr < counter
      BY <3>2, <3>3 DEF LinkInv, TimersMatch
    <3>5. msg[x].ctr # counter
      BY <3>3, <3>4, Types DEF Counters
    <3> QED
      BY <1>1, <3>2, <3>3, <3>5, Types
  <2>3. \A c \in Counters : received'[c] # 0 => c < counter'
    BY <1>1, Types DEF LinkInv, TimersMatch, Counters
  <2> QED
    BY <2>1, <2>2, <2>3 DEF TimersMatch
<1>9. PendingMatches'
  <2>1. SUFFICES ASSUME NEW u \in UseCases, NEW c \in Counters, pending[u][c] # None
                 PROVE  /\ pending[u][c] \in Sent'
                        /\ msg'[pending[u][c]].ctr = c
                        /\ HasItem(u, pending[u][c])'
                        /\ stage'[u][pending[u][c]] \notin {"called", "approving"}
    BY <1>1 DEF PendingMatches, HasItem
  <2>2. /\ pending[u][c] \in Sent /\ msg[pending[u][c]].ctr = c
        /\ HasItem(u, pending[u][c])
        /\ stage[u][pending[u][c]] \notin {"called", "approving"}
    BY <2>1 DEF LinkInv, PendingMatches
  <2> QED
    BY <1>1, <1>3, <1>4, <2>2 DEF HasItem
<1>10. DecisionsMatch'
  <2>1. CountersDistinct' => CountersDistinct
    BY <1>3, <1>4 DEF CountersDistinct
  <2>2. SUFFICES ASSUME CountersDistinct
                 PROVE  /\ \A v \in Writes : \A item \in todo[v] : \E x \in Sent' : msg'[x] = item
                        /\ \A u \in UseCases, v \in Sent' :
                             stage'[u][v] = "approving" => ~HasItem(u, v)'
    BY <1>1, <2>1 DEF DecisionsMatch, HasItem
  <2>3. \A v \in Writes : \A item \in todo[v] : \E x \in Sent' : msg'[x] = item
    BY <1>3, <1>4, <2>2 DEF LinkInv, DecisionsMatch
  <2>4. \A u \in UseCases, v \in Sent' :
           stage'[u][v] = "approving" => ~HasItem(u, v)'
    <3>1. SUFFICES ASSUME NEW u \in UseCases, NEW v \in Sent', stage'[u][v] = "approving"
                   PROVE  u \notin msg'[v].load.items
      BY DEF HasItem
    <3>2. v \in Sent
      BY <1>3, <1>5, <3>1
    <3> QED
      BY <1>4, <2>2, <3>1, <3>2 DEF LinkInv, DecisionsMatch, HasItem
  <2> QED
    BY <2>3, <2>4
<1> QED
  BY <1>7, <1>8, <1>9, <1>10 DEF LinkInv

\* spine drops what awaits approval; the use cases keep everything.
LEMMA ReconnectLinks ==
    ASSUME TypeOK, LinkInv, Reconnect
    PROVE  LinkInv'
<1>1. /\ timer' = [c \in Counters |-> None]
      /\ received' = [c \in Counters |-> 0]
      /\ outcome' = [w \in Writes |->
                       IF outcome[w] = "waiting" THEN "dropped" ELSE outcome[w]]
      /\ UNCHANGED <<sent, msg, pending, stage, todo, applied, together>>
  BY DEF Reconnect
<1>2. Sent' = Sent
  BY <1>1 DEF Sent
<1>3. Waiting' = {}
  BY <1>1, <1>2, Types DEF Waiting
<1>4. Unsent'
  BY <1>1 DEF LinkInv, Unsent
<1>5. TimersMatch'
  BY <1>1, <1>3 DEF TimersMatch
<1>6. PendingMatches'
  BY <1>1, <1>2 DEF LinkInv, PendingMatches, HasItem
<1>7. DecisionsMatch'
  BY <1>1, <1>2 DEF LinkInv, DecisionsMatch, HasItem, CountersDistinct
<1> QED
  BY <1>4, <1>5, <1>6, <1>7 DEF LinkInv

\* by a timeout,
LEMMA TimeoutLinks ==
    ASSUME TypeOK, LinkInv, NEW c \in Counters, ApprovalTimeout(c)
    PROVE  LinkInv'
<1>1. /\ timer[c] # None
      /\ timer' = [timer EXCEPT ![c] = None]
      /\ outcome' = [outcome EXCEPT ![timer[c]] = "timeout"]
      /\ UNCHANGED <<sent, counter, msg, pending, stage, todo, received, applied, together>>
  BY DEF ApprovalTimeout
<1>2. Sent' = Sent
  BY <1>1 DEF Sent
<1>3. timer[c] \in Waiting /\ timer[c] \in Sent /\ timer[c] \in Writes /\ msg[timer[c]].ctr = c
  BY <1>1, Types DEF LinkInv, TimersMatch, Waiting
<1>4. Waiting' = Waiting \ {timer[c]}
  BY <1>1, <1>2, <1>3, Types DEF Waiting
<1>5. Unsent'
  BY <1>1, <1>3, Types DEF LinkInv, Unsent
<1>6. TimersMatch'
  <2>1. \A d \in Counters : timer'[d] # None => d # c /\ timer'[d] = timer[d]
    BY <1>1, Types
  <2>2. \A d \in Counters : timer'[d] # None =>
           timer'[d] \in Waiting' /\ msg'[timer'[d]].ctr = d /\ d < counter'
    BY <1>1, <1>3, <1>4, <2>1 DEF LinkInv, TimersMatch
  <2>3. \A x \in Waiting' : timer'[msg'[x].ctr] = x
    <3>1. SUFFICES ASSUME NEW x \in Waiting, x # timer[c] PROVE timer'[msg[x].ctr] = x
      BY <1>1, <1>4
    <3>2. timer[msg[x].ctr] = x /\ x \in Writes
      BY Types DEF LinkInv, TimersMatch, Waiting
    <3>3. msg[x].ctr # c /\ msg[x].ctr \in Counters
      BY <3>1, <3>2, Types
    <3> QED
      BY <1>1, <3>2, <3>3, Types
  <2> QED
    BY <1>1, <2>2, <2>3 DEF LinkInv, TimersMatch
<1>7. PendingMatches'
  BY <1>1, <1>2 DEF LinkInv, PendingMatches, HasItem
<1>8. DecisionsMatch'
  BY <1>1, <1>2 DEF LinkInv, DecisionsMatch, HasItem, CountersDistinct
<1> QED
  BY <1>5, <1>6, <1>7, <1>8 DEF LinkInv

\* Each step of a goroutine keeps the bookkeeping.
LEMMA GoroutineLinks ==
    ASSUME TypeOK, LinkInv, NEW g \in Writes, Goroutine(g)
    PROVE  LinkInv'
<1>1. ASSUME UNCHANGED <<sent, counter, msg>>, NEW u \in UseCases, NEW s \in Stages,
             stage[u][g] # "none", stage' = [stage EXCEPT ![u][g] = s],
             UNCHANGED outcome
      PROVE  Unsent'
  <2>1. g \in Sent
    BY <1>1, Types DEF LinkInv, Unsent
  <2> QED
    BY <1>1, <2>1, Types DEF LinkInv, Unsent
<1>2. ASSUME UNCHANGED <<sent, counter, msg, timer, received, outcome>>
      PROVE  TimersMatch'
  <2>1. Waiting' = Waiting
    BY <1>2 DEF Waiting, Sent
  <2> QED
    BY <1>2, <2>1 DEF LinkInv, TimersMatch
<1>3. ASSUME NEW u \in UseCases, NEW announced \in {"none", "event"},
             LoadControlWriteCB(u, g, announced)
      PROVE  LinkInv'
  <2>1. /\ stage[u][g] = "called"
        /\ UNCHANGED <<sent, counter, msg, todo, timer, received, outcome>>
        /\ \E s \in Stages : stage' = [stage EXCEPT ![u][g] = s]
    BY <1>3 DEF LoadControlWriteCB, spineVars, Stages
  <2>2. g \in Sent /\ Sent' = Sent
    BY <2>1, Types DEF LinkInv, Unsent, Sent
  <2>3. Unsent' /\ TimersMatch'
    BY <1>1, <1>2, <2>1
  <2>4. ASSUME NEW c \in Counters, pending[u][c] = g PROVE FALSE
    <3>1. pending[u][c] # None
      BY <2>2, <2>4, Types
    <3>2. stage[u][pending[u][c]] \notin {"called", "approving"}
      BY <3>1 DEF LinkInv, PendingMatches
    <3> QED
      BY <2>1, <2>4, <3>2
  <2>5. CASE ~msg[g].load.hasData
    <3>1. pending' = pending /\ stage' = [stage EXCEPT ![u][g] = "none"]
      BY <1>3, <2>5 DEF LoadControlWriteCB
    <3>2. PendingMatches'
      BY <2>1, <2>2, <3>1, Types DEF LinkInv, PendingMatches, HasItem
    <3>3. DecisionsMatch'
      BY <2>1, <2>2, <3>1, Types DEF LinkInv, DecisionsMatch, HasItem, CountersDistinct
    <3> QED
      BY <2>3, <3>2, <3>3 DEF LinkInv
  <2>6. CASE msg[g].load.hasData /\ Kept(u, g)
    <3>1. /\ HasItem(u, g)
          /\ pending' = [pending EXCEPT ![u][msg[g].ctr] = g]
          /\ stage' = [stage EXCEPT ![u][g] = announced]
      BY <1>3, <2>6 DEF LoadControlWriteCB, Kept
    <3>2. PendingMatches'
      <4>1. SUFFICES ASSUME NEW v \in UseCases, NEW c \in Counters, pending'[v][c] # None
                     PROVE  /\ pending'[v][c] \in Sent
                            /\ msg[pending'[v][c]].ctr = c
                            /\ HasItem(v, pending'[v][c])
                            /\ stage'[v][pending'[v][c]] \notin {"called", "approving"}
        BY <2>1, <2>2 DEF PendingMatches, HasItem
      <4>2. CASE v = u /\ c = msg[g].ctr
        <5>1. pending'[v][c] = g /\ stage'[v][g] = announced
          BY <3>1, <4>2, Types
        <5> QED
          BY <2>2, <3>1, <4>2, <5>1
      <4>3. CASE ~(v = u /\ c = msg[g].ctr)
        <5>1. pending'[v][c] = pending[v][c]
          BY <3>1, <4>3, Types
        <5>2. /\ pending[v][c] \in Sent /\ msg[pending[v][c]].ctr = c
              /\ HasItem(v, pending[v][c])
              /\ stage[v][pending[v][c]] \notin {"called", "approving"}
          BY <4>1, <5>1 DEF LinkInv, PendingMatches
        <5>3. stage'[v][pending[v][c]] = stage[v][pending[v][c]]
          BY <2>4, <3>1, <5>2, Types
        <5> QED
          BY <5>1, <5>2, <5>3
      <4> QED
        BY <4>2, <4>3
    <3>3. DecisionsMatch'
      BY <2>1, <2>2, <3>1, Types DEF LinkInv, DecisionsMatch, HasItem, CountersDistinct
    <3> QED
      BY <2>3, <3>2, <3>3 DEF LinkInv
  <2>7. CASE msg[g].load.hasData /\ ~Kept(u, g)
    <3>1. pending' = pending /\ stage' = [stage EXCEPT ![u][g] = "approving"]
      BY <1>3, <2>7 DEF LoadControlWriteCB
    <3>2. PendingMatches'
      <4>1. SUFFICES ASSUME NEW v \in UseCases, NEW c \in Counters, pending[v][c] # None
                     PROVE  stage'[v][pending[v][c]] \notin {"called", "approving"}
        BY <2>1, <2>2, <3>1 DEF LinkInv, PendingMatches, HasItem
      <4>2. stage[v][pending[v][c]] \notin {"called", "approving"} /\ pending[v][c] \in Sent
        BY <4>1 DEF LinkInv, PendingMatches
      <4> QED
        BY <2>4, <3>1, <4>2, Types
    <3>3. CountersDistinct => ~HasItem(u, g)
      <4>1. SUFFICES ASSUME CountersDistinct, HasItem(u, g) PROVE FALSE
        OBVIOUS
      <4>2. pending[u][msg[g].ctr] # None
        BY <2>7, <4>1 DEF Kept
      <4>3. pending[u][msg[g].ctr] \in Sent /\ msg[pending[u][msg[g].ctr]].ctr = msg[g].ctr
        BY <4>2, Types DEF LinkInv, PendingMatches
      <4>4. pending[u][msg[g].ctr] = g
        BY <2>2, <4>1, <4>3 DEF CountersDistinct
      <4> QED
        BY <2>4, <4>4, Types
    <3>4. DecisionsMatch'
      <4>1. SUFFICES ASSUME CountersDistinct
                     PROVE  \A v \in UseCases, w \in Sent :
                              stage'[v][w] = "approving" => ~HasItem(v, w)
        BY <2>1, <2>2 DEF LinkInv, DecisionsMatch, HasItem, CountersDistinct
      <4> QED
        BY <3>1, <3>3, <4>1, Types DEF LinkInv, DecisionsMatch
    <3> QED
      BY <2>3, <3>2, <3>4 DEF LinkInv
  <2> QED
    BY <2>5, <2>6, <2>7
<1>4. CASE LpcLoadControlWriteCB(g)
  BY <1>3, <1>4, Types DEF LpcLoadControlWriteCB
<1>5. CASE LppLoadControlWriteCB(g)
  BY <1>3, <1>5, Types DEF LppLoadControlWriteCB
\* A decision: the stage of one goroutine moves, or one pending write is taken.
<1>6. ASSUME NEW w \in Sent, NEW approve \in BOOLEAN, ApproveOrDenyWrite(w, approve),
             UNCHANGED <<sent, counter, msg>>
      PROVE  TimersMatch' /\ \A x \in Writes : x > sent => outcome'[x] = outcome[x]
  <2>1. w \in Writes
    BY Types
  <2>2. TimersMatch' /\ \A x \in Writes : outcome'[x] # outcome[x] => x \in Waiting
    BY <1>6, <2>1, DecisionKeepsTimers DEF LinkInv
  <2> QED
    BY <2>2, Types DEF Waiting
<1>7. ASSUME NEW u \in UseCases, AutoApprove(u, g)
      PROVE  LinkInv'
  <2>1. /\ stage[u][g] = "approving"
        /\ stage' = [stage EXCEPT ![u][g] = "none"]
        /\ ApproveOrDenyWrite(g, TRUE)
        /\ UNCHANGED <<sent, counter, msg, pending, todo>>
    BY <1>7 DEF AutoApprove
  <2>2. g \in Sent /\ Sent' = Sent
    BY <2>1, Types DEF LinkInv, Unsent, Sent
  <2>3. TimersMatch' /\ \A x \in Writes : x > sent => outcome'[x] = outcome[x]
    BY <1>6, <2>1, <2>2
  <2>4. Unsent'
    BY <2>1, <2>2, <2>3, Types DEF LinkInv, Unsent
  <2>5. PendingMatches'
    BY <2>1, <2>2, Types DEF LinkInv, PendingMatches, HasItem
  <2>6. DecisionsMatch'
    BY <2>1, <2>2, Types DEF LinkInv, DecisionsMatch, HasItem, CountersDistinct
  <2> QED
    BY <2>3, <2>4, <2>5, <2>6 DEF LinkInv
<1>8. CASE TakePending(g)
  <2>1. /\ stage[LPP][g] = "event"
        /\ stage' = [stage EXCEPT ![LPP][g] = "deciding"]
        /\ todo' = [todo EXCEPT ![g] = PendingProductionLimits]
        /\ UNCHANGED <<sent, counter, msg, pending, timer, received, outcome>>
    BY <1>8 DEF TakePending, spineVars
  <2>2. Sent' = Sent
    BY <2>1 DEF Sent
  <2>3. Unsent' /\ TimersMatch'
    BY <1>1, <1>2, <2>1, Types DEF Stages
  <2>4. PendingMatches'
    BY <2>1, <2>2, Types DEF LinkInv, PendingMatches, HasItem
  <2>5. \A item \in PendingProductionLimits : \E x \in Sent : msg[x] = item
    <3>1. SUFFICES ASSUME NEW c \in Counters, pending[LPP][c] # None
                   PROVE  \E x \in Sent : msg[x] = [ctr |-> c, load |-> msg[pending[LPP][c]].load]
      BY DEF PendingProductionLimits
    <3>2. pending[LPP][c] \in Sent /\ msg[pending[LPP][c]].ctr = c
      BY <3>1, Types DEF LinkInv, PendingMatches
    <3>3. msg[pending[LPP][c]] \in MsgType
      BY <3>2, Types
    <3>4. msg[pending[LPP][c]] = [ctr |-> c, load |-> msg[pending[LPP][c]].load]
      BY <3>2, <3>3 DEF MsgType
    <3> QED
      BY <3>2, <3>4
  <2>6. \A w \in Writes : \A item \in todo'[w] : item \in todo[w] \/ item \in PendingProductionLimits
    BY <2>1 DEF TypeOK
  <2>7. DecisionsMatch'
    BY <2>1, <2>2, <2>5, <2>6, Types DEF LinkInv, DecisionsMatch, HasItem, CountersDistinct
  <2> QED
    BY <2>3, <2>4, <2>7 DEF LinkInv
<1>9. ASSUME NEW item \in todo[g], Decide(g, item)
      PROVE  LinkInv'
  <2> DEFINE x == pending[LPP][item.ctr]
  <2>1. /\ UNCHANGED <<sent, counter, msg, stage>>
        /\ todo' = [todo EXCEPT ![g] = @ \ {item}]
    BY <1>9 DEF Decide
  <2>2. Sent' = Sent /\ item.ctr \in Counters
    BY <2>1 DEF Sent, TypeOK
  <2>3. \A w \in Writes : todo'[w] \subseteq todo[w]
    BY <2>1 DEF TypeOK
  <2>4. DecisionsMatch'
    BY <2>1, <2>2, <2>3 DEF LinkInv, DecisionsMatch, HasItem, CountersDistinct
  <2>5. CASE x = None
    <3>1. UNCHANGED <<pending, timer, received, outcome>>
      BY <1>9, <2>5 DEF Decide, spineVars
    <3>2. Unsent' /\ TimersMatch'
      BY <1>2, <2>1, <3>1 DEF LinkInv, Unsent
    <3>3. PendingMatches'
      BY <2>1, <2>2, <3>1 DEF LinkInv, PendingMatches, HasItem
    <3> QED
      BY <2>4, <3>2, <3>3 DEF LinkInv
  <2>6. CASE x # None
    <3>1. /\ ApproveOrDenyWrite(x, Acceptable(item.load))
          /\ pending' = [pending EXCEPT ![LPP][item.ctr] = None]
      BY <1>9, <2>6 DEF Decide
    <3>2. x \in Sent /\ Acceptable(item.load) \in BOOLEAN
      BY <2>2, <2>6, Types DEF LinkInv, PendingMatches, Acceptable
    <3>3. TimersMatch' /\ \A y \in Writes : y > sent => outcome'[y] = outcome[y]
      BY <1>6, <2>1, <3>1, <3>2
    <3>4. Unsent'
      BY <2>1, <3>3 DEF LinkInv, Unsent
    <3>5. \A u \in UseCases, c \in Counters : pending'[u][c] # None => pending'[u][c] = pending[u][c]
      BY <3>1, <2>2, Types
    <3>6. PendingMatches'
      BY <2>1, <2>2, <3>5 DEF LinkInv, PendingMatches, HasItem
    <3> QED
      BY <2>4, <3>3, <3>4, <3>6 DEF LinkInv
  <2> QED
    BY <2>5, <2>6
<1>10. CASE Decided(g)
  <2>1. /\ stage[LPP][g] = "deciding"
        /\ stage' = [stage EXCEPT ![LPP][g] = "none"]
        /\ UNCHANGED <<sent, counter, msg, pending, todo, timer, received, outcome>>
    BY <1>10 DEF Decided, spineVars
  <2>2. Sent' = Sent
    BY <2>1 DEF Sent
  <2>3. Unsent' /\ TimersMatch'
    BY <1>1, <1>2, <2>1, Types DEF Stages
  <2>4. PendingMatches'
    BY <2>1, <2>2, Types DEF LinkInv, PendingMatches, HasItem
  <2>5. DecisionsMatch'
    BY <2>1, <2>2, Types DEF LinkInv, DecisionsMatch, HasItem, CountersDistinct
  <2> QED
    BY <2>3, <2>4, <2>5 DEF LinkInv
<1> QED
  BY <1>4, <1>5, <1>7, <1>8, <1>9, <1>10 DEF Goroutine

\* and by every step.
LEMMA StepLinks == TypeOK /\ LinkInv /\ [Next]_vars => LinkInv'
<1> SUFFICES ASSUME TypeOK, LinkInv, [Next]_vars PROVE LinkInv'
  OBVIOUS
<1>1. CASE UNCHANGED vars
  <2>1. Sent' = Sent /\ Waiting' = Waiting
    BY <1>1 DEF vars, Sent, Waiting
  <2>2. Unsent' /\ TimersMatch'
    BY <1>1, <2>1 DEF vars, LinkInv, Unsent, TimersMatch
  <2>3. PendingMatches'
    BY <1>1, <2>1 DEF vars, LinkInv, PendingMatches, HasItem
  <2>4. DecisionsMatch'
    BY <1>1, <2>1 DEF vars, LinkInv, DecisionsMatch, HasItem, CountersDistinct
  <2> QED
    BY <2>2, <2>3, <2>4 DEF LinkInv
<1> QED
  BY <1>1, RemoteWriteLinks, ReconnectLinks, TimeoutLinks, GoroutineLinks DEF Next

-----------------------------------------------------------------------------
(* What is applied, what is answered, and what waits for the timeout.      *)

\* A write that arrives leaves the others to the use cases as they were.
LEMMA RemoteWriteLeavesOthers ==
    ASSUME TypeOK, LinkInv, NEW n, n = sent + 1, NEW p \in Payloads, RemoteWrite(p)
    PROVE  /\ Sent' = Sent \cup {n} /\ n \notin Sent /\ n \in Writes
           /\ Waiting' = Waiting \cup {n}
           /\ outcome'[n] = "waiting"
           /\ \A u \in UseCases : NotYet(u, n)'
           /\ \A w \in Sent : /\ msg'[w] = msg[w] /\ outcome'[w] = outcome[w]
                              /\ \A u \in UseCases : NotYet(u, w)' <=> NotYet(u, w)
<1>1. /\ sent' = n
      /\ msg' = [msg EXCEPT ![n] = [ctr |-> counter, load |-> p]]
      /\ outcome' = [outcome EXCEPT ![n] = "waiting"]
      /\ stage' = [u \in UseCases |-> [stage[u] EXCEPT ![n] = "called"]]
      /\ UNCHANGED pending
  BY DEF RemoteWrite
<1>2. n \in Writes
  BY WriteApprovalAssumption DEF RemoteWrite, TypeOK, Writes
<1>3. Sent' = Sent \cup {n} /\ n \notin Sent
  <2>1. sent \in Nat
    BY Types
  <2> QED
    BY <1>1, <2>1 DEF Sent
<1>4. outcome'[n] = "waiting" /\ \A u \in UseCases : stage'[u][n] = "called"
  BY <1>1, <1>2, Types
<1>5. \A w \in Sent : /\ msg'[w] = msg[w] /\ outcome'[w] = outcome[w]
                     /\ \A u \in UseCases : stage'[u][w] = stage[u][w]
  BY <1>1, <1>3, Types DEF TypeOK
<1>6. Waiting' = Waiting \cup {n}
  BY <1>3, <1>4, <1>5 DEF Waiting
<1>7. \A u \in UseCases : NotYet(u, n)'
  BY <1>4 DEF NotYet
<1>8. \A w \in Sent : \A u \in UseCases : NotYet(u, w)' <=> NotYet(u, w)
  BY <1>1, <1>5 DEF NotYet
<1> QED
  BY <1>2, <1>3, <1>4, <1>5, <1>6, <1>7, <1>8

\* A decision keeps the approvals that were counted right.
LEMMA DecidesKeepsApprovals ==
    ASSUME TypeOK, LinkInv, ApprovalsRight, NEW u \in UseCases, NEW w \in Sent,
           NEW approve \in BOOLEAN, Decides(u, w, approve)
    PROVE  ApprovalsRight'
<1> DEFINE c == msg[w].ctr
<1>1. /\ NotYet(u, w) /\ ~NotYet(u, w)'
      /\ ApproveOrDenyWrite(w, approve)
      /\ UNCHANGED <<sent, counter, msg, together>>
      /\ \A v \in UseCases, x \in Sent : ~NotYet(v, x) => ~NotYet(v, x)'
      /\ CountersDistinct /\ approve => Approvable(u, w)
      /\ CountersDistinct /\ ~approve => Refusable(w)
  BY DEF Decides
<1>2. /\ Sent' = Sent
      /\ CountersDistinct' <=> CountersDistinct
      /\ \A v \in UseCases, x \in Sent : Approvable(v, x)' <=> Approvable(v, x)
      /\ \A x \in Sent : Refusable(x)' <=> Refusable(x)
  BY <1>1 DEF Sent, CountersDistinct, Approvable, Refusable, HasItem
<1>3. SUFFICES ASSUME CountersDistinct
               PROVE  /\ \A d \in Counters : received'[d] # 0 =>
                           \E v \in UseCases, x \in Sent :
                              msg[x].ctr = d /\ ~NotYet(v, x)' /\ Approvable(v, x)
                      /\ \A x \in applied' : \A v \in UseCases : Approvable(v, x)
                      /\ applied' \subseteq Sent
                      /\ \A x \in Sent : outcome'[x] = "refused" => Refusable(x)
  <2>1. sent' = sent /\ msg' = msg
    BY <1>1
  <2> QED
    BY <2>1 DEF ApprovalsRight, Sent, CountersDistinct, Approvable, Refusable, HasItem
<1>4. /\ \A d \in Counters : received[d] # 0 =>
           \E v \in UseCases, x \in Sent :
              msg[x].ctr = d /\ ~NotYet(v, x) /\ Approvable(v, x)
      /\ \A x \in applied : \A v \in UseCases : Approvable(v, x)
      /\ applied \subseteq Sent
      /\ \A x \in Sent : outcome[x] = "refused" => Refusable(x)
  BY <1>3 DEF ApprovalsRight
<1>5. w \in Writes /\ c \in Counters
  BY Types
<1>6. timer[c] # None => timer[c] = w /\ outcome[w] = "waiting"
  <2>1. SUFFICES ASSUME timer[c] # None PROVE timer[c] = w /\ outcome[w] = "waiting"
    OBVIOUS
  <2>2. timer[c] \in Sent /\ msg[timer[c]].ctr = c /\ outcome[timer[c]] = "waiting"
    BY <1>5, <2>1 DEF LinkInv, TimersMatch, Waiting
  <2> QED
    BY <1>3, <2>2 DEF CountersDistinct
<1>7. CASE timer[c] = None /\ UNCHANGED spineVars
  BY <1>1, <1>4, <1>7 DEF spineVars
<1>8. CASE /\ timer[c] # None /\ ~approve
           /\ Conclude(c, "refused") /\ UNCHANGED applied
  <2>1. /\ received' = [received EXCEPT ![c] = 0]
        /\ outcome' = [outcome EXCEPT ![w] = "refused"]
    BY <1>6, <1>8 DEF Conclude
  <2>2. \A d \in Counters : received'[d] # 0 => received[d] # 0
    BY <1>5, <2>1, Types
  <2>3. \A x \in Sent : outcome'[x] = "refused" => Refusable(x)
    BY <1>1, <1>3, <1>4, <1>8, <2>1, Types
  <2> QED
    BY <1>1, <1>4, <1>8, <2>2, <2>3
<1>9. CASE /\ timer[c] # None /\ approve /\ received[c] = 0
           /\ received' = [d \in Counters |-> IF d = c THEN 1 ELSE 0]
           /\ UNCHANGED <<timer, outcome, applied>>
  <2>1. \A d \in Counters : received'[d] # 0 => d = c
    BY <1>9
  <2>2. Approvable(u, w)
    BY <1>1, <1>3, <1>9
  <2> QED
    BY <1>1, <1>4, <1>9, <2>1, <2>2
<1>10. CASE /\ timer[c] # None /\ approve /\ received[c] = 1
            /\ Conclude(c, "applied") /\ applied' = applied \cup {w}
  <2>1. /\ received' = [received EXCEPT ![c] = 0]
        /\ outcome' = [outcome EXCEPT ![w] = "applied"]
    BY <1>6, <1>10 DEF Conclude
  <2>2. \A d \in Counters : received'[d] # 0 => received[d] # 0
    BY <1>5, <2>1, Types
  <2>3. PICK v \in UseCases, x \in Sent :
           msg[x].ctr = c /\ ~NotYet(v, x) /\ Approvable(v, x)
    BY <1>4, <1>5, <1>10
  <2>4. x = w /\ v # u
    BY <1>1, <1>3, <2>3 DEF CountersDistinct
  <2>5. \A z \in UseCases : Approvable(z, w)
    BY <1>1, <1>3, <1>10, <2>3, <2>4, Types
  <2>6. \A y \in Sent : outcome'[y] = "refused" => Refusable(y)
    BY <1>4, <2>1, Types
  <2> QED
    BY <1>1, <1>4, <1>10, <2>2, <2>5, <2>6
<1> QED
  BY <1>1, <1>5, <1>7, <1>8, <1>9, <1>10, DecisionCases

\* So does every step.
LEMMA StepApprovals == TypeOK /\ LinkInv /\ ApprovalsRight /\ [Next]_vars => ApprovalsRight'
<1> SUFFICES ASSUME TypeOK, LinkInv, ApprovalsRight, [Next]_vars PROVE ApprovalsRight'
  OBVIOUS
<1>1. ASSUME NEW p \in Payloads, RemoteWrite(p) PROVE ApprovalsRight'
  <2>1. UNCHANGED <<received, applied>>
    BY <1>1 DEF RemoteWrite
  <2>2. PICK n : n = sent + 1
    OBVIOUS
  <2>3. /\ Sent' = Sent \cup {n} /\ n \notin Sent
        /\ outcome'[n] = "waiting"
        /\ \A w \in Sent : /\ msg'[w] = msg[w] /\ outcome'[w] = outcome[w]
                           /\ \A u \in UseCases : NotYet(u, w)' <=> NotYet(u, w)
    BY <1>1, <2>2, RemoteWriteLeavesOthers
  <2>4. CountersDistinct' => CountersDistinct
    BY <2>3 DEF CountersDistinct
  <2>5. /\ \A u \in UseCases, w \in Sent : Approvable(u, w)' <=> Approvable(u, w)
        /\ \A w \in Sent : Refusable(w)' <=> Refusable(w)
    BY <2>3 DEF Approvable, Refusable, HasItem
  <2>6. CountersDistinct => applied \subseteq Sent
    BY DEF ApprovalsRight
  <2>7. \A w \in Sent' : outcome'[w] = "refused" => w \in Sent /\ outcome[w] = "refused"
    BY <2>3
  <2>8. SUFFICES ASSUME CountersDistinct
                 PROVE  /\ \A c \in Counters : received[c] # 0 =>
                             \E u \in UseCases, w \in Sent' :
                                msg'[w].ctr = c /\ ~NotYet(u, w)' /\ Approvable(u, w)'
                        /\ \A w \in applied : \A u \in UseCases : Approvable(u, w)'
                        /\ applied \subseteq Sent'
                        /\ \A w \in Sent : outcome[w] = "refused" => Refusable(w)'
    BY <2>1, <2>4, <2>7 DEF ApprovalsRight
  <2> QED
    BY <2>3, <2>5, <2>6, <2>8 DEF ApprovalsRight
<1>2. CASE Reconnect
  <2>1. /\ \A c \in Counters : received'[c] = 0
        /\ outcome' = [w \in Writes |->
                         IF outcome[w] = "waiting" THEN "dropped" ELSE outcome[w]]
        /\ UNCHANGED <<sent, msg, applied>>
    BY <1>2 DEF Reconnect
  <2>2. \A w \in Sent : outcome'[w] = "refused" => outcome[w] = "refused"
    BY <2>1, Types
  <2> QED
    BY <2>1, <2>2
       DEF ApprovalsRight, Sent, CountersDistinct, Approvable, Refusable, HasItem
<1>3. ASSUME NEW c \in Counters, ApprovalTimeout(c) PROVE ApprovalsRight'
  <2>1. /\ outcome' = [outcome EXCEPT ![timer[c]] = "timeout"]
        /\ UNCHANGED <<sent, msg, applied, received, stage, pending>>
    BY <1>3 DEF ApprovalTimeout
  <2>2. timer[c] \in Writes /\ outcome[timer[c]] = "waiting"
    BY <1>3, Types DEF ApprovalTimeout, LinkInv, TimersMatch, Waiting
  <2>3. \A w \in Sent : outcome'[w] = "refused" => outcome[w] = "refused"
    BY <2>1, <2>2, Types
  <2>4. \A u \in UseCases, w \in Sent : NotYet(u, w)' <=> NotYet(u, w)
    BY <2>1 DEF NotYet
  <2> QED
    BY <2>1, <2>3, <2>4
       DEF ApprovalsRight, Sent, CountersDistinct, Approvable, Refusable, HasItem
<1>4. ASSUME NEW g \in Writes, Goroutine(g) PROVE ApprovalsRight'
  <2>1. CASE DecidesNothing
    <3>1. /\ UNCHANGED <<sent, msg, applied, received, outcome>>
          /\ \A u \in UseCases, w \in Sent : NotYet(u, w)' => NotYet(u, w)
      BY <2>1 DEF DecidesNothing, spineVars
    <3> QED
      BY <3>1
         DEF ApprovalsRight, Sent, CountersDistinct, Approvable, Refusable, HasItem
  <2> QED
    BY <1>4, <2>1, GoroutineDecides, DecidesKeepsApprovals
<1>5. CASE UNCHANGED vars
  BY <1>5
     DEF vars, ApprovalsRight, Sent, CountersDistinct, Approvable, Refusable, HasItem,
         NotYet
<1> QED
  BY <1>1, <1>2, <1>3, <1>4, <1>5 DEF Next

\* Both hold in every behaviour.
LEMMA ApprovalsInvariant == Spec => [](LinkInv /\ ApprovalsRight)
<1>1. Init => ApprovalsRight
  BY DEF Init, ApprovalsRight, Sent
<1> QED
  BY <1>1, InitLink, StepLinks, StepApprovals, TypeCorrect, PTL DEF Spec

\* A write is applied only if the application accepted every limit in it: neither
\* the two callbacks, nor goroutines deciding each other's writes, nor timeouts and
\* reconnections open a way around that.
THEOREM AppliedCorrect == Spec => []AppliedOnlyAccepted
<1>1. ApprovalsRight => AppliedOnlyAccepted
  BY DEF ApprovalsRight, AppliedOnlyAccepted, Approvable, UseCases, LPC, LPP
<1> QED
  BY <1>1, ApprovalsInvariant, PTL

\* A write is refused only with reason, whichever goroutine decides it and whatever
\* was decided, answered by the timeout or dropped since it read the limits.
THEOREM RefusedCorrect == Spec => []RefusedOnlyWithReason
<1>1. TypeOK /\ ApprovalsRight => RefusedOnlyWithReason
  <2> SUFFICES ASSUME TypeOK, ApprovalsRight, CountersDistinct,
                      NEW w \in Sent, outcome[w] = "refused"
               PROVE  /\ HasItem(LPP, w)
                      /\ \/ msg[w].load.value > 0
                         \/ msg[w].load.active /\ msg[w].load.duration = 0
    BY DEF RefusedOnlyWithReason
  <2>1. HasItem(LPP, w) /\ ~Acceptable(msg[w].load)
    BY DEF ApprovalsRight, Refusable
  <2>2. msg[w].load.value \in Int
    BY Types, WriteApprovalAssumption DEF MsgType, NoPayload, PayloadType
  <2> QED
    BY <2>1, <2>2 DEF Acceptable
<1> QED
  BY <1>1, TypeCorrect, ApprovalsInvariant, PTL

\* A step that moves no timer and takes nothing off a list of a waiting write.
LEMMA AloneUnchanged ==
    ASSUME TypeOK, AloneInv, UNCHANGED <<sent, msg, together, received>>,
           Waiting' \subseteq Waiting,
           \A u \in UseCases, w \in Waiting : msg[w].load.hasData =>
              (NotYet(u, w)' <=> NotYet(u, w))
    PROVE  AloneInv'
<1> SUFFICES ASSUME NEW w \in Waiting' \ together
             PROVE  /\ Waiting' = {w}
                    /\ msg[w].load.hasData =>
                         /\ (\E u \in UseCases : ~NotYet(u, w)') => received[msg[w].ctr] = 1
                         /\ \E u \in UseCases : NotYet(u, w)'
  BY DEF AloneInv
<1>1. w \in Waiting \ together /\ Waiting = {w}
  BY DEF AloneInv
<1> QED
  BY <1>1 DEF AloneInv

\* A decision keeps the invariant of prompt answers.
LEMMA DecidesKeepsAlone ==
    ASSUME TypeOK, LinkInv, AloneInv, NEW u \in UseCases, NEW x \in Sent,
           NEW approve \in BOOLEAN, Decides(u, x, approve)
    PROVE  AloneInv'
<1> DEFINE c == msg[x].ctr
<1>1. /\ NotYet(u, x)
      /\ ApproveOrDenyWrite(x, approve)
      /\ UNCHANGED <<sent, counter, msg, together>>
      /\ \A v \in UseCases, y \in Sent :
           NotYet(v, y)' <=> NotYet(v, y) /\ ~(v = u /\ y = x)
  BY DEF Decides
<1>2. Sent' = Sent /\ x \in Writes /\ c \in Counters
  BY <1>1, Types DEF Sent
<1>3. \A w \in Waiting : timer[msg[w].ctr] = w /\ w \in Sent /\ w \in Writes
                       /\ w # None /\ msg[w].ctr \in Counters
  BY Types DEF LinkInv, TimersMatch, Waiting
<1>4. CASE timer[c] = None /\ UNCHANGED spineVars
  <2>1. x \notin Waiting
    BY <1>3, <1>4
  <2>2. Waiting' = Waiting /\ received' = received
    BY <1>2, <1>4 DEF spineVars, Waiting
  <2>3. \A v \in UseCases, w \in Waiting : NotYet(v, w)' <=> NotYet(v, w)
    BY <1>1, <1>3, <2>1
  <2> QED
    BY <1>1, <2>2, <2>3, AloneUnchanged
<1>5. ASSUME timer[c] # None, NEW result \in {"refused", "applied"}, Conclude(c, result)
      PROVE  AloneInv'
  <2>1. timer[c] \in Waiting /\ timer[c] \in Writes
    BY <1>2, <1>5, <1>3 DEF LinkInv, TimersMatch
  <2>2. outcome' = [outcome EXCEPT ![timer[c]] = result]
    BY <1>5 DEF Conclude
  <2>3. Waiting' = Waiting \ {timer[c]}
    BY <1>2, <2>1, <2>2, Types DEF Waiting
  <2>4. \A w \in Waiting' : w \in together
    BY <2>1, <2>3 DEF AloneInv
  <2> QED
    BY <1>1, <2>4 DEF AloneInv
<1>6. CASE /\ timer[c] # None /\ approve /\ received[c] = 0
           /\ received' = [d \in Counters |-> IF d = c THEN 1 ELSE 0]
           /\ UNCHANGED <<timer, outcome, applied>>
  <2>1. Waiting' = Waiting
    BY <1>2, <1>6 DEF Waiting
  <2>2. SUFFICES ASSUME NEW w \in Waiting \ together
                 PROVE  /\ Waiting = {w}
                        /\ msg[w].load.hasData =>
                             /\ received'[msg[w].ctr] = 1
                             /\ \E v \in UseCases : NotYet(v, w)'
    BY <1>1, <2>1 DEF AloneInv
  <2>3. Waiting = {w}
    BY DEF AloneInv
  <2>4. msg[w].ctr = c
    BY <1>2, <1>6, <2>3 DEF LinkInv, TimersMatch
  <2>5. received'[msg[w].ctr] = 1
    BY <1>2, <1>6, <2>4
  <2>6. msg[w].load.hasData => \E v \in UseCases : NotYet(v, w)'
    <3>1. SUFFICES ASSUME msg[w].load.hasData PROVE \E v \in UseCases : NotYet(v, w)'
      OBVIOUS
    <3>2. \A v \in UseCases : NotYet(v, w)
      BY <1>6, <2>4, <3>1 DEF AloneInv
    <3>3. PICK v \in UseCases : v # u
      BY Types
    <3> QED
      BY <1>1, <1>3, <3>2, <3>3
  <2> QED
    BY <2>3, <2>5, <2>6
<1> QED
  BY <1>1, <1>2, <1>4, <1>5, <1>6, DecisionCases

\* So does every step.
LEMMA StepAlone == TypeOK /\ LinkInv /\ AloneInv /\ [Next]_vars => AloneInv'
<1> SUFFICES ASSUME TypeOK, LinkInv, AloneInv, [Next]_vars PROVE AloneInv'
  OBVIOUS
<1>1. ASSUME NEW p \in Payloads, RemoteWrite(p) PROVE AloneInv'
  <2>1. PICK n : n = sent + 1
    OBVIOUS
  <2>2. /\ Waiting' = Waiting \cup {n}
        /\ \A u \in UseCases : NotYet(u, n)'
    BY <1>1, <2>1, RemoteWriteLeavesOthers
  <2>3. together' = IF Waiting = {} THEN together
                    ELSE together \cup Waiting \cup {n}
    BY <1>1, <2>1 DEF RemoteWrite
  <2>4. CASE Waiting = {}
    <3>1. Waiting' = {n}
      BY <2>2, <2>4
    <3>2. \E u \in UseCases : TRUE
      BY Types
    <3> QED
      BY <2>2, <3>1, <3>2 DEF AloneInv
  <2>5. CASE Waiting # {}
    <3>1. \A w \in Waiting' : w \in together'
      BY <2>2, <2>3, <2>5
    <3> QED
      BY <3>1 DEF AloneInv
  <2> QED
    BY <2>4, <2>5
<1>2. CASE Reconnect
  <2>1. Waiting' = {}
    BY <1>2, Types DEF Reconnect, Waiting, Sent
  <2> QED
    BY <2>1 DEF AloneInv
<1>3. ASSUME NEW c \in Counters, ApprovalTimeout(c) PROVE AloneInv'
  <2>1. /\ outcome' = [outcome EXCEPT ![timer[c]] = "timeout"]
        /\ UNCHANGED <<sent, msg, together, received, stage, pending>>
    BY <1>3 DEF ApprovalTimeout
  <2>2. Waiting' \subseteq Waiting
    BY <2>1, Types DEF Waiting, Sent
  <2> QED
    BY <2>1, <2>2, AloneUnchanged DEF NotYet
<1>4. ASSUME NEW g \in Writes, Goroutine(g) PROVE AloneInv'
  <2>1. CASE DecidesNothing
    <3>1. /\ UNCHANGED <<sent, msg, together, received, outcome>>
          /\ \A u \in UseCases, w \in Waiting : msg[w].load.hasData =>
                (NotYet(u, w)' <=> NotYet(u, w))
      BY <2>1 DEF DecidesNothing, spineVars, Waiting
    <3>2. Waiting' \subseteq Waiting
      BY <3>1 DEF Waiting, Sent
    <3> QED
      BY <3>1, <3>2, AloneUnchanged
  <2> QED
    BY <1>4, <2>1, GoroutineDecides, DecidesKeepsAlone
<1>5. CASE UNCHANGED vars
  <2>1. Waiting' = Waiting
    BY <1>5 DEF vars, Waiting, Sent
  <2> QED
    BY <1>5, <2>1, AloneUnchanged DEF vars, NotYet
<1> QED
  BY <1>1, <1>2, <1>3, <1>4, <1>5 DEF Next

\* The writes left to the timeout are those OnLPCEvent never decides, those without
\* data, and those that overlapped another write of the device.
THEOREM PromptAnswerCorrect == Spec => []PromptAnswer
<1>1. Init => AloneInv
  BY DEF Init, AloneInv, Waiting, Sent
<1>2. TypeOK /\ LinkInv /\ AloneInv /\ NoProductionWritePending => PromptAnswer
  <2> SUFFICES ASSUME TypeOK, LinkInv, AloneInv, NoProductionWritePending, Quiet,
                      NEW w \in Waiting, ~HasItem(LPC, w), msg[w].load.hasData,
                      w \notin together
               PROVE  FALSE
    BY DEF PromptAnswer
  <2>1. PICK u \in UseCases : NotYet(u, w)
    BY DEF AloneInv
  <2>2. w \in Writes /\ msg[w].ctr \in Counters /\ w # None
    BY Types DEF Waiting
  <2>3. stage[u][w] = "none"
    BY <2>2 DEF Quiet
  <2>4. pending[u][msg[w].ctr] = w
    BY <2>1, <2>3 DEF NotYet
  <2>5. HasItem(u, w)
    BY <2>2, <2>4 DEF LinkInv, PendingMatches
  <2>6. u = LPP
    BY <2>5, Types
  <2> QED
    BY <2>2, <2>4, <2>6 DEF NoProductionWritePending
<1> QED
  BY <1>1, <1>2, InitLink, StepLinks, StepAlone, TypeCorrect, NothingForgotten, PTL
     DEF Spec

=============================================================================
