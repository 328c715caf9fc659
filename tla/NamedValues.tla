----------------------------- MODULE NamedValues -----------------------------
(***************************************************************************)
(* What a controllable system promises about its values: independent named *)
(* registers.  Each use case has a limit, a failsafe limit and a nominal   *)
(* maximum, and all share the minimum failsafe duration.  The application  *)
(* sets one register at a time, and finds there what it set; the remote    *)
(* device changes the registers it names, as far as it may change them.    *)
(***************************************************************************)
EXTENDS Naturals

CONSTANTS UseCases, Undefined, InitialLimit, Limits, Powers, Durations, Permitted

VARIABLES limit, failsafe, duration, nominal, request
vars == <<limit, failsafe, duration, nominal, request>>

Init == /\ limit = [uc \in UseCases |-> Undefined]
        /\ failsafe = limit /\ nominal = limit
        /\ duration = Undefined
        /\ request = <<"none">>

Setting(v, changeable) == [value |-> v, isChangeable |-> changeable]

\* A use case is announced: its registers come into being, and the duration
\* it shares with others starts again.
Announce(uc) ==
    /\ limit[uc] = Undefined
    /\ limit' = [limit EXCEPT ![uc] = InitialLimit]
    /\ failsafe' = [failsafe EXCEPT ![uc] = Setting(0, TRUE)]
    /\ duration' = Setting(0, TRUE)
    /\ request' = <<"announce", uc>>
    /\ UNCHANGED nominal

SetLimit(uc) == \E l \in Limits :
    /\ request' = <<"limit", uc, l>>
    /\ limit' = [limit EXCEPT ![uc] = l]
    /\ UNCHANGED <<failsafe, duration, nominal>>

SetFailsafe(uc) == \E v \in Powers, c \in BOOLEAN :
    /\ request' = <<"failsafe", uc, v, c>>
    /\ failsafe' = [failsafe EXCEPT ![uc] = Setting(v, c)]
    /\ UNCHANGED <<limit, duration, nominal>>

SetDuration == \E d \in Durations \intersect Permitted, c \in BOOLEAN :
    /\ request' = <<"duration", d, c>>
    /\ duration' = Setting(d, c)
    /\ UNCHANGED <<limit, failsafe, nominal>>

SetNominal(uc) == \E v \in Powers :
    /\ request' = <<"nominal", uc, v>>
    /\ nominal' = [nominal EXCEPT ![uc] = v]
    /\ UNCHANGED <<limit, failsafe, duration>>

\* What a write may do to a register that it names, or does not name.
Written(old, new, named) ==
    IF named /\ old.isChangeable THEN new.isChangeable ELSE new = old

WriteLimits(named) ==
    /\ request' = <<"write limits", named>>
    /\ \A uc \in UseCases : IF limit[uc] = Undefined THEN limit'[uc] = Undefined
                            ELSE Written(limit[uc], limit'[uc], uc \in named)
    /\ UNCHANGED <<failsafe, duration, nominal>>

WriteFailsafe(named, durationToo) ==
    /\ request' = <<"write failsafe", named, durationToo>>
    /\ \A uc \in UseCases : IF failsafe[uc] = Undefined THEN failsafe'[uc] = Undefined
                            ELSE Written(failsafe[uc], failsafe'[uc], uc \in named)
    /\ Written(duration, duration', durationToo)
    /\ UNCHANGED <<limit, nominal>>

Next == \/ \E uc \in UseCases : Announce(uc) \/ SetLimit(uc) \/ SetFailsafe(uc) \/ SetNominal(uc)
        \/ SetDuration
        \/ \E named \in SUBSET UseCases :
              WriteLimits(named) \/ \E d \in BOOLEAN : WriteFailsafe(named, d)

Spec == Init /\ [][Next]_vars
=============================================================================
