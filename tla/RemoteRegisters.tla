--------------------------- MODULE RemoteRegisters ---------------------------
(***************************************************************************)
(* What an energy guard promises about the values of a remote device: each *)
(* is a register.  The device decides about the writes in the order they   *)
(* were asked for.  A write it takes changes its own register once and to  *)
(* what was asked for, and only a decision can be told to the application. *)
(* A device that cannot write parts of a list is sent a copy of the other  *)
(* registers of the list as well, which may bring back an earlier value.   *)
(***************************************************************************)
EXTENDS Naturals, Sequences

CONSTANTS
    ListOf,           \* the list each register belongs to
    Requests,         \* for each register what may be asked for
    Requested(_, _, _)  \* a register's value after a request

VARIABLES partial, value, held, writes
vars == <<partial, value, held, writes>>

Registers == DOMAIN ListOf

Init == /\ partial \in BOOLEAN
        /\ \A r \in Registers : value[r] \in held[r]
        /\ writes = <<>>

Held == held' = [r \in Registers |-> held[r] \union {value'[r]}]

Write(r) == \E request \in Requests[r] :
    /\ writes' = Append(writes, [register |-> r, request |-> request,
                                 decision |-> "open", told |-> "none"])
    /\ UNCHANGED <<partial, value, held>>

IsNext(n) == /\ writes[n].decision = "open"
             /\ \A m \in 1..(n - 1) : writes[m].decision # "open"

Take(n) ==
    LET r == writes[n].register
        request == writes[n].request
    IN /\ IsNext(n)
       /\ writes' = [writes EXCEPT ![n].decision = "accepted"]
       /\ IF partial THEN value' = [value EXCEPT ![r] = Requested(r, @, request)]
          ELSE /\ \E old \in held[r] : value'[r] = Requested(r, old, request)
               /\ \A o \in Registers \ {r} :
                     value'[o] \in IF ListOf[o] = ListOf[r] THEN held[o] ELSE {value[o]}
       /\ Held
       /\ UNCHANGED partial

Refuse(n) == /\ IsNext(n)
             /\ writes' = [writes EXCEPT ![n].decision = "denied"]
             /\ UNCHANGED <<partial, value, held>>

\* At most once, and never before the decision.
Tell(n) == /\ writes[n].decision # "open" /\ writes[n].told = "none"
           /\ writes' = [writes EXCEPT ![n].told = writes[n].decision]
           /\ UNCHANGED <<partial, value, held>>

\* The device changes a value of its own.
Change(r) == /\ \A o \in Registers \ {r} : value'[o] = value[o]
             /\ Held
             /\ UNCHANGED <<partial, writes>>

Next == \/ \E r \in Registers : Write(r) \/ Change(r)
        \/ \E n \in DOMAIN writes : Take(n) \/ Refuse(n) \/ Tell(n)

Spec == Init /\ [][Next]_vars
=============================================================================
