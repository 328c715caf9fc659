--------------------------- MODULE MCWriteApproval ---------------------------
(* Payloads that separate the branches of the callbacks and of OnLPPEvent. *)
EXTENDS WriteApproval

Payload(items, hasData, active, value, duration) ==
    [items |-> items, hasData |-> hasData, active |-> active, value |-> value,
     duration |-> duration]

Accepted == Payload({LPP}, TRUE, TRUE, -1, 1)
NoDuration == Payload({LPP}, TRUE, TRUE, -1, 0)
Positive == Payload({LPP}, TRUE, FALSE, 1, 0)
Consumption == Payload({LPC}, TRUE, TRUE, 0, 1)
Both == Payload({LPC, LPP}, TRUE, FALSE, -1, 0)
Other == Payload({}, TRUE, FALSE, 0, 0)
Empty == Payload({}, FALSE, FALSE, 0, 0)

MCPayloads == {Accepted, Positive, NoDuration, Consumption, Both, Other, Empty}
MCFewPayloads == {Accepted, Consumption}

=============================================================================
