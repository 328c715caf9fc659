----------------------------- MODULE MCCsEvents -----------------------------
(* Constants of the TLC runs of CsEvents. *)
EXTENDS CsEvents, TLC

CONSTANTS lpc, lpp, e1, e2, other, none, s1, s2

MCUseCases == {lpc, lpp}
MCEntities == {e1, e2, other}
MCNoEntity == none
MCCompatible == {e1, e2}
MCDiagnosisSets == {{}, {other, e1}, {e1, e2}}
MCSlots == {s1, s2}
MCSymmetry == Permutations({lpc, lpp}) \cup Permutations({s1, s2})

=============================================================================
