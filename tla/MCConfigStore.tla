---------------------------- MODULE MCConfigStore ----------------------------
(* Two event goroutines and a few values of each kind: limits with and     *)
(* without a fraction, a duration in range, one that is in range only once *)
(* its fraction is cut off, and one too short.                             *)
EXTENDS ConfigStore, TLC

CONSTANTS h1, h2

MCHandlers == {h1, h2}
MCLimits == {[whole |-> 1, rest |-> FALSE], [whole |-> 1, rest |-> TRUE]}
MCDurations == {[whole |-> 7200, rest |-> FALSE], [whole |-> 86400, rest |-> TRUE],
                [whole |-> 60, rest |-> FALSE]}
MCPasswords == {NoPassword, "short"}
MCLongPasswords == {"long"}
Symmetry == Permutations(MCHandlers)

=============================================================================
