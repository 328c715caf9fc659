--------------------------- MODULE MCHemsWatchdog ---------------------------
(* Two monitor goroutines, as many as can be alive around one reconnection,*)
(* and two countdowns, as many as two overlapping monitors can spawn.      *)
EXTENDS HemsWatchdog, TLC

CONSTANTS m1, m2, c1, c2

MCMonitors == {m1, m2}
MCCountdowns == {c1, c2}
MCLimitValues == {-2}
MCLimitDurations == {0, 2}
MCFailsafeLimits == {0, 1}
MCFailsafeDurations == {3}
MCOneFailsafeLimit == {1}
MCNoDurations == {0}
MCShortDurations == {1}
Symmetry == Permutations(MCMonitors) \cup Permutations(MCCountdowns)

=============================================================================
