---------------------------- MODULE MCVideoCache ----------------------------
(***************************************************************************)
(* VideoCache with the planner of CachePlan, on small playlists.           *)
(***************************************************************************)
EXTENDS VideoCache, CachePlan

CONSTANTS a, b,             \* the items
          MaxTarget         \* the largest number of threads asked for

TwoItems == {a, b}
TwoInOrder == <<a, b>>
MCFirst == [i \in Item |-> 0]
MCLast == [i \in Item |-> IF i = a THEN 2 ELSE 1]
MCSize == [i \in Item |-> 1]
NoLimit == [i \in Item |-> -1]
OneThread == [i \in Item |-> IF i = a THEN 1 ELSE -1]

Setting(enabled, max, nr, nrPlay, wait) ==
    [enabled |-> enabled, max |-> max, nrThreads |-> nr, nrPlayback |-> nrPlay,
     wait |-> wait]

\* One setting; on and off; any number of threads.
FixedSetting == Setting(TRUE, 4, MaxTarget, 0, FALSE)
OneSetting == {FixedSetting}
WaitSetting == Setting(TRUE, 4, MaxTarget, 0, TRUE)
WaitSettings == {WaitSetting, Setting(FALSE, 4, MaxTarget, 0, TRUE)}
DisabledSetting == Setting(FALSE, 4, MaxTarget, 0, FALSE)
SomeSettings ==
    {Setting(e, 4, n, 0, FALSE) : e \in BOOLEAN, n \in 0 .. MaxTarget}

\* Settings for playback: a cache that does not hold both items, with and
\* without waiting for the cache and threads that work during playback.
PlaySetting == Setting(TRUE, 3, MaxTarget, 0, TRUE)
PlaySettings ==
    {PlaySetting, Setting(TRUE, 3, MaxTarget, 1, FALSE), Setting(TRUE, 3, 1, 0, TRUE),
     Setting(FALSE, 3, MaxTarget, 0, FALSE)}

TightSetting == Setting(TRUE, 3, MaxTarget, 0, FALSE)
TightSettings == {TightSetting}

\* The planner, computed once for all inputs: @@ makes TLC list the function.
PlanTable == [in \in PlanInput |-> PlanCacheQueue(in)] @@ <<>>
TabledPlan(in) == PlanTable[in]

Symmetry == Permutations(Thread)
=============================================================================
