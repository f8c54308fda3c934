----------------------------- MODULE MCCachePlan -----------------------------
(***************************************************************************)
(* All small inputs of the planner: three items, of which the second one   *)
(* may be missing, every selection and every set of cached frames.         *)
(***************************************************************************)
EXTENDS CachePlanning

CONSTANTS a, b, d,     \* the items
          MaxLevels    \* the values of cacheLevelMax to try

Items3 == <<a, b, d>>
AllItems == {a, b, d}
MCFirst == (a :> 0) @@ (b :> 0) @@ (d :> 0)
MCLast == (a :> 1) @@ (b :> 2) @@ (d :> 2)
MCSize == (a :> 1) @@ (b :> 1) @@ (d :> 2)
MCLimit == (a :> -1) @@ (b :> -1) @@ (d :> -1)

\* Cached frames may lie one past the range of the item: the range can shrink.
MCInputs ==
    {in \in [listed: {AllItems, {a, d}}, cachable: {CachableItem}, sel: AllItems \cup {None},
             play: BOOLEAN, max: MaxLevels, cached: [AllItems -> SUBSET (0 .. 2)]] :
       /\ in.sel \in in.listed \cup {None}
       /\ b \notin in.listed => in.cached[b] = {}}
=============================================================================
