---------------------------- MODULE CachePlanning ----------------------------
(***************************************************************************)
(* updateCacheQueue is called once, with any of a set of inputs. The       *)
(* properties relate the plan to its input and to what the comments of     *)
(* VideoCache.cpp promise of it.                                           *)
(***************************************************************************)
EXTENDS CachePlan

CONSTANT Inputs    \* the inputs to try

ASSUME InputAssumption == \A in \in Inputs : in \in PlanInputs(Nat)

VARIABLES input, result
vars == <<input, result>>

NoPlan == [made |-> FALSE]

Init == input \in Inputs /\ result = NoPlan

MakePlan ==
    /\ result = NoPlan
    /\ result' = PlanCacheQueue(input)
    /\ UNCHANGED input

Next == MakePlan

Spec == Init /\ [][Next]_vars
-----------------------------------------------------------------------------
Made == result # NoPlan

\* The items in the playlist, and where the selected one is among them.
Items == ItemList(input.listed)
Pos == SelectedPos(Items, input.sel)
Sel == Items[Pos]

\* The frames that the jobs of the plan will cache, and those that can be dropped.
Planned == UNION {{<<j.item, f>> : f \in j.first .. j.last} : j \in ToSet(result.queue)}
Removed == ToSet(result.deq)

\* The level the plan leaves is the memory that the cached frames really take,
\* and it is within the limit whatever was cached before (a smaller limit, a
\* range that shrank).
LevelIsExact ==
    Made => /\ result.level = LevelOf(Items, result.cached)
            /\ result.level <= input.max

\* An overflow takes frames from the selected item only when nothing of any
\* other item is left.
SelectedEmptiedLast ==
    Made /\ result.cached[Sel] # input.cached[Sel] \cap FrameRange(Sel) =>
        \A i \in input.listed \ {Sel} : result.cached[i] = {}

\* During playback no frame is both marked for removal and planned, every
\* frame marked is in a cache, and none is marked twice.
PlayingSplitsCache ==
    Made /\ input.play =>
        /\ Removed \cap Planned = {}
        /\ \A x \in Removed : x[2] \in result.cached[x[1]]
        /\ \A m, n \in DOMAIN result.deq : result.deq[m] = result.deq[n] => m = n

\* The frames removed first during playback belong to the items that will be
\* played last.
PlayingRemovesFarthestFirst ==
    LET Distance(i) == (SelectedPos(Items, i) - Pos) % Len(Items)
    IN  Made /\ input.play =>
          \A m, n \in DOMAIN result.deq :
            m < n => Distance(result.deq[m][1]) >= Distance(result.deq[n][1])

\* The deleting loop comes to an end.
DeletingEnds ==
    LET c == FreeOverflow(Items, Pos, input.max, input.cached)
        needed == SpaceOf(Sel, LastFrame[Sel] - FirstFrame[Sel] + 1)
        additional == needed - SpaceOf(Sel, NrCached(c.cached, Sel))
    IN  (result = NoPlan /\ ~input.play /\ Sel \in input.cachable /\ additional > 0
          /\ needed <= input.max /\ additional > input.max - c.level) =>
          PlanDeleting(Items, Pos, input.max, c, needed, additional).ended
-----------------------------------------------------------------------------
\* Statements of the comments, checked on their own.

\* VideoCache.h: enqueueCacheJob does nothing if all frames within the range
\* are already cached - and otherwise enqueues the job.
UncachedFramesAreEnqueued ==
    Made /\ ~input.play /\ Sel \in input.cachable
         /\ SpaceOf(Sel, LastFrame[Sel] - FirstFrame[Sel] + 1) <= input.max =>
        \A f \in FrameRange(Sel) : f \in result.cached[Sel] \/ <<Sel, f>> \in Planned

\* VideoCache.cpp: "We go through all other items and get the frames that we
\* will delete."
SelectedIsNotRemoved ==
    Made /\ ~input.play => \A x \in Removed : x[1] # Sel

\* VideoCache.cpp, in the function that starts the jobs: "updateCacheQueue
\* should never create a situation where" there is not enough space and no
\* more frame can be removed.
PlanFits ==
    LET cached == {x \in input.listed \X Frame : x[2] \in result.cached[x[1]]}
    IN  Made => MapThenSumSet(LAMBDA x : FrameSize[x[1]], (cached \ Removed) \cup Planned)
                  <= input.max
=============================================================================
