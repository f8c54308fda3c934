---------------------------- MODULE PlaylistItems ----------------------------
(***************************************************************************)
(* What the cache sees of the items of the playlist (playlistItem.h and    *)
(* playlistItemWithVideo.h), and the data that VideoCache keeps about them.*)
(* Pixels, names and files are abstracted away: of a frame only its index  *)
(* is left, of an item only its range of frames, the size of one frame and *)
(* whether it can be cached.                                               *)
(***************************************************************************)
EXTENDS Lists, FiniteSets

CONSTANTS Item,              \* the items that exist
          Order,             \* ... in the order of the playlist
          None,              \* nullptr
          FirstFrame,        \* properties().startEndRange of each item ...
          LastFrame,
          FrameSize,         \* getCachingFrameSize() of each item
          IndexedByFrame,    \* the items with properties().isIndexedByFrame()
          CachableItem,      \* the items of which isCachable() holds until
                             \* they are tagged for deletion
          ThreadLimit        \* cachingThreadLimit() of each item; -1: no limit

ASSUME ItemAssumption ==
    /\ None \notin Item
    /\ Order \in Seq(Item)
    /\ \A i \in Item : \E k \in DOMAIN Order : Order[k] = i
    /\ \A k, m \in DOMAIN Order : Order[k] = Order[m] => k = m
    /\ FirstFrame \in [Item -> Nat]
    /\ LastFrame \in [Item -> Nat]
    /\ \A i \in Item : FirstFrame[i] <= LastFrame[i]
    /\ FrameSize \in [Item -> Nat]
    /\ IndexedByFrame \subseteq Item
    /\ CachableItem \subseteq IndexedByFrame
    /\ \A i \in CachableItem : FrameSize[i] > 0
    /\ ThreadLimit \in [Item -> Nat \cup {-1}]
-----------------------------------------------------------------------------
\* The frames an item can show.
FrameRange(i) == FirstFrame[i] .. LastFrame[i]

Frame == UNION {FrameRange(i) : i \in Item}

\* playlist->getAllPlaylistItems(): the items that are in the tree, in order.
ItemList(inTree) == Those(Order, inTree)

\* struct cacheJob: an item and the first and last frame still to be cached.
Job == [item: Item, first: Int, last: Int]

\* plItemFrame: one frame of an item.
ItemFrame == Item \X Int

\* The memory that n frames of an item take.
SpaceOf(i, n) == n * FrameSize[i]

NrCached(held, i) == Cardinality(held[i])

\* The memory that the cached frames of all items of a list take.
LevelOf(items, held) ==
    Total(items, [i \in Item |-> SpaceOf(i, NrCached(held, i))])
-----------------------------------------------------------------------------
\* What the planner is called with, when the limit is one of `levels`: at least
\* one item is in the playlist, and a selected item is one of them.
PlanInputs(levels) ==
    {in \in [listed: (SUBSET Item) \ {{}}, cachable: SUBSET CachableItem,
             sel: Item \cup {None}, play: BOOLEAN, max: levels,
             cached: [Item -> SUBSET Frame]] :
       in.sel \in in.listed \cup {None}}

\* What the main thread relies on: a plan for an input queues items of the
\* playlist only and never puts a frame into a cache by itself; its level is the
\* memory that the cached frames take, within the limit; and what it allows to
\* remove is cached, and is not listed twice.
SoundPlan(in, plan) ==
    /\ plan.queue \in Seq([item: in.listed, first: Int, last: Int])
    /\ plan.deq \in Seq(in.listed \X Int)
    /\ plan.cached \in [Item -> SUBSET Frame]
    /\ \A i \in Item : plan.cached[i] \subseteq in.cached[i]
    /\ plan.level = LevelOf(ItemList(in.listed), plan.cached)
    /\ plan.level <= in.max
    /\ \A k \in DOMAIN plan.deq : plan.deq[k][2] \in plan.cached[plan.deq[k][1]]
    /\ \A k, m \in DOMAIN plan.deq : plan.deq[k] = plan.deq[m] => k = m
=============================================================================
