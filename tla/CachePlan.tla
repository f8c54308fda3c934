------------------------------ MODULE CachePlan ------------------------------
(***************************************************************************)
(* VideoCache::updateCacheQueue and enqueueCacheJob: from the playlist, the*)
(* selection, the playback state and the frames that are cached, the plan  *)
(* of what is cached next and of what may be dropped to make room for it.  *)
(* The plan is a pure function of its input, a record with the fields      *)
(*   listed   the items that are in the playlist                           *)
(*   cachable the items of which isCachable() holds                        *)
(*   sel      the first selected item or None                              *)
(*   play     playback->playing()                                          *)
(*   max      cacheLevelMax                                                *)
(*   cached   for each item the set of the frames in its cache             *)
(* Positions in the list count from 1, in the code from 0. A definition    *)
(* with a suffix (Mark_LevelKept) is a faulty variant of the one after it, *)
(* which shows that a property notices the fault; nothing uses it.         *)
(***************************************************************************)
EXTENDS PlaylistItems, FiniteSetsExt, SequencesExt

\* getCachedFrames() is a list in ascending order.
CachedList(held, i) ==
    CHOOSE frames \in [1 .. NrCached(held, i) -> held[i]] :
        \A m, n \in DOMAIN frames : m < n => frames[m] < frames[n]

\* The frames of a list that are not in a range.
Outside_Last(frames, first, last) ==
    Those(frames, Int \ (first .. last - 1))

Outside(frames, first, last) ==
    Those(frames, Int \ (first .. last))

\* i-- and i++ in a list that wraps around.
Wrap(n, i) == 1 + ((i - 1) % n)
Backwards(items, start) ==
    [k \in 1 .. Len(items) |-> items[Wrap(Len(items), start - k + 1)]]
Forwards_FromTop(items, start) == items
Forwards(items, start) ==
    [k \in 1 .. Len(items) |-> items[Wrap(Len(items), start + k - 1)]]

\* The frames of one item, as entries of the list of what can be removed.
Removable(i, frames) == [k \in 1 .. Len(frames) |-> <<i, frames[k]>>]

\* enqueueCacheJob: leading frames that are already cached are skipped (the
\* last one never is); a range of which one frame is left is not appended.
EnqueueCacheJob(jobs, held, i, first, last) ==
    LET start == IF first >= last
                   THEN first
                   ELSE Min({f \in first .. last : f \notin held[i] \/ f = last})
    IN  IF start # last
          THEN Append(jobs, [item |-> i, first |-> start, last |-> last])
          ELSE jobs
-----------------------------------------------------------------------------
\* The frames outside of the range of their item are dropped.
DropOutOfRange(items, held) ==
    [i \in Item |-> IF i \in ToSet(items) THEN held[i] \cap FrameRange(i)
                                          ELSE held[i]]

\* The overflowing cache: frames of the item are dropped, lowest index first,
\* until the level is below the maximum.
DropFrom_LevelKept(max, c, i) ==
    IF c.level < max THEN c ELSE [c EXCEPT !.cached[i] = {}]

DropFrom(max, c, i) ==
    LET frames == CachedList(c.cached, i)
        n == Min({k \in 0 .. Len(frames) :
                    k = Len(frames) \/ c.level - SpaceOf(i, k) < max})
    IN  IF c.level < max
          THEN c
          ELSE [cached |-> [c.cached EXCEPT
                              ![i] = @ \ ToSet(SubSeq(frames, 1, n))],
                level  |-> c.level - SpaceOf(i, n)]

\* ... from one item of a list after the other.
DropAlong(max, start, list) == FoldLeft(LAMBDA c, i : DropFrom(max, c, i), start, list)

\* Items are emptied from the one before the selected item backwards. The
\* result is the cached frames and the level the rest of the plan starts from.
FreeOverflow_SelectedFirst(items, pos, max, held) ==
    LET start == [cached |-> held, level |-> LevelOf(items, held)]
    IN  IF start.level > max
          THEN DropAlong(max, start, Backwards(items, pos))
          ELSE start

FreeOverflow(items, pos, max, held) ==
    LET inRange == DropOutOfRange(items, held)
        start   == [cached |-> inRange, level |-> LevelOf(items, inRange)]
    IN  IF start.level > max
          THEN DropAlong(max, start, Backwards(items, pos - 1))
          ELSE start
-----------------------------------------------------------------------------
\* Playback is running: an item that fits is added, of the first one that does not
\* fit the frames that do; all other cached frames can be removed.
AddPlaying(cachable, max, held, p, i) ==
    LET space == SpaceOf(i, LastFrame[i] - FirstFrame[i] + 1)
        frames == CachedList(held, i)
        nrFramesCachable == (max - p.used) \div FrameSize[i] + 1
        last == FirstFrame[i] + nrFramesCachable - 1
    IN  IF p.adding /\ i \in cachable
          THEN IF p.used + space <= max
                 THEN [p EXCEPT
                         !.queue = EnqueueCacheJob(@, held, i, FirstFrame[i], LastFrame[i]),
                         !.used = @ + space]
                 ELSE [p EXCEPT
                         !.queue = EnqueueCacheJob(@, held, i, FirstFrame[i], last),
                         !.used = @ + SpaceOf(i, nrFramesCachable),
                         !.deq = @ \o Removable(i, Outside(frames, FirstFrame[i], last)),
                         !.adding = FALSE]
          ELSE [p EXCEPT !.deq = @ \o Removable(i, frames)]

PlayAlong(cachable, max, held, list) ==
    FoldLeft(LAMBDA p, i : AddPlaying(cachable, max, held, p, i),
             [queue |-> <<>>, deq |-> <<>>, used |-> 0, adding |-> TRUE], list)

\* Items are added from the selected one on; the last of what follows is removed first.
PlanPlaying(items, cachable, pos, max, held) ==
    LET plan == PlayAlong(cachable, max, held, Those(Forwards(items, pos), IndexedByFrame))
    IN  [queue |-> plan.queue, deq |-> Reverse(plan.deq)]

\* All cached frames of a list of items.
RemovableOf(held, list) ==
    FoldLeft(LAMBDA d, i : d \o Removable(i, CachedList(held, i)), <<>>, list)

\* The selected item is larger than the whole cache: all other items can be
\* removed, as many frames as the cache holds are cached.
PlanTooLarge(items, sel, max, held) ==
    [queue |-> EnqueueCacheJob(<<>>, held, sel, FirstFrame[sel],
                 FirstFrame[sel] + max \div FrameSize[sel] - 1),
     deq   |-> RemovableOf(held, Those(items, Item \ {sel}))]

\* The nearest item at or before position i that is indexed by frame.
PrevIndexed(items, i) ==
    LET n == Len(items)
        k == Min({d \in 0 .. n - 1 : items[Wrap(n, i - d)] \in IndexedByFrame})
    IN  Wrap(n, i - k)

\* Frames of the item at position i are marked, and the loop goes back by one.
Mark_LevelKept(s, i, pos, marked) ==
    [i |-> i - 1, others |-> s.others, deq |-> s.deq \o marked, stop |-> i = pos - 1]

Mark(s, i, pos, marked) ==
    [i      |-> i - 1,
     others |-> s.others - SpaceOf(marked[1][1], Len(marked)),
     deq    |-> s.deq \o marked,
     stop   |-> i = pos - 1]

\* One round of the deleting loop at position s.i (0 and -1 wrap around).
\* `needed` is the space of the whole selected item, `additional` the part of
\* it that is not cached yet, s.others the level without the selected item.
DeleteRound(items, pos, max, held, needed, additional, s) ==
    LET before == IF s.i = pos THEN s.i - 1 ELSE s.i
        i      == IF before < 1 THEN Len(items) ELSE before
        it     == items[i]
        frames == CachedList(held, it)
        space  == SpaceOf(it, Len(frames))
        n      == Min({k \in 1 .. Len(frames) : k = Len(frames) \/
                         s.others - SpaceOf(it, k) + needed <= max})
        back   == Removable(it, [k \in 1 .. n |-> frames[Len(frames) + 1 - k]])
        stop   == s.stop \/ needed + s.others <= max
    IN  CASE stop ->
               [s EXCEPT !.stop = TRUE]
          [] ~stop /\ Len(frames) = 0 ->
               [s EXCEPT !.i = i - 1]
          [] ~stop /\ Len(frames) # 0 /\ additional < space ->
               Mark(s, i, pos, back)
          [] ~stop /\ Len(frames) # 0 /\ additional >= space ->
               Mark(s, i, pos, Removable(it, frames))

\* The selected item fits, but not beside all that is cached: frames are
\* marked going back from the item before the previous one.
PlanDeleting(items, pos, max, c, needed, additional) ==
    LET sel    == items[pos]
        start  == [i |-> PrevIndexed(items, PrevIndexed(items, pos - 1) - 1),
                   others |-> c.level - SpaceOf(sel, NrCached(c.cached, sel)),
                   deq |-> <<>>, stop |-> FALSE]
        Rounds == 2 * Len(items) + 1
        loop[n \in 0 .. Rounds] ==
          IF n = 0 THEN start
          ELSE DeleteRound(items, pos, max, c.cached, needed, additional, loop[n - 1])
    IN  [queue |-> EnqueueCacheJob(<<>>, c.cached, sel, FirstFrame[sel], LastFrame[sel]),
         deq   |-> loop[Rounds].deq,
         ended |-> loop[Rounds].stop]

\* An item after the selected one is added if it fits; of the first that does not,
\* the frames that do.
AddFollowing(max, held, base, p, i) ==
    LET others == base - SpaceOf(i, NrCached(held, i))
        space  == SpaceOf(i, LastFrame[i] - FirstFrame[i] + 1)
        nrFramesCachable == (max - others) \div FrameSize[i]
    IN  CASE p.full -> p
          [] ~p.full /\ space + others <= max ->
               [p EXCEPT !.queue = EnqueueCacheJob(@, held, i, FirstFrame[i], LastFrame[i])]
          [] ~p.full /\ space + others > max ->
               [queue |-> EnqueueCacheJob(p.queue, held, i, FirstFrame[i],
                            FirstFrame[i] + nrFramesCachable - 1),
                full  |-> TRUE]

FollowAlong(max, held, base, own, list) ==
    FoldLeft(LAMBDA p, i : AddFollowing(max, held, base, p, i),
             [queue |-> own, full |-> FALSE], list)

\* The selected item fits: it is cached, and the items after it.
PlanFollowing(items, cachable, pos, max, c, additional) ==
    LET sel    == items[pos]
        own    == IF additional > 0
                    THEN EnqueueCacheJob(<<>>, c.cached, sel, FirstFrame[sel], LastFrame[sel])
                    ELSE <<>>
        base   == IF additional > 0 THEN c.level + additional ELSE c.level
        following == Those(Tail(Forwards(items, pos)), cachable)
    IN  [queue |-> FollowAlong(max, c.cached, base, own, following).queue,
         deq   |-> <<>>]
-----------------------------------------------------------------------------
\* Which of the three plans is made when playback is not running.
PlanStopped(items, cachable, pos, max, c) ==
    LET sel        == items[pos]
        needed     == SpaceOf(sel, LastFrame[sel] - FirstFrame[sel] + 1)
        additional == needed - SpaceOf(sel, NrCached(c.cached, sel))
        missing    == sel \in cachable /\ additional > 0
    IN  CASE missing /\ needed > max ->
               PlanTooLarge(items, sel, max, c.cached)
          [] missing /\ needed <= max /\ additional > max - c.level ->
               PlanDeleting(items, pos, max, c, needed, additional)
          [] ~missing \/ (needed <= max /\ additional <= max - c.level) ->
               PlanFollowing(items, cachable, pos, max, c, additional)

\* The position of the selected item; the first item if none is selected.
SelectedPos(items, sel) ==
    IF sel = None THEN 1 ELSE CHOOSE p \in DOMAIN items : items[p] = sel

\* updateCacheQueue, once it is known that caching is enabled and that the
\* playlist is not empty: the new cacheQueue and cacheDeQueue, the cached frames
\* that are left and the new cacheLevelCurrent.
PlanCacheQueue(in) ==
    LET items == ItemList(in.listed)
        pos   == SelectedPos(items, in.sel)
        c     == FreeOverflow(items, pos, in.max, in.cached)
        plan  == IF in.play
                   THEN PlanPlaying(items, in.cachable, pos, in.max, c.cached)
                   ELSE PlanStopped(items, in.cachable, pos, in.max, c)
    IN  [queue |-> plan.queue, deq |-> plan.deq,
         cached |-> c.cached, level |-> c.level]
=============================================================================
