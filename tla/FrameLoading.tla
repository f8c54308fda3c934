---------------------------- MODULE FrameLoading ----------------------------
(***************************************************************************)
(* How the frame on screen gets loaded: the split view asks an item whether*)
(* it needs loading, the cache passes the request to one of two interactive*)
(* workers, and the worker loads the frame and, during playback, the next  *)
(* one into the double buffer of the item.                                 *)
(*                                                                         *)
(* Slots of the main thread call each other and return: they are operators *)
(* from the state before the call to the set of states it can end in, and  *)
(* UNION {G(d) : d \in F(c)} calls G after F. Such a state `c' is a record *)
(* of what a slot can change:                                              *)
(*   p      the members of the PlaybackController                          *)
(*   sel    the items selected in the playlist (None: no item)             *)
(*   range  startEndRange of every item                                    *)
(*   watch  VideoCache::watchingItem                                       *)
(*   job    what the worker of each interactive thread is doing            *)
(*   queue  interactiveItemQueued and interactiveItemQueued_Idx            *)
(*   image  videoHandler::currentImageIndex of every item                  *)
(*   double videoHandler::doubleBufferImageFrameIndex of every item        *)
(* `busy' is read only: isFrameLoading and isFrameLoadingDoubleBuffer,     *)
(* which the workers set.                                                  *)
(***************************************************************************)
EXTENDS Integers, Sequences, FiniteSets

CONSTANTS Item, None,
          Order,            \* the items in the order of the playlist
          Indexed,          \* items with video: they have frames
          CachedFrames,     \* the frames in the image cache of each item
          Splitting         \* the split view shows both selected items

NoFrame == -1
NoRange == <<-1, -1>>
Slot == {1, 2}              \* the first and the second selected item

ASSUME LoadingAssumption ==
    /\ None \notin Item
    /\ Order \in Seq(Item)
    /\ \A i \in Item : \E n \in DOMAIN Order : Order[n] = i
    /\ Indexed \subseteq Item
    /\ CachedFrames \in [Item -> SUBSET Nat]
    /\ Splitting \in BOOLEAN
-----------------------------------------------------------------------------
NoRequest == [item |-> None, frame |-> NoFrame]
IdleJob == [item |-> None, frame |-> NoFrame, playing |-> FALSE, phase |-> "idle"]
\* setJob, setWorking(true), and the call is posted to the thread of the worker.
Job(i, f, play) == [item |-> i, frame |-> f, playing |-> play, phase |-> "called"]

playing(c) == c.p.mode # "Stopped"

isLoading(c, i) == i \in c.busy.frame \cup c.busy.double

\* videoHandler::needsLoading: there is an image for frame f, and for the next.
HasFrame(c, i, f) == f \in {c.image[i], c.double[i]} \cup CachedFrames[i]
HasNextFrame(c, i, f) == f + 1 \in {c.double[i]} \cup CachedFrames[i]

HandlerNeeds(c, i, f) ==
    IF ~HasFrame(c, i, f) THEN "LoadingNeeded"
    ELSE IF HasNextFrame(c, i, f) THEN "LoadingNotNeeded"
    ELSE "LoadingNeededDoubleBuffer"

InRange(c, i, f) == f \in c.range[i][1] .. c.range[i][2]

\* playlistItemWithVideo::needsLoading; a static item is never loaded.
needsLoading(c, i, f) ==
    IF i \in Indexed /\ InRange(c, i, f) THEN HandlerNeeds(c, i, f)
    ELSE "LoadingNotNeeded"

\* videoHandler::activateDoubleBuffer.
activateDoubleBuffer(c, i) ==
    IF c.double[i] = NoFrame THEN c ELSE [c EXCEPT !.image[i] = c.double[i]]

\* VideoCache::loadFrame: one request runs and one waits, per slot.
loadFrame(c, i, f, s) ==
    IF i = None \/ (f < 0 /\ i \in Indexed) THEN c
    ELSE IF c.job[s].phase = "idle"
         THEN [c EXCEPT !.job[s] = Job(i, f, playing(c))]
    ELSE IF c.job[s].item = i /\ c.job[s].frame = f THEN c
    ELSE [c EXCEPT !.queue[s] = [item |-> i, frame |-> f]]

\* The slots the split view looks at.
Shown(c, s) == c.sel[s] # None /\ (s = 1 \/ Splitting)

\* One item in splitViewWidget::update.
UpdateItem(c, s) ==
    LET i == c.sel[s]
        need == needsLoading(c, i, c.p.frame)
    IN  IF ~Shown(c, s) THEN c
        ELSE IF need = "LoadingNeeded" THEN loadFrame(c, i, c.p.frame, s)
        ELSE IF playing(c) /\ need = "LoadingNeededDoubleBuffer"
             THEN loadFrame(activateDoubleBuffer(c, i), i, c.p.frame, s)
        ELSE c

\* splitViewWidget::update for a new frame or a redraw of the items.
updateView(c) == {UpdateItem(d, 2) : d \in {UpdateItem(c, 1)}}

\* splitViewWidget::playbackStarted, with its assertion.
playbackStarted(c, next) ==
    LET Start(d, s) ==
          IF Shown(d, s) /\ needsLoading(d, d.sel[s], next) = "LoadingNeeded"
          THEN loadFrame(d, d.sel[s], d.p.frame, s) ELSE d
    IN  IF next < 0 THEN {[c EXCEPT !.p.aborted = "assert"]}
        ELSE {Start(d, 2) : d \in {Start(c, 1)}}

\* One item in drawItem and videoHandler::drawFrame.
DrawItem(c, s) ==
    LET i == c.sel[s]
        f == c.p.frame
    IN  IF /\ Shown(c, s) /\ i \in Indexed /\ InRange(c, i, f)
           /\ f \in {c.double[i]} \cup CachedFrames[i]
        THEN [c EXCEPT !.image[i] = f] ELSE c

\* The waiting request is forgotten.
interactiveLoaderFinished_QueueDropped(c, s) ==
    [c EXCEPT !.job[s] = IdleJob, !.queue[s] = NoRequest]

\* VideoCache::interactiveLoaderFinished for the worker of slot s.
interactiveLoaderFinished(c, s) ==
    IF c.queue[s].item # None /\ c.queue[s].frame >= 0
    THEN [c EXCEPT !.job[s] = Job(c.queue[s].item, c.queue[s].frame, playing(c)),
                   !.queue[s] = NoRequest]
    ELSE [c EXCEPT !.job[s] = IdleJob]
=============================================================================
