---------------------- MODULE PlaybackControllerProofs ----------------------
(***************************************************************************)
(* Proofs about PlaybackController, for any playlist, ranges, settings and *)
(* number of operations: the types, that playback which has stalled waits  *)
(* for an item, and that the frame is only set to one of the slider's      *)
(* range.                                                                  *)
(*                                                                         *)
(* The main thread is a composition of operators from a state to the       *)
(* states it can end in.  Each has a lemma that relates the two, in the    *)
(* order in which they call each other; an action applies the lemma of the *)
(* slot it stands for.                                                     *)
(***************************************************************************)
EXTENDS PlaybackController, TLAPS

ItemOrNone == Item \cup {None}

Player == [mode: {"Stopped", "Running", "Stalled", "WaitingForCache"},
           item: [Slot -> ItemOrNone], frame: Int, last: Int,
           min: Int, max: Int, controls: BOOLEAN, timer: BOOLEAN,
           waiting: [Slot -> BOOLEAN], tick: Nat,
           repeat: {"Off", "One", "All"}, wait: BOOLEAN,
           aborted: {"no", "assert", "null"}]

\* A worker that is called, or loads, has an item.
Jobs == {j \in [item: ItemOrNone, frame: Int, playing: BOOLEAN,
                phase: {"idle", "called", "frame", "next", "double", "done", "reported"}] :
            j.phase \notin {"idle", "reported"} => j.item \in Item}

ItemRanges == [Item -> Ranges \cup {NoRange}]
Requests == [item: ItemOrNone, frame: Int]

\* The states of a call of the main thread.
Calls == [p: Player, sel: [Slot -> ItemOrNone], range: ItemRanges, watch: ItemOrNone,
          job: [Slot -> Jobs], queue: [Slot -> Requests],
          image: [Item -> Int], double: [Item -> Int],
          busy: [frame: SUBSET Item, double: SUBSET Item]]

\* The workers report items that were loaded, and themselves.
Posted == [kind: {"changed", "doubleLoaded"}, of: Item] \cup [kind: {"finished"}, of: Slot]

\* Playback that has stalled has stopped its timer and waits for an item.
Settled(c) == c.p.mode = "Stalled" => ~c.p.timer /\ \E s \in Slot : c.p.waiting[s]

\* What decides which frame comes next.
View(c) == <<c.p.frame, c.p.min, c.p.max, c.p.item, c.p.controls>>

\* What a call leaves alone that does not concern the frame.
Same(c, d) == d \in Calls /\ View(d) = View(c) /\ (Settled(c) => Settled(d))

\* Only the workers, the images and the requests may change.
Quiet(c, d) == d \in Calls /\ d.p = c.p /\ d.sel = c.sel

-----------------------------------------------------------------------------
(* Constants *)

LEMMA RangeLemma ==
    /\ None \notin Item /\ Indexed \subseteq Item
    /\ \A r \in Ranges \cup {NoRange} : r \in Int \X Int /\ r[1] \in Int /\ r[2] \in Int
BY LoadingAssumption, PlaybackAssumption DEF NoRange

-----------------------------------------------------------------------------
(* Assignments *)

LEMMA FieldsLemma ==
    ASSUME NEW c \in Calls
    PROVE  /\ c.p \in Player /\ c.sel \in [Slot -> ItemOrNone] /\ c.range \in ItemRanges
           /\ c.watch \in ItemOrNone /\ c.job \in [Slot -> Jobs]
           /\ c.queue \in [Slot -> Requests] /\ c.image \in [Item -> Int]
           /\ c.double \in [Item -> Int]
BY DEF Calls

LEMMA PlayerLemma ==
    ASSUME NEW c \in Calls
    PROVE  /\ \A q \in Player : [c EXCEPT !.p = q] \in Calls
           /\ \A x \in [Slot -> ItemOrNone] : [c EXCEPT !.sel = x] \in Calls
           /\ \A x \in ItemRanges : [c EXCEPT !.range = x] \in Calls
           /\ \A x \in ItemOrNone : [c EXCEPT !.watch = x] \in Calls
           /\ \A x \in [Slot -> Jobs] : [c EXCEPT !.job = x] \in Calls
           /\ \A x \in [Slot -> Requests] : [c EXCEPT !.queue = x] \in Calls
           /\ \A x \in [Item -> Int] : [c EXCEPT !.image = x] \in Calls
BY DEF Calls

\* One member of the player is assigned.
LEMMA MemberLemma ==
    ASSUME NEW q \in Player
    PROVE  /\ \A x \in {"Stopped", "Running", "Stalled", "WaitingForCache"} :
                 [q EXCEPT !.mode = x] \in Player
           /\ \A x \in [Slot -> ItemOrNone] : [q EXCEPT !.item = x] \in Player
           /\ \A x \in Int : /\ [q EXCEPT !.frame = x] \in Player
                             /\ [q EXCEPT !.last = x] \in Player
                             /\ [q EXCEPT !.min = x] \in Player
                             /\ [q EXCEPT !.max = x] \in Player
           /\ \A x \in BOOLEAN : /\ [q EXCEPT !.controls = x] \in Player
                                 /\ [q EXCEPT !.timer = x] \in Player
                                 /\ [q EXCEPT !.wait = x] \in Player
           /\ \A x \in [Slot -> BOOLEAN] : [q EXCEPT !.waiting = x] \in Player
           /\ \A x \in Nat : [q EXCEPT !.tick = x] \in Player
           /\ \A x \in {"Off", "One", "All"} : [q EXCEPT !.repeat = x] \in Player
           /\ \A x \in {"no", "assert", "null"} : [q EXCEPT !.aborted = x] \in Player
BY DEF Player
-----------------------------------------------------------------------------
(* The view *)

LEMMA QuietLemma ==
    ASSUME NEW c \in Calls, NEW d, Quiet(c, d)
    PROVE  Same(c, d)
BY DEF Quiet, Same, Settled, View

LEMMA SameTransitive ==
    ASSUME NEW c, NEW d, NEW e, Same(c, d), Same(d, e)
    PROVE  Same(c, e)
BY DEF Same

LEMMA QuietAssignment ==
    ASSUME NEW c \in Calls
    PROVE  /\ \A x \in [Slot -> Jobs] : Quiet(c, [c EXCEPT !.job = x])
           /\ \A x \in [Slot -> Requests] : Quiet(c, [c EXCEPT !.queue = x])
           /\ \A x \in [Item -> Int] : Quiet(c, [c EXCEPT !.image = x])
BY DEF Calls, Quiet

LEMMA LoadLemma ==
    ASSUME NEW c \in Calls, NEW i \in ItemOrNone, NEW f \in Int, NEW s \in Slot
    PROVE  Quiet(c, loadFrame(c, i, f, s))
<1>1. CASE i = None \/ (f < 0 /\ i \in Indexed)
  BY <1>1 DEF Quiet, loadFrame
<1>2. CASE ~(i = None \/ (f < 0 /\ i \in Indexed)) /\ c.job[s].phase = "idle"
  <2>1. Job(i, f, playing(c)) \in Jobs
    BY <1>2 DEF Job, Jobs, ItemOrNone, playing
  <2>2. loadFrame(c, i, f, s) = [c EXCEPT !.job = [c.job EXCEPT ![s] = Job(i, f, playing(c))]]
    BY <1>2 DEF loadFrame
  <2>3. [c.job EXCEPT ![s] = Job(i, f, playing(c))] \in [Slot -> Jobs]
    BY <2>1, FieldsLemma
  <2>4. QED
    BY <2>2, <2>3, QuietAssignment
<1>3. CASE ~(i = None \/ (f < 0 /\ i \in Indexed)) /\ c.job[s].phase # "idle"
  <2>1. CASE c.job[s].item = i /\ c.job[s].frame = f
    BY <1>3, <2>1 DEF Quiet, loadFrame
  <2>2. CASE ~(c.job[s].item = i /\ c.job[s].frame = f)
    <3>1. [item |-> i, frame |-> f] \in Requests
      BY DEF Requests
    <3>2. loadFrame(c, i, f, s)
             = [c EXCEPT !.queue = [c.queue EXCEPT ![s] = [item |-> i, frame |-> f]]]
      BY <1>3, <2>2 DEF loadFrame
    <3>3. [c.queue EXCEPT ![s] = [item |-> i, frame |-> f]] \in [Slot -> Requests]
      BY <3>1, FieldsLemma
    <3>4. QED
      BY <3>2, <3>3, QuietAssignment
  <2>3. QED
    BY <2>1, <2>2
<1>4. QED
  BY <1>1, <1>2, <1>3

\* An image is drawn, the double buffer becomes the image.
LEMMA ImageLemma ==
    ASSUME NEW c \in Calls, NEW i \in Item, NEW f \in Int
    PROVE  Quiet(c, [c EXCEPT !.image[i] = f])
<1>1. [c.image EXCEPT ![i] = f] \in [Item -> Int]
  BY FieldsLemma
<1>2. [c EXCEPT !.image[i] = f] = [c EXCEPT !.image = [c.image EXCEPT ![i] = f]]
  OBVIOUS
<1>3. QED
  BY <1>1, <1>2, QuietAssignment

LEMMA SlotsLemma ==
    ASSUME NEW c \in Calls, NEW s \in Slot
    PROVE  /\ c.sel[s] \in ItemOrNone /\ c.p.item[s] \in ItemOrNone
           /\ c.p.frame \in Int /\ c.p.min \in Int /\ c.p.max \in Int /\ c.p.last \in Int
           /\ Shown(c, s) => c.sel[s] \in Item
BY DEF Calls, Player, Shown, ItemOrNone

LEMMA UpdateItemLemma ==
    ASSUME NEW c \in Calls, NEW s \in Slot
    PROVE  Quiet(c, UpdateItem(c, s))
<1> DEFINE i == c.sel[s]
           need == needsLoading(c, i, c.p.frame)
<1>1. i \in ItemOrNone /\ c.p.frame \in Int /\ (Shown(c, s) => i \in Item)
  BY SlotsLemma
<1>2. UpdateItem(c, s) = IF ~Shown(c, s) THEN c
        ELSE IF need = "LoadingNeeded" THEN loadFrame(c, i, c.p.frame, s)
        ELSE IF playing(c) /\ need = "LoadingNeededDoubleBuffer"
             THEN loadFrame(activateDoubleBuffer(c, i), i, c.p.frame, s)
        ELSE c
  BY DEF UpdateItem
<1> HIDE DEF i, need
<1>3. Quiet(c, c) /\ Quiet(c, loadFrame(c, i, c.p.frame, s))
  BY <1>1, LoadLemma DEF Quiet
<1>4. ASSUME Shown(c, s)
      PROVE  Quiet(c, loadFrame(activateDoubleBuffer(c, i), i, c.p.frame, s))
  <2>1. Quiet(c, activateDoubleBuffer(c, i))
    <3>1. i \in Item /\ c.double[i] \in Int
      BY <1>1, <1>4, FieldsLemma
    <3>2. QED
      BY <1>3, <3>1, ImageLemma DEF activateDoubleBuffer
  <2> DEFINE d == activateDoubleBuffer(c, i)
  <2> HIDE DEF d
  <2>2. d \in Calls /\ Quiet(c, d)
    BY <2>1 DEF Quiet, d
  <2>3. Quiet(d, loadFrame(d, i, c.p.frame, s))
    BY <1>1, <2>2, LoadLemma
  <2>4. QED
    BY <2>2, <2>3 DEF Quiet, d
<1>5. QED
  BY <1>2, <1>3, <1>4

LEMMA UpdateViewLemma ==
    ASSUME NEW c \in Calls, NEW d \in updateView(c)
    PROVE  Quiet(c, d)
<1>1. d = UpdateItem(UpdateItem(c, 1), 2)
  BY DEF updateView
<1> DEFINE e == UpdateItem(c, 1)
<1>2. Quiet(c, e) /\ e \in Calls
  BY UpdateItemLemma DEF Slot, Quiet
<1> HIDE DEF e
<1>3. Quiet(e, UpdateItem(e, 2))
  BY <1>2, UpdateItemLemma DEF Slot
<1>4. QED
  BY <1>1, <1>2, <1>3 DEF Quiet, e

LEMMA DrawLemma ==
    ASSUME NEW c \in Calls, NEW s \in Slot
    PROVE  Quiet(c, DrawItem(c, s))
BY SlotsLemma, ImageLemma DEF DrawItem, Quiet

\* The player is assigned, the rest stays.
LEMMA AssignLemma ==
    ASSUME NEW c \in Calls, NEW q \in Player
    PROVE  /\ [c EXCEPT !.p = q] \in Calls
           /\ [c EXCEPT !.p = q].p = q
           /\ [c EXCEPT !.p = q].sel = c.sel
           /\ [c EXCEPT !.p = q].range = c.range
BY DEF Calls

LEMMA PlaybackStartedLemma ==
    ASSUME NEW c \in Calls, NEW next \in Int, NEW d \in playbackStarted(c, next)
    PROVE  Same(c, d)
<1> DEFINE Start(e, s) ==
             IF Shown(e, s) /\ needsLoading(e, e.sel[s], next) = "LoadingNeeded"
             THEN loadFrame(e, e.sel[s], e.p.frame, s) ELSE e
<1>1. CASE next < 0
  <2>1. d = [c EXCEPT !.p = [c.p EXCEPT !.aborted = "assert"]]
    BY <1>1 DEF playbackStarted
  <2>2. [c.p EXCEPT !.aborted = "assert"] \in Player
    BY FieldsLemma, MemberLemma
  <2>3. c.p \in Player
    BY FieldsLemma
  <2>4. QED
    BY <2>1, <2>2, <2>3, AssignLemma DEF Same, View, Settled, Player
<1>2. CASE ~(next < 0)
  <2>1. ASSUME NEW e \in Calls, NEW s \in Slot
        PROVE  Quiet(e, Start(e, s))
    BY SlotsLemma, LoadLemma DEF Quiet
  <2>2. d = Start(Start(c, 1), 2)
    BY <1>2 DEF playbackStarted
  <2> HIDE DEF Start
  <2>3. Quiet(c, Start(c, 1)) /\ Start(c, 1) \in Calls
    BY <2>1 DEF Quiet, Slot
  <2>4. Quiet(Start(c, 1), d)
    BY <2>1, <2>2, <2>3 DEF Slot
  <2>5. Quiet(c, d)
    BY <2>3, <2>4 DEF Quiet
  <2>6. QED
    BY <2>5, QuietLemma
<1>3. QED
  BY <1>1, <1>2
-----------------------------------------------------------------------------
(* Frames and timer *)

\* Items begin with frame 0, or have no frames.
FirstIsZero == \A r \in Ranges : r[1] <= 0

\* The slider has a range, and controls if an item with frames is selected.
Slider(c) == c.p.min <= c.p.max /\ (FirstIsZero => c.p.min <= 0)
Bounded(c) == Slider(c) /\ (anyItemIndexedByFrame(c) => c.p.controls)

\* The frame is not before the range.
Ranged(c) == Bounded(c) /\ (anyItemIndexedByFrame(c) => c.p.frame >= c.p.min)

\* The frame is set, if an item has frames.
Moved(c, d, f) == /\ d \in Calls /\ (Settled(c) => Settled(d))
                  /\ <<d.p.min, d.p.max, d.p.item, d.p.controls>>
                        = <<c.p.min, c.p.max, c.p.item, c.p.controls>>
                  /\ d.p.frame = IF anyItemIndexedByFrame(c) THEN f ELSE c.p.frame

\* The frame stays, is none, or is one of the range.
SetIn(c, d) == d.p.frame \in {c.p.frame, NoFrame} \cup (d.p.min .. d.p.max)

LEMMA SameLemma ==
    ASSUME NEW c, NEW d, Same(c, d)
    PROVE  /\ anyItemIndexedByFrame(d) <=> anyItemIndexedByFrame(c)
           /\ Bounded(d) <=> Bounded(c)
           /\ Ranged(d) <=> Ranged(c)
           /\ d \in Calls /\ d.p.item = c.p.item /\ d.p.frame = c.p.frame /\ d.p.min = c.p.min
           /\ d.p.max = c.p.max /\ d.p.controls = c.p.controls
<1>1. /\ d \in Calls /\ d.p.item = c.p.item /\ d.p.frame = c.p.frame /\ d.p.min = c.p.min
      /\ d.p.max = c.p.max /\ d.p.controls = c.p.controls
  BY DEF Same, View
<1>2. anyItemIndexedByFrame(d) <=> anyItemIndexedByFrame(c)
  BY <1>1 DEF anyItemIndexedByFrame
<1>3. QED
  BY <1>1, <1>2 DEF Bounded, Slider, Ranged

LEMMA MovedLemma ==
    ASSUME NEW c, NEW d, NEW f, Moved(c, d, f)
    PROVE  /\ anyItemIndexedByFrame(d) <=> anyItemIndexedByFrame(c)
           /\ Bounded(d) <=> Bounded(c)
           /\ d \in Calls /\ d.p.item = c.p.item /\ d.p.min = c.p.min /\ d.p.max = c.p.max
           /\ d.p.frame = IF anyItemIndexedByFrame(c) THEN f ELSE c.p.frame
           /\ Settled(c) => Settled(d)
<1>1. /\ d \in Calls /\ d.p.item = c.p.item /\ d.p.min = c.p.min
      /\ d.p.max = c.p.max /\ d.p.controls = c.p.controls
      /\ d.p.frame = IF anyItemIndexedByFrame(c) THEN f ELSE c.p.frame
      /\ Settled(c) => Settled(d)
  BY DEF Moved
<1>2. anyItemIndexedByFrame(d) <=> anyItemIndexedByFrame(c)
  BY <1>1 DEF anyItemIndexedByFrame
<1>3. QED
  BY <1>1, <1>2 DEF Bounded, Slider

LEMMA SetFrameQuietlyLemma ==
    ASSUME NEW c \in Calls, NEW f \in Int
    PROVE  Moved(c, SetFrameQuietly(c, f), f)
<1>1. CASE CanSetFrame(c, f)
  <2>1. SetFrameQuietly(c, f) = [c EXCEPT !.p = [c.p EXCEPT !.frame = f]]
    BY <1>1 DEF SetFrameQuietly
  <2>2. c.p \in Player /\ [c.p EXCEPT !.frame = f] \in Player
    BY FieldsLemma, MemberLemma
  <2>3. QED
    BY <1>1, <2>1, <2>2, AssignLemma DEF Moved, Settled, Player, CanSetFrame
<1>2. CASE ~CanSetFrame(c, f)
  BY <1>2 DEF SetFrameQuietly, Moved, CanSetFrame
<1>3. QED
  BY <1>1, <1>2

LEMMA SetFrameLemma ==
    ASSUME NEW c \in Calls, NEW f \in Int, NEW d \in setCurrentFrameAndUpdate(c, f)
    PROVE  Moved(c, d, f)
<1>1. PICK e : Moved(c, e, f) /\ (d \in updateView(e) \/ d = e)
  <2>1. Moved(c, SetFrameQuietly(c, f), f)
    BY SetFrameQuietlyLemma
  <2>2. CASE CanSetFrame(c, f)
    BY <2>1, <2>2 DEF SetFrameQuietly, setCurrentFrameAndUpdate
  <2>3. CASE ~CanSetFrame(c, f)
    BY <2>1, <2>3 DEF SetFrameQuietly, setCurrentFrameAndUpdate
  <2>4. QED
    BY <2>2, <2>3
<1>2. CASE d = e
  BY <1>1, <1>2
<1>3. CASE d \in updateView(e)
  <2>1. Same(e, d)
    BY <1>1, <1>3, UpdateViewLemma, QuietLemma DEF Moved
  <2>2. QED
    BY <1>1, <2>1, SameLemma DEF Moved, Same
<1>4. QED
  BY <1>1, <1>2, <1>3

LEMMA SameAssignment ==
    ASSUME NEW c \in Calls, NEW q \in Player, q.frame = c.p.frame, q.min = c.p.min,
           q.max = c.p.max, q.item = c.p.item, q.controls = c.p.controls, q.mode # "Stalled"
    PROVE  Same(c, [c EXCEPT !.p = q])
BY AssignLemma DEF Same, View, Settled

LEMMA StartTimerLemma ==
    ASSUME NEW c \in Calls
    PROVE  Same(c, startOrUpdateTimer(c))
<1>1. c.p \in Player
  BY FieldsLemma
<1>2. CASE c.p.item[1] = None
  <2>1. startOrUpdateTimer(c) = [c EXCEPT !.p = [c.p EXCEPT !.aborted = "null"]]
    BY <1>2 DEF startOrUpdateTimer
  <2>2. [c.p EXCEPT !.aborted = "null"] \in Player
    BY <1>1, MemberLemma
  <2>3. QED
    BY <1>1, <2>1, <2>2, AssignLemma DEF Same, View, Settled, Player
<1>3. CASE c.p.item[1] # None
  <2> DEFINE tick == IF anyItemIndexedByFrame(c) THEN c.p.tick ELSE StaticTicks
             q == [[[c.p EXCEPT !.timer = TRUE] EXCEPT !.mode = "Running"] EXCEPT !.tick = tick]
  <2>1. startOrUpdateTimer(c) = [c EXCEPT !.p = q]
    BY <1>3 DEF startOrUpdateTimer
  <2>2. tick \in Nat
    BY <1>1, PlaybackAssumption DEF Player
  <2> HIDE DEF tick
  <2>3. q \in Player
    BY <1>1, <2>2, MemberLemma
  <2>4. /\ q.frame = c.p.frame /\ q.min = c.p.min /\ q.max = c.p.max /\ q.item = c.p.item
        /\ q.controls = c.p.controls /\ q.mode = "Running"
    BY <1>1 DEF Player
  <2> HIDE DEF q
  <2>5. QED
    BY <2>1, <2>3, <2>4, SameAssignment
<1>4. QED
  BY <1>2, <1>3

LEMMA NextFrameLemma ==
    ASSUME NEW c \in Calls, NEW f \in getNextFrameIndexInCurrentItem(c)
    PROVE  /\ f \in Int
           /\ \/ f = c.p.frame + 1 /\ c.p.frame < c.p.max /\ anyItemIndexedByFrame(c)
              \/ f = c.p.min
BY SlotsLemma DEF getNextFrameIndexInCurrentItem, Slot

LEMMA StartPlaybackLemma ==
    ASSUME NEW c \in Calls, NEW d \in startPlayback(c)
    PROVE  Same(c, d)
<1> DEFINE e == startOrUpdateTimer(c)
<1>1. Same(c, e) /\ e \in Calls
  BY StartTimerLemma DEF Same
<1>2. \/ d = e
      \/ \E f \in getNextFrameIndexInCurrentItem(e) : d \in playbackStarted(e, f)
  BY DEF startPlayback
<1> HIDE DEF e
<1>3. CASE d = e
  BY <1>1, <1>3
<1>4. CASE \E f \in getNextFrameIndexInCurrentItem(e) : d \in playbackStarted(e, f)
  <2>1. PICK f \in getNextFrameIndexInCurrentItem(e) : d \in playbackStarted(e, f)
    BY <1>4
  <2>2. Same(e, d)
    BY <1>1, <2>1, NextFrameLemma, PlaybackStartedLemma
  <2>3. QED
    BY <1>1, <2>2, SameTransitive
<1>5. QED
  BY <1>2, <1>3, <1>4

LEMMA CachingFinishedLemma ==
    ASSUME NEW c \in Calls, NEW d \in itemCachingFinished(c)
    PROVE  Same(c, d)
BY StartPlaybackLemma DEF itemCachingFinished, Same

\* The watched item is of no account to the player.
LEMMA WatchAssignment ==
    ASSUME NEW c \in Calls, NEW i \in ItemOrNone
    PROVE  Quiet(c, [c EXCEPT !.watch = i])
BY DEF Calls, Quiet

LEMMA WatchLemma ==
    ASSUME NEW c \in Calls, NEW i \in ItemOrNone, NEW d \in watchItemForCachingFinished(c, i)
    PROVE  Same(c, d)
<1>1. CASE d = [c EXCEPT !.watch = i]
  BY <1>1, WatchAssignment, QuietLemma
<1>2. CASE \E e \in itemCachingFinished(c) : d = [e EXCEPT !.watch = None]
  <2>1. PICK e \in itemCachingFinished(c) : d = [e EXCEPT !.watch = None]
    BY <1>2
  <2>2. Same(c, e) /\ e \in Calls
    BY CachingFinishedLemma DEF Same
  <2>3. Same(e, d)
    BY <2>1, <2>2, WatchAssignment, QuietLemma DEF ItemOrNone
  <2>4. QED
    BY <2>2, <2>3, SameTransitive
<1>3. QED
  BY <1>1, <1>2 DEF watchItemForCachingFinished

\* The mode is left without a stall.
LEMMA ModeLemma ==
    ASSUME NEW c \in Calls, NEW t \in BOOLEAN,
           NEW m \in {"Stopped", "Running", "WaitingForCache"}
    PROVE  /\ Same(c, [c EXCEPT !.p.mode = m])
           /\ Same(c, [c EXCEPT !.p.mode = m, !.p.timer = t])
<1>1. c.p \in Player
  BY FieldsLemma
<1>2. [c.p EXCEPT !.mode = m] \in Player /\ [[c.p EXCEPT !.mode = m] EXCEPT !.timer = t] \in Player
  <2>1. [c.p EXCEPT !.mode = m] \in Player
    BY <1>1, MemberLemma
  <2>2. QED
    BY <2>1, MemberLemma
<1>3. /\ [c EXCEPT !.p.mode = m] = [c EXCEPT !.p = [c.p EXCEPT !.mode = m]]
      /\ [c EXCEPT !.p.mode = m, !.p.timer = t]
           = [c EXCEPT !.p = [[c.p EXCEPT !.mode = m] EXCEPT !.timer = t]]
  OBVIOUS
<1>4. Same(c, [c EXCEPT !.p = [c.p EXCEPT !.mode = m]])
  BY <1>1, <1>2, AssignLemma DEF Same, View, Settled, Player
<1>5. Same(c, [c EXCEPT !.p = [[c.p EXCEPT !.mode = m] EXCEPT !.timer = t]])
  <2> DEFINE q == [[c.p EXCEPT !.mode = m] EXCEPT !.timer = t]
  <2>1. /\ q.frame = c.p.frame /\ q.min = c.p.min /\ q.max = c.p.max /\ q.item = c.p.item
        /\ q.controls = c.p.controls /\ q.mode = m /\ q \in Player
    BY <1>1, <1>2 DEF Player
  <2> HIDE DEF q
  <2>2. QED
    BY <2>1, SameAssignment DEF q
<1>6. QED
  BY <1>3, <1>4, <1>5

LEMMA StopLemma ==
    ASSUME NEW c \in Calls, NEW d \in StopPlayback(c)
    PROVE  Same(c, d)
<1>1. CASE c.p.item[1] = None
  BY <1>1 DEF StopPlayback, Same
<1>2. CASE c.p.item[1] # None
  <2> DEFINE e == [c EXCEPT !.p.mode = "Stopped", !.p.timer = FALSE]
             g == [e EXCEPT !.watch = None]
  <2>1. Same(c, e) /\ e \in Calls
    BY ModeLemma DEF Same
  <2>2. d \in updateView(g)
    BY <1>2 DEF StopPlayback
  <2> HIDE DEF e
  <2>3. Quiet(e, g) /\ g \in Calls
    BY <2>1, WatchAssignment DEF ItemOrNone, Quiet
  <2> HIDE DEF g
  <2>4. Same(e, g) /\ Same(g, d)
    BY <2>1, <2>2, <2>3, QuietLemma, UpdateViewLemma
  <2>5. QED
    BY <2>1, <2>4, SameTransitive
<1>3. QED
  BY <1>1, <1>2

LEMMA PauseLemma ==
    ASSUME NEW c \in Calls, NEW d \in pausePlayback(c)
    PROVE  Same(c, d)
BY StopLemma DEF pausePlayback, Same
\* Where stepping keeps the frame in the range: the stop button goes to frame 0, wherever the
\* range begins, and with Continue a new selection keeps a frame before its range.
SteppingAssumption == ~Continue /\ ("stop" \in Ops => FirstIsZero)

\* What each slot guarantees.
Fine(c, d) == /\ d \in Calls
              /\ Settled(c) => Settled(d)
              /\ Bounded(c) => Bounded(d)
              /\ SteppingAssumption /\ Ranged(c) => Ranged(d)

LEMMA FineLemma ==
    ASSUME NEW c \in Calls, NEW d
    PROVE  /\ Same(c, d) => Fine(c, d)
           /\ \A f : /\ Moved(c, d, f)
                     /\ SteppingAssumption /\ Ranged(c) /\ anyItemIndexedByFrame(c)
                           => f >= c.p.min
                     => Fine(c, d)
<1>1. ASSUME Same(c, d)
      PROVE  Fine(c, d)
  BY <1>1, SameLemma DEF Fine, Same
<1>2. ASSUME NEW f, Moved(c, d, f),
             SteppingAssumption /\ Ranged(c) /\ anyItemIndexedByFrame(c) => f >= c.p.min
      PROVE  Fine(c, d)
  BY <1>2, MovedLemma DEF Fine, Ranged
<1>3. QED
  BY <1>1, <1>2

LEMMA FineTransitive ==
    ASSUME NEW c, NEW d, NEW e, Fine(c, d), Fine(d, e)
    PROVE  Fine(c, e)
BY DEF Fine

LEMMA PauseAtLemma ==
    ASSUME NEW c \in Calls, NEW f \in Int, NEW d \in PauseAt(c, f)
    PROVE  Moved(c, d, f)
<1>1. PICK e \in pausePlayback(c) : d \in setCurrentFrameAndUpdate(e, f)
  BY DEF PauseAt
<1>2. Same(c, e) /\ e \in Calls
  BY PauseLemma DEF Same
<1>3. Moved(e, d, f)
  BY <1>1, <1>2, SetFrameLemma
<1>4. QED
  BY <1>2, <1>3, SameLemma DEF Moved, Same

LEMMA BeginPlaybackLemma ==
    ASSUME NEW c \in Calls, NEW d \in BeginPlayback(c)
    PROVE  Fine(c, d) /\ (Bounded(c) => SetIn(c, d))
<1> DEFINE rewinds == c.p.frame >= c.p.max /\ c.p.repeat = "Off" /\ ~hasNextItem(c)
           before == IF rewinds THEN setCurrentFrameAndUpdate(c, c.p.min) ELSE {c}
           Waiting(e) == [e EXCEPT !.p.mode = "WaitingForCache"]
<1>1. CASE c.p.item[1] = None
  <2>1. d = c
    BY <1>1 DEF BeginPlayback
  <2>2. QED
    BY <2>1 DEF Fine, SetIn
<1>2. CASE c.p.item[1] # None
  <2>1. PICK e \in before : IF e.p.wait
                            THEN d \in watchItemForCachingFinished(Waiting(e), e.p.item[1])
                            ELSE d \in startPlayback(e)
    BY <1>2 DEF BeginPlayback
  <2>2. Fine(c, e) /\ e \in Calls /\ (Bounded(c) => SetIn(c, e))
    <3>1. CASE rewinds
      <4>1. /\ c.p.min \in Int /\ c.p.max \in Int
            /\ e \in setCurrentFrameAndUpdate(c, c.p.min)
        BY <3>1, SlotsLemma DEF Slot
      <4>2. Moved(c, e, c.p.min)
        BY <4>1, SetFrameLemma
      <4>3. /\ e.p.frame \in {c.p.frame, c.p.min}
            /\ e.p.min = c.p.min /\ e.p.max = c.p.max
        BY <4>2, MovedLemma
      <4>4. Bounded(c) => SetIn(c, e)
        BY <4>1, <4>3 DEF Bounded, Slider, SetIn
      <4>5. QED
        BY <4>1, <4>2, <4>4, FineLemma DEF Fine
    <3>2. CASE ~rewinds
      BY <3>2 DEF Fine, SetIn
    <3>3. QED
      BY <3>1, <3>2
  <2> HIDE DEF before, rewinds
  <2>3. CASE e.p.wait
    <3> DEFINE g == Waiting(e)
    <3>1. Same(e, g) /\ g \in Calls
      BY <2>2, ModeLemma DEF Same
    <3>2. d \in watchItemForCachingFinished(g, e.p.item[1])
      BY <2>1, <2>3
    <3> HIDE DEF g
    <3>3. e.p.item[1] \in ItemOrNone
      BY <2>2, SlotsLemma DEF Slot
    <3>4. Same(g, d)
      BY <3>1, <3>2, <3>3, WatchLemma
    <3>5. Same(e, d)
      BY <3>1, <3>4, SameTransitive
    <3>6. SetIn(c, e) => SetIn(c, d)
      BY <3>5, SameLemma DEF SetIn
    <3>7. QED
      BY <2>2, <3>5, <3>6, FineLemma, FineTransitive
  <2>4. CASE ~e.p.wait
    <3>1. Same(e, d)
      BY <2>1, <2>2, <2>4, StartPlaybackLemma
    <3>2. SetIn(c, e) => SetIn(c, d)
      BY <3>1, SameLemma DEF SetIn
    <3>3. QED
      BY <2>2, <3>1, <3>2, FineLemma, FineTransitive
  <2>5. QED
    BY <2>3, <2>4
<1>3. QED
  BY <1>1, <1>2

LEMMA PlayPauseLemma ==
    ASSUME NEW c \in Calls, NEW d \in on_playPauseButton_clicked(c)
    PROVE  Fine(c, d) /\ (Bounded(c) => SetIn(c, d))
<1>1. CASE d \in StopPlayback(c)
  BY <1>1, StopLemma, FineLemma, SameLemma DEF SetIn
<1>2. CASE d \in BeginPlayback(c)
  BY <1>2, BeginPlaybackLemma
<1>3. QED
  BY <1>1, <1>2 DEF on_playPauseButton_clicked

-----------------------------------------------------------------------------
(* Selection *)

\* The slider has the range of the items that are shown.
LEMMA UpdateRangeLemma ==
    ASSUME NEW c \in Calls
    PROVE  LET d == updateFrameRange(c)
           IN  /\ d \in Calls /\ (Settled(c) => Settled(d)) /\ Bounded(d)
               /\ d.p.frame = c.p.frame /\ d.p.last = c.p.last /\ d.p.item = c.p.item
               /\ d.p.mode = c.p.mode
<1> DEFINE r == RangeOf(c, c.p.item[1])
           q == RangeOf(c, c.p.item[2])
           both == IF c.p.item[2] = None THEN r
                   ELSE <<LowerOf(r[1], q[1]), LowerOf(r[2], q[2])>>
           m == both[2]  n == both[1]
           p1 == [[c.p EXCEPT !.max = m] EXCEPT !.min = LowerOf(c.p.min, m)]
           p2 == [[p1 EXCEPT !.min = n] EXCEPT !.max = HigherOf(p1.max, n)]
           p3 == [p2 EXCEPT !.controls = TRUE]
<1>1. c.p \in Player /\ c.p.min \in Int
  BY FieldsLemma, SlotsLemma DEF Slot
<1>2. m \in Int /\ n \in Int /\ (FirstIsZero => n <= 0)
  <2>1. ASSUME NEW i \in ItemOrNone
        PROVE  RangeOf(c, i) \in Ranges \cup {NoRange}
    BY <2>1, FieldsLemma DEF RangeOf, ItemRanges, ItemOrNone
  <2>2. r \in Ranges \cup {NoRange} /\ q \in Ranges \cup {NoRange}
    BY <2>1, SlotsLemma DEF Slot
  <2>3. ASSUME NEW x \in Ranges \cup {NoRange}
        PROVE  x[1] \in Int /\ x[2] \in Int /\ (FirstIsZero => x[1] <= 0)
    BY <2>3, RangeLemma DEF FirstIsZero, NoRange
  <2> HIDE DEF r, q
  <2>4. r[1] \in Int /\ r[2] \in Int /\ q[1] \in Int /\ q[2] \in Int
        /\ (FirstIsZero => r[1] <= 0 /\ q[1] <= 0)
    BY <2>2, <2>3
  <2>5. QED
    BY <2>4 DEF LowerOf
<1> HIDE DEF m, n
<1>3. updateFrameRange(c) = [c EXCEPT !.p = p3]
  <2>1. setMaximum(c, m) = [c EXCEPT !.p = p1]
    BY DEF setMaximum
  <2>2. c \in Calls /\ p1 \in Player
    BY <1>1, <1>2, MemberLemma DEF LowerOf
  <2> HIDE DEF p1
  <2>3. [c EXCEPT !.p = p1].p = p1
    BY <2>2, AssignLemma
  <2>4. setMinimum([c EXCEPT !.p = p1], n) = [c EXCEPT !.p = p2]
    BY <2>2, <2>3 DEF setMinimum, Calls
  <2>5. updateFrameRange(c) = [setMinimum(setMaximum(c, m), n) EXCEPT !.p.controls = TRUE]
    BY DEF updateFrameRange, m, n
  <2>6. p2 \in Player
    BY <1>2, <2>2 DEF HigherOf, Player
  <2> HIDE DEF p2
  <2>7. [[c EXCEPT !.p = p2] EXCEPT !.p.controls = TRUE] = [c EXCEPT !.p = p3]
    BY <2>6 DEF Calls
  <2>8. QED
    BY <2>1, <2>4, <2>5, <2>7
<1>4. /\ p3 \in Player /\ p3.min = n /\ p3.max = HigherOf(m, n) /\ p3.controls = TRUE
      /\ p3.frame = c.p.frame /\ p3.last = c.p.last /\ p3.item = c.p.item
      /\ p3.mode = c.p.mode /\ p3.timer = c.p.timer /\ p3.waiting = c.p.waiting
  <2>1. /\ p1 \in Player /\ p1.max = m
        /\ p1.frame = c.p.frame /\ p1.last = c.p.last /\ p1.item = c.p.item
        /\ p1.mode = c.p.mode /\ p1.timer = c.p.timer /\ p1.waiting = c.p.waiting
    BY <1>1, <1>2 DEF Player, LowerOf
  <2> HIDE DEF p1
  <2>2. /\ p2 \in Player /\ p2.min = n /\ p2.max = HigherOf(m, n)
        /\ p2.frame = p1.frame /\ p2.last = p1.last /\ p2.item = p1.item
        /\ p2.mode = p1.mode /\ p2.timer = p1.timer /\ p2.waiting = p1.waiting
    BY <1>2, <2>1 DEF Player, HigherOf
  <2> HIDE DEF p2
  <2>3. QED
    BY <2>1, <2>2 DEF Player
<1> HIDE DEF p3
<1>5. n <= HigherOf(m, n)
  BY <1>2 DEF HigherOf
<1>6. QED
  BY <1>2, <1>3, <1>4, <1>5, AssignLemma DEF Bounded, Slider, Settled
\* What a new selection leaves behind.
Chosen(c, d) == /\ d \in Calls /\ (Settled(c) => Settled(d))
                /\ Slider(c) => Bounded(d)
                /\ ~anyItemIndexedByFrame(d) => d.p.frame = NoFrame

LEMMA ChosenLemma ==
    ASSUME NEW c \in Calls, NEW d \in Calls, NEW e, Chosen(c, d),
           Same(d, e) \/ \E f : Moved(d, e, f)
    PROVE  Chosen(c, e)
<1>1. CASE Same(d, e)
  <2>1. /\ anyItemIndexedByFrame(e) <=> anyItemIndexedByFrame(d)
        /\ Bounded(e) <=> Bounded(d)
        /\ e \in Calls /\ e.p.frame = d.p.frame /\ (Settled(d) => Settled(e))
    BY <1>1, SameLemma DEF Same
  <2>2. QED
    BY <2>1 DEF Chosen
<1>2. CASE \E f : Moved(d, e, f)
  <2>1. PICK f : Moved(d, e, f)
    BY <1>2
  <2>2. /\ anyItemIndexedByFrame(e) <=> anyItemIndexedByFrame(d)
        /\ Bounded(e) <=> Bounded(d)
        /\ e \in Calls /\ (Settled(d) => Settled(e))
        /\ e.p.frame = IF anyItemIndexedByFrame(d) THEN f ELSE d.p.frame
    BY <2>1, MovedLemma
  <2>3. QED
    BY <2>2 DEF Chosen
<1>3. QED
  BY <1>1, <1>2

LEMMA SelectStaticLemma ==
    ASSUME NEW c \in Calls, NEW byPlayback, ~anyItemIndexedByFrame(c),
           NEW d \in SelectStatic(c, byPlayback)
    PROVE  Chosen(c, d) /\ ~anyItemIndexedByFrame(d)
<1> DEFINE last == IF c.p.frame # NoFrame THEN c.p.frame ELSE c.p.last
           p1 == [[[c.p EXCEPT !.controls = FALSE] EXCEPT !.frame = NoFrame] EXCEPT !.last = last]
           g == [c EXCEPT !.p = p1]
           p2 == [[p1 EXCEPT !.max = StaticTicks] EXCEPT !.min = LowerOf(p1.min, StaticTicks)]
           e == IF c.p.item[1] = None THEN g ELSE setMaximum(g, StaticTicks)
<1>1. c.p \in Player /\ last \in Int /\ NoFrame \in Int /\ StaticTicks \in Int
  BY FieldsLemma, SlotsLemma, PlaybackAssumption DEF Slot, NoFrame
<1> HIDE DEF last
<1>2. /\ p1 \in Player /\ p1.frame = NoFrame /\ p1.item = c.p.item /\ p1.mode = c.p.mode
      /\ p1.timer = c.p.timer /\ p1.waiting = c.p.waiting
      /\ p1.min = c.p.min /\ p1.max = c.p.max /\ p1.min \in Int /\ p1.max \in Int
  BY <1>1 DEF Player
<1>3. d \in updateView(e) \/ d \in updateView(startOrUpdateTimer(e))
  BY DEF SelectStatic, last
<1> HIDE DEF p1
<1>4. /\ p2 \in Player /\ p2.frame = NoFrame /\ p2.item = p1.item /\ p2.mode = p1.mode
      /\ p2.timer = p1.timer /\ p2.waiting = p1.waiting
      /\ p2.max = StaticTicks /\ p2.min = LowerOf(p1.min, StaticTicks)
  BY <1>1, <1>2 DEF Player, LowerOf
<1> HIDE DEF p2
<1>5. e = g \/ e = [c EXCEPT !.p = p2]
  <2>1. g \in Calls /\ g.p = p1
    BY <1>2, AssignLemma
  <2>2. setMaximum(g, StaticTicks) = [c EXCEPT !.p = p2]
    BY <1>2, <2>1 DEF setMaximum, Calls, p2
  <2>3. QED
    BY <2>2
<1>6. Chosen(c, e) /\ e \in Calls /\ ~anyItemIndexedByFrame(e)
  <2>1. ASSUME NEW p \in {p1, p2}
        PROVE  /\ p \in Player /\ p.frame = NoFrame /\ p.item = c.p.item /\ p.mode = c.p.mode
               /\ p.timer = c.p.timer /\ p.waiting = c.p.waiting
               /\ Slider(c) => (p.min <= p.max /\ (FirstIsZero => p.min <= 0))
    <3>1. CASE p = p1
      BY <1>2, <3>1 DEF Slider
    <3>2. CASE p = p2
      BY <1>1, <1>2, <1>4, <3>2 DEF Slider, LowerOf
    <3>3. QED
      BY <3>1, <3>2
  <2>2. ASSUME NEW p \in {p1, p2}
        PROVE  /\ Chosen(c, [c EXCEPT !.p = p]) /\ [c EXCEPT !.p = p] \in Calls
               /\ ~anyItemIndexedByFrame([c EXCEPT !.p = p])
    <3> DEFINE h == [c EXCEPT !.p = p]
    <3>1. h \in Calls /\ h.p = p
      BY <2>1, <2>2, AssignLemma
    <3> HIDE DEF h
    <3>2. ~anyItemIndexedByFrame(h)
      BY <2>1, <2>2, <3>1 DEF anyItemIndexedByFrame
    <3>3. Slider(c) => Slider(h)
      BY <2>1, <2>2, <3>1 DEF Slider
    <3>4. Settled(c) => Settled(h)
      BY <2>1, <2>2, <3>1 DEF Settled
    <3>5. h.p.frame = NoFrame
      BY <2>1, <2>2, <3>1
    <3>6. Chosen(c, h) /\ h \in Calls
      BY <3>1, <3>2, <3>3, <3>4, <3>5 DEF Chosen, Bounded
    <3>7. QED
      BY <3>2, <3>6 DEF h
  <2>3. QED
    BY <1>5, <2>2
<1> HIDE DEF e
<1>7. CASE d \in updateView(e)
  <2>1. Same(e, d)
    BY <1>6, <1>7, UpdateViewLemma, QuietLemma
  <2>2. QED
    BY <1>6, <2>1, ChosenLemma, SameLemma
<1>8. CASE d \in updateView(startOrUpdateTimer(e))
  <2> DEFINE h == startOrUpdateTimer(e)
  <2>1. Same(e, h) /\ h \in Calls
    BY <1>6, StartTimerLemma DEF Same
  <2> HIDE DEF h
  <2>2. d \in updateView(h)
    BY <1>8 DEF h
  <2>3. Same(h, d)
    BY <2>1, <2>2, UpdateViewLemma, QuietLemma
  <2>4. Same(e, d)
    BY <2>1, <2>3, SameTransitive
  <2>5. QED
    BY <1>6, <2>4, ChosenLemma, SameLemma
<1>9. QED
  BY <1>3, <1>7, <1>8

LEMMA SelectPlayingLemma ==
    ASSUME NEW c \in Calls, NEW byPlayback, anyItemIndexedByFrame(c),
           NEW d \in SelectPlaying(c, byPlayback)
    PROVE  Chosen(c, d)
<1> DEFINE g == IF c.p.mode # "WaitingForCache" THEN startOrUpdateTimer(c) ELSE c
           e == updateFrameRange(g)
<1>1. Same(c, g) /\ g \in Calls
  BY StartTimerLemma DEF Same
<1> HIDE DEF g
<1>2. e \in Calls /\ (Settled(g) => Settled(e)) /\ Bounded(e) /\ e.p.item = g.p.item
  BY <1>1, UpdateRangeLemma
<1>3. d \in setCurrentFrameAndUpdate(e, e.p.min) \/ d = e
  BY DEF SelectPlaying, g
<1> HIDE DEF e
<1>4. anyItemIndexedByFrame(e)
  BY <1>1, <1>2, SameLemma DEF anyItemIndexedByFrame
<1>5. Chosen(c, e)
  BY <1>1, <1>2, <1>4 DEF Chosen, Same
<1>6. CASE d = e
  BY <1>5, <1>6
<1>7. CASE d \in setCurrentFrameAndUpdate(e, e.p.min)
  <2>1. e.p.min \in Int
    BY <1>2, SlotsLemma DEF Slot
  <2>2. Moved(e, d, e.p.min)
    BY <1>2, <1>7, <2>1, SetFrameLemma
  <2>3. QED
    BY <1>2, <1>5, <2>2, ChosenLemma
<1>8. QED
  BY <1>3, <1>6, <1>7
LEMMA LastLemma ==
    ASSUME NEW c \in Calls, NEW l \in Int
    PROVE  LET d == [c EXCEPT !.p.last = l]
           IN  Same(c, d) /\ d \in Calls
<1> DEFINE q == [c.p EXCEPT !.last = l]
<1>1. c.p \in Player
  BY FieldsLemma
<1>2. [c EXCEPT !.p.last = l] = [c EXCEPT !.p = q]
  OBVIOUS
<1>3. /\ q \in Player /\ q.frame = c.p.frame /\ q.min = c.p.min /\ q.max = c.p.max
      /\ q.item = c.p.item /\ q.controls = c.p.controls /\ q.mode = c.p.mode
      /\ q.timer = c.p.timer /\ q.waiting = c.p.waiting
  BY <1>1 DEF Player
<1> DEFINE d == [c EXCEPT !.p = q]
<1>4. d \in Calls /\ d.p = q
  BY <1>3, AssignLemma
<1> HIDE DEF q, d
<1>5. Same(c, d)
  BY <1>3, <1>4 DEF Same, View, Settled
<1>6. QED
  BY <1>2, <1>4, <1>5 DEF d

LEMMA SelectStoppedLemma ==
    ASSUME NEW c \in Calls, anyItemIndexedByFrame(c), NEW d \in SelectStopped(c)
    PROVE  Chosen(c, d) /\ d.p.frame >= d.p.min /\ SetIn(c, d)
<1> DEFINE e == updateFrameRange(c)
           last == IF e.p.frame # NoFrame THEN e.p.frame ELSE e.p.last
           restored == HigherOf(e.p.min, LowerOf(e.p.last, e.p.max))
<1>1. /\ e \in Calls /\ (Settled(c) => Settled(e)) /\ Bounded(e)
      /\ e.p.item = c.p.item /\ e.p.frame = c.p.frame
  BY UpdateRangeLemma
<1>2. \/ /\ <<e.p.min, e.p.max>> = NoRange
         /\ d \in updateView(SetFrameQuietly([e EXCEPT !.p.last = last], NoFrame))
      \/ d \in updateView(SetFrameQuietly([e EXCEPT !.p.last = restored], restored))
      \/ d \in updateView(SetFrameQuietly(e, e.p.min))
      \/ d \in updateView(SetFrameQuietly(e, e.p.max))
      \/ e.p.frame >= e.p.min /\ d \in updateView(e)
  <2>1. e.p.frame \in Int /\ e.p.min \in Int
    BY <1>1, SlotsLemma DEF Slot
  <2>2. d \in IF <<e.p.min, e.p.max>> = NoRange
              THEN updateView(SetFrameQuietly([e EXCEPT !.p.last = last], NoFrame))
              ELSE IF e.p.frame = NoFrame /\ e.p.last # NoFrame
              THEN updateView(SetFrameQuietly([e EXCEPT !.p.last = restored], restored))
              ELSE IF e.p.frame < e.p.min
              THEN updateView(SetFrameQuietly(e, e.p.min))
              ELSE IF e.p.frame # NoFrame /\ e.p.last > e.p.max
              THEN updateView(SetFrameQuietly(e, e.p.max))
              ELSE updateView(e)
    BY DEF SelectStopped
  <2> HIDE DEF e, last, restored
  <2>3. QED
    BY <2>1, <2>2
<1> HIDE DEF e
<1>3. anyItemIndexedByFrame(e)
  BY <1>1 DEF anyItemIndexedByFrame
<1>4. Chosen(c, e)
  BY <1>1, <1>3 DEF Chosen
<1>5. /\ e.p.min \in Int /\ e.p.max \in Int /\ e.p.min <= e.p.max
      /\ e.p.frame \in Int /\ e.p.last \in Int
  BY <1>1, SlotsLemma DEF Slot, Bounded, Slider
<1>6. /\ last \in Int /\ restored \in Int /\ NoFrame \in Int
      /\ restored >= e.p.min /\ restored <= e.p.max
  BY <1>5 DEF HigherOf, LowerOf, NoFrame
<1> HIDE DEF last, restored
<1>7. ASSUME NEW h \in Calls, Same(e, h), NEW f \in Int, f >= e.p.min,
             f = NoFrame \/ f <= e.p.max, d \in updateView(SetFrameQuietly(h, f))
      PROVE  Chosen(c, d) /\ d.p.frame >= d.p.min /\ SetIn(c, d)
  <2> DEFINE g == SetFrameQuietly(h, f)
  <2>1. Moved(h, g, f)
    BY <1>7, SetFrameQuietlyLemma
  <2> HIDE DEF g
  <2>2. g \in Calls /\ g.p.frame = f /\ g.p.min = e.p.min /\ g.p.max = e.p.max
    BY <1>3, <1>7, <2>1, MovedLemma, SameLemma
  <2>3. Same(g, d)
    BY <1>7, <2>2, UpdateViewLemma, QuietLemma DEF g
  <2>4. d.p.frame = f /\ d.p.min = e.p.min /\ d.p.max = e.p.max
    BY <2>2, <2>3, SameLemma
  <2>5. Chosen(c, h)
    BY <1>1, <1>4, <1>7, ChosenLemma
  <2>6. Chosen(c, g)
    BY <1>7, <2>1, <2>5, ChosenLemma
  <2>7. Chosen(c, d)
    BY <2>2, <2>3, <2>6, ChosenLemma
  <2>8. d.p.frame >= d.p.min /\ SetIn(c, d)
    BY <1>5, <1>7, <2>4 DEF SetIn
  <2>9. QED
    BY <2>7, <2>8
<1>8. Same(e, e)
  BY <1>1 DEF Same
<1>9. CASE <<e.p.min, e.p.max>> = NoRange
           /\ d \in updateView(SetFrameQuietly([e EXCEPT !.p.last = last], NoFrame))
  <2> DEFINE h == [e EXCEPT !.p.last = last]
  <2>1. h \in Calls /\ Same(e, h)
    BY <1>1, <1>6, LastLemma
  <2>2. NoFrame >= e.p.min
    BY <1>9 DEF NoRange, NoFrame
  <2>3. d \in updateView(SetFrameQuietly(h, NoFrame))
    BY <1>9
  <2> HIDE DEF h
  <2>4. QED
    BY <1>6, <1>7, <2>1, <2>2, <2>3
<1>10. CASE d \in updateView(SetFrameQuietly([e EXCEPT !.p.last = restored], restored))
  <2> DEFINE h == [e EXCEPT !.p.last = restored]
  <2>1. h \in Calls /\ Same(e, h)
    BY <1>1, <1>6, LastLemma
  <2>2. d \in updateView(SetFrameQuietly(h, restored))
    BY <1>10
  <2> HIDE DEF h
  <2>3. QED
    BY <1>6, <1>7, <2>1, <2>2
<1>11. CASE d \in updateView(SetFrameQuietly(e, e.p.min))
  BY <1>1, <1>5, <1>7, <1>8, <1>11
<1>12. CASE d \in updateView(SetFrameQuietly(e, e.p.max))
  BY <1>1, <1>5, <1>7, <1>8, <1>12
<1>13. CASE e.p.frame >= e.p.min /\ d \in updateView(e)
  <2>1. Same(e, d)
    BY <1>1, <1>13, UpdateViewLemma, QuietLemma
  <2>2. d.p.frame = e.p.frame /\ d.p.min = e.p.min
    BY <2>1, SameLemma
  <2>3. Chosen(c, d)
    BY <1>1, <1>4, <2>1, ChosenLemma DEF Same
  <2>4. QED
    BY <1>1, <1>13, <2>2, <2>3 DEF SetIn
<1>14. QED
  BY <1>2, <1>9, <1>10, <1>11, <1>12, <1>13

\* The player shows what is selected.
LEMMA ItemLemma ==
    ASSUME NEW c \in Calls
    PROVE  LET d == [c EXCEPT !.p.item = c.sel]
           IN  /\ d \in Calls /\ (Settled(c) => Settled(d)) /\ (Slider(c) => Slider(d))
               /\ d.p.mode = c.p.mode /\ d.p.frame = c.p.frame
<1> DEFINE q == [c.p EXCEPT !.item = c.sel]
<1>1. c.p \in Player /\ c.sel \in [Slot -> ItemOrNone]
  BY FieldsLemma
<1>2. [c EXCEPT !.p.item = c.sel] = [c EXCEPT !.p = q]
  OBVIOUS
<1>3. /\ q \in Player /\ q.frame = c.p.frame /\ q.min = c.p.min /\ q.max = c.p.max
      /\ q.mode = c.p.mode /\ q.timer = c.p.timer /\ q.waiting = c.p.waiting
  BY <1>1 DEF Player
<1> HIDE DEF q
<1>4. PICK d \in Calls : d = [c EXCEPT !.p = q] /\ d.p = q
  BY <1>3, AssignLemma
<1>5. (Settled(c) => Settled(d)) /\ (Slider(c) => Slider(d))
  BY <1>3, <1>4 DEF Settled, Slider
<1>6. d.p.mode = c.p.mode /\ d.p.frame = c.p.frame
  BY <1>3, <1>4
<1>7. QED
  BY <1>2, <1>4, <1>5, <1>6

LEMMA ItemsChangedLemma ==
    ASSUME NEW c \in Calls, NEW byPlayback \in BOOLEAN,
           NEW d \in currentSelectedItemsChanged(c, byPlayback)
    PROVE  /\ Chosen(c, d)
           /\ ~byPlayback /\ ~Continue =>
                /\ SetIn(c, d)
                /\ anyItemIndexedByFrame(d) => d.p.frame >= d.p.min
<1>1. PICK e \in IF byPlayback \/ Continue THEN {c} ELSE pausePlayback(c) :
         LET g == [e EXCEPT !.p.item = e.sel]
         IN  d \in IF ~anyItemIndexedByFrame(g) THEN SelectStatic(g, byPlayback)
                   ELSE IF playing(g) /\ (byPlayback \/ Continue)
                   THEN SelectPlaying(g, byPlayback)
                   ELSE SelectStopped(g)
  BY DEF currentSelectedItemsChanged
<1>2. Same(c, e) /\ e \in Calls
  BY PauseLemma DEF Same
<1> DEFINE g == [e EXCEPT !.p.item = e.sel]
<1>3. /\ g \in Calls /\ (Settled(e) => Settled(g)) /\ (Slider(e) => Slider(g))
      /\ g.p.frame = e.p.frame
  BY <1>2, ItemLemma
<1>4. d \in IF ~anyItemIndexedByFrame(g) THEN SelectStatic(g, byPlayback)
            ELSE IF playing(g) /\ (byPlayback \/ Continue)
            THEN SelectPlaying(g, byPlayback)
            ELSE SelectStopped(g)
  BY <1>1
<1> HIDE DEF g
<1>5. (Settled(c) => Settled(g)) /\ (Slider(c) => Slider(g))
  <2>1. Slider(c) => Slider(e)
    BY <1>2, SameLemma DEF Slider
  <2>2. QED
    BY <1>2, <1>3, <2>1 DEF Same
<1>6. (Chosen(g, d) => Chosen(c, d)) /\ (SetIn(g, d) => SetIn(c, d))
  BY <1>2, <1>3, <1>5, SameLemma DEF Chosen, SetIn
<1>7. CASE ~anyItemIndexedByFrame(g)
  <2>1. d \in SelectStatic(g, byPlayback)
    BY <1>4, <1>7
  <2>2. Chosen(g, d) /\ ~anyItemIndexedByFrame(d)
    BY <1>3, <1>7, <2>1, SelectStaticLemma
  <2>3. SetIn(c, d)
    BY <2>2 DEF Chosen, SetIn
  <2>4. QED
    BY <1>6, <2>2, <2>3
<1>8. CASE anyItemIndexedByFrame(g) /\ playing(g) /\ (byPlayback \/ Continue)
  <2>1. Chosen(g, d)
    BY <1>3, <1>4, <1>8, SelectPlayingLemma
  <2>2. QED
    BY <1>6, <1>8, <2>1
<1>9. CASE anyItemIndexedByFrame(g) /\ ~(playing(g) /\ (byPlayback \/ Continue))
  <2>1. d \in SelectStopped(g)
    BY <1>4, <1>9
  <2>2. QED
    BY <1>3, <1>6, <1>9, <2>1, SelectStoppedLemma
<1>10. QED
  BY <1>7, <1>8, <1>9
-----------------------------------------------------------------------------
(* Playback *)

LEMMA PositionLemma ==
    ASSUME NEW i \in Item
    PROVE  LET n == (PositionOf(i) % Len(Order)) + 1
           IN  n \in DOMAIN Order /\ Order[n] \in Item
<1>1. Order \in Seq(Item) /\ \E n \in DOMAIN Order : Order[n] = i
  BY LoadingAssumption
<1>2. PositionOf(i) \in DOMAIN Order
  BY <1>1 DEF PositionOf
<1>3. DOMAIN Order = 1 .. Len(Order) /\ Len(Order) \in Nat
  BY <1>1
<1>4. PositionOf(i) \in Nat /\ Len(Order) \in Nat \ {0}
  BY <1>2, <1>3
<1>5. (PositionOf(i) % Len(Order)) + 1 \in 1 .. Len(Order)
  BY <1>4
<1>6. QED
  BY <1>1, <1>3, <1>5

LEMMA SelectNextLemma ==
    ASSUME NEW c \in Calls, c.sel[1] # None, NEW d \in SelectNextItem(c)
    PROVE  Chosen(c, d)
<1> DEFINE n == (PositionOf(c.sel[1]) % Len(Order)) + 1
           pair == <<Order[n], None>>
           e == [c EXCEPT !.sel = pair]
<1>1. c.sel[1] \in Item
  BY SlotsLemma DEF Slot, ItemOrNone
<1>2. Order[n] \in Item
  BY <1>1, PositionLemma
<1> HIDE DEF n
<1>3. pair \in [Slot -> ItemOrNone]
  BY <1>2 DEF Slot, ItemOrNone
<1>4. d \in currentSelectedItemsChanged(e, TRUE)
  BY DEF SelectNextItem, n
<1> HIDE DEF pair
<1>5. e \in Calls /\ e.p = c.p
  BY <1>3 DEF Calls
<1> HIDE DEF e
<1>6. Chosen(e, d)
  BY <1>4, <1>5, ItemsChangedLemma
<1>7. QED
  BY <1>5, <1>6 DEF Chosen, Settled, Slider

\* The frame stays, or is the first one of the items that are shown now.
Advanced(c, d) ==
    /\ d \in Calls /\ (Settled(c) => Settled(d)) /\ (Bounded(c) => Bounded(d))
    /\ \/ View(d) = View(c)
       \/ anyItemIndexedByFrame(d) /\ d.p.frame = d.p.min
       \/ ~anyItemIndexedByFrame(d) /\ d.p.frame = NoFrame

LEMMA AdvancedLemma ==
    ASSUME NEW c \in Calls, NEW d, NEW e
    PROVE  /\ Same(c, d) => Advanced(c, d)
           /\ Same(c, d) /\ Advanced(d, e) => Advanced(c, e)
           /\ Advanced(c, d) /\ Same(d, e) => Advanced(c, e)
<1>1. Same(c, d) => Advanced(c, d)
  BY SameLemma DEF Advanced, Same
<1>2. Same(c, d) /\ Advanced(d, e) => Advanced(c, e)
  BY SameLemma DEF Advanced, Same
<1>3. ASSUME Advanced(c, d), Same(d, e)
      PROVE  Advanced(c, e)
  <2>1. /\ anyItemIndexedByFrame(e) <=> anyItemIndexedByFrame(d)
        /\ Bounded(e) <=> Bounded(d)
        /\ e.p.frame = d.p.frame /\ e.p.min = d.p.min /\ View(e) = View(d)
        /\ e \in Calls /\ (Settled(d) => Settled(e))
    BY <1>3, SameLemma DEF Same
  <2>2. QED
    BY <1>3, <2>1 DEF Advanced
<1>4. QED
  BY <1>1, <1>2, <1>3

LEMMA NextItemLemma ==
    ASSUME NEW c \in Calls, NEW d \in goToNextItem(c)
    PROVE  Advanced(c, d)
<1> DEFINE finds == c.sel[1] # None /\ (hasNextItem(c) \/ c.p.repeat = "All")
           w == IF c.p.wait
                THEN [c EXCEPT !.p.mode = "WaitingForCache", !.p.timer = FALSE] ELSE c
           next == UNION {setCurrentFrameAndUpdate(e, e.p.min) : e \in SelectNextItem(w)}
<1>1. d \in IF ~finds THEN StopPlayback(w)
            ELSE IF c.p.wait
            THEN UNION {watchItemForCachingFinished(e, e.p.item[1]) : e \in next}
            ELSE next
  BY DEF goToNextItem
<1>2. Same(c, w) /\ w \in Calls /\ w.sel = c.sel
  <2>1. CASE c.p.wait
    <3>1. Same(c, [c EXCEPT !.p.mode = "WaitingForCache", !.p.timer = FALSE])
      BY ModeLemma
    <3>2. [c EXCEPT !.p.mode = "WaitingForCache", !.p.timer = FALSE].sel = c.sel
      BY DEF Calls
    <3>3. QED
      BY <2>1, <3>1, <3>2 DEF Same
  <2>2. CASE ~c.p.wait
    BY <2>2 DEF Same
  <2>3. QED
    BY <2>1, <2>2
<1>3. ASSUME NEW e \in next, finds
      PROVE  Advanced(w, e) /\ e \in Calls
  <2>1. PICK g \in SelectNextItem(w) : e \in setCurrentFrameAndUpdate(g, g.p.min)
    BY <1>3
  <2> HIDE DEF w
  <2>2. Chosen(w, g) /\ g \in Calls
    BY <1>2, <1>3, <2>1, SelectNextLemma DEF Chosen
  <2>3. g.p.min \in Int
    BY <2>2, SlotsLemma DEF Slot
  <2>4. Moved(g, e, g.p.min)
    BY <2>1, <2>2, <2>3, SetFrameLemma
  <2>5. /\ anyItemIndexedByFrame(e) <=> anyItemIndexedByFrame(g)
        /\ Bounded(e) <=> Bounded(g)
        /\ e \in Calls /\ e.p.min = g.p.min
        /\ e.p.frame = IF anyItemIndexedByFrame(g) THEN g.p.min ELSE g.p.frame
        /\ Settled(g) => Settled(e)
    BY <2>4, MovedLemma
  <2>6. QED
    BY <2>2, <2>5 DEF Chosen, Advanced, Bounded
<1> HIDE DEF w, next, finds
<1>4. CASE ~finds
  <2>1. Same(w, d)
    BY <1>1, <1>2, <1>4, StopLemma
  <2>2. QED
    BY <1>2, <2>1, AdvancedLemma, SameTransitive
<1>5. CASE finds /\ c.p.wait
  <2>1. PICK e \in next : d \in watchItemForCachingFinished(e, e.p.item[1])
    BY <1>1, <1>5
  <2>2. Advanced(w, e) /\ e \in Calls
    BY <1>3, <1>5
  <2>3. e.p.item[1] \in ItemOrNone
    BY <2>2, SlotsLemma DEF Slot
  <2>4. Same(e, d)
    BY <2>1, <2>2, <2>3, WatchLemma
  <2>5. QED
    BY <1>2, <2>2, <2>4, AdvancedLemma
<1>6. CASE finds /\ ~c.p.wait
  <2>1. Advanced(w, d)
    BY <1>1, <1>3, <1>6
  <2>2. QED
    BY <1>2, <2>1, AdvancedLemma
<1>7. QED
  BY <1>4, <1>5, <1>6

\* Playback stalls, or goes to frame f.
LEMMA NextShownLemma ==
    ASSUME NEW c \in Calls, NEW f \in Int, NEW d \in goToNextFrame(c, f)
    PROVE  /\ d \in Calls /\ (c.p.mode # "Stalled" => Settled(d))
           /\ <<d.p.min, d.p.max, d.p.item, d.p.controls>>
                 = <<c.p.min, c.p.max, c.p.item, c.p.controls>>
           /\ d.p.frame \in {c.p.frame, f}
<1> DEFINE slow == [s \in Slot |-> /\ s = 1 \/ (Splitting /\ c.p.item[2] # None)
                                   /\ isLoading(c, c.p.item[s])]
           p1 == [c.p EXCEPT !.waiting = slow]
           p2 == [[p1 EXCEPT !.timer = FALSE] EXCEPT !.mode = "Stalled"]
           e == [c EXCEPT !.p = p1]
           g == [c EXCEPT !.p = p2]
<1>1. c.p \in Player
  BY FieldsLemma
<1>2. slow \in [Slot -> BOOLEAN]
  BY LoadingAssumption DEF isLoading
<1>3. d \in IF \E s \in Slot : slow[s]
            THEN {[e EXCEPT !.p.timer = FALSE, !.p.mode = "Stalled"]}
            ELSE setCurrentFrameAndUpdate(e, f)
  BY DEF goToNextFrame
<1> HIDE DEF slow
<1>4. /\ p1 \in Player /\ p1.waiting = slow /\ p1.mode = c.p.mode /\ p1.frame = c.p.frame
      /\ p1.min = c.p.min /\ p1.max = c.p.max /\ p1.item = c.p.item
      /\ p1.controls = c.p.controls
  BY <1>1, <1>2 DEF Player
<1> HIDE DEF p1
<1>5. /\ p2 \in Player /\ p2.waiting = slow /\ p2.timer = FALSE /\ p2.frame = c.p.frame
      /\ p2.min = c.p.min /\ p2.max = c.p.max /\ p2.item = c.p.item
      /\ p2.controls = c.p.controls
  BY <1>4 DEF Player
<1>6. e \in Calls /\ e.p = p1
  BY <1>4, AssignLemma
<1>7. [e EXCEPT !.p.timer = FALSE, !.p.mode = "Stalled"] = g
  BY <1>6 DEF Calls
<1> HIDE DEF p2, e
<1>8. g \in Calls /\ g.p = p2
  BY <1>5, AssignLemma
<1> HIDE DEF g
<1>9. CASE \E s \in Slot : slow[s]
  <2>1. d = g
    BY <1>3, <1>7, <1>9
  <2>2. QED
    BY <1>5, <1>8, <1>9, <2>1 DEF Settled
<1>10. CASE ~\E s \in Slot : slow[s]
  <2>1. Moved(e, d, f)
    BY <1>3, <1>6, <1>10, SetFrameLemma
  <2>2. c.p.mode # "Stalled" => Settled(e)
    BY <1>4, <1>6 DEF Settled
  <2>3. QED
    BY <1>4, <1>6, <2>1, <2>2 DEF Moved
<1>11. QED
  BY <1>9, <1>10

\* What the timer does: a frame is only left for one of the range.
Ticked(c, d) ==
    /\ d \in Calls
    /\ c.p.mode # "Stalled" => Settled(d)
    /\ Bounded(c) => Bounded(d)
    /\ Ranged(c) => Ranged(d)
    /\ Ranged(c) => d.p.frame \in {c.p.frame, NoFrame} \cup (d.p.min .. d.p.max)

LEMMA AdvancedTicks ==
    ASSUME NEW c \in Calls, NEW d, Advanced(c, d)
    PROVE  Ticked(c, d)
<1>1. d \in Calls /\ (Settled(c) => Settled(d)) /\ (Bounded(c) => Bounded(d))
  BY DEF Advanced
<1>2. d.p.frame \in Int /\ d.p.min \in Int /\ d.p.max \in Int
  BY <1>1, SlotsLemma DEF Slot
<1>3. CASE View(d) = View(c)
  <2>1. /\ d.p.frame = c.p.frame /\ d.p.min = c.p.min
        /\ anyItemIndexedByFrame(d) <=> anyItemIndexedByFrame(c)
    BY <1>3 DEF View, anyItemIndexedByFrame
  <2>2. QED
    BY <1>1, <2>1 DEF Ticked, Ranged, Settled
<1>4. CASE anyItemIndexedByFrame(d) /\ d.p.frame = d.p.min
  BY <1>1, <1>2, <1>4 DEF Ticked, Ranged, Bounded, Slider, Settled
<1>5. CASE ~anyItemIndexedByFrame(d) /\ d.p.frame = NoFrame
  BY <1>1, <1>5 DEF Ticked, Ranged, Settled
<1>6. QED
  BY <1>3, <1>4, <1>5 DEF Advanced

\* The countdown of a static item.
LEMMA TickLemma ==
    ASSUME NEW c \in Calls, NEW t \in Nat
    PROVE  Same(c, [c EXCEPT !.p.tick = t]) /\ [c EXCEPT !.p.tick = t] \in Calls
<1> DEFINE q == [c.p EXCEPT !.tick = t]
<1>1. [c EXCEPT !.p.tick = t] = [c EXCEPT !.p = q]
  OBVIOUS
<1>2. /\ q \in Player /\ q.frame = c.p.frame /\ q.min = c.p.min /\ q.max = c.p.max
      /\ q.item = c.p.item /\ q.controls = c.p.controls /\ q.mode = c.p.mode
      /\ q.timer = c.p.timer /\ q.waiting = c.p.waiting
  BY FieldsLemma DEF Player
<1> HIDE DEF q
<1>3. [c EXCEPT !.p = q] \in Calls /\ [c EXCEPT !.p = q].p = q
  BY <1>2, AssignLemma
<1>4. QED
  BY <1>1, <1>2, <1>3 DEF Same, View, Settled

LEMMA TimerLemma ==
    ASSUME NEW c \in Calls, NEW d \in timerEvent(c)
    PROVE  Ticked(c, d)
<1> DEFINE g == [c EXCEPT !.p.tick = StaticTicks]
<1>1. \/ ~anyItemIndexedByFrame(c) /\ c.p.tick > 1 /\ d = [c EXCEPT !.p.tick = c.p.tick - 1]
      \/ ~anyItemIndexedByFrame(c) /\ d \in goToNextItem(g)
      \/ /\ anyItemIndexedByFrame(c)
         /\ \E f \in getNextFrameIndexInCurrentItem(c) : d \in goToNextFrame(c, f)
      \/ d \in goToNextItem(c)
  <2>1. timerEvent(c) =
          IF ~anyItemIndexedByFrame(c)
          THEN IF c.p.tick > 1 THEN {[c EXCEPT !.p.tick = c.p.tick - 1]} ELSE goToNextItem(g)
          ELSE IF getNextFrameIndexInCurrentItem(c) # {}
               THEN UNION {goToNextFrame(c, f) : f \in getNextFrameIndexInCurrentItem(c)}
               ELSE goToNextItem(c)
    BY DEF timerEvent
  <2> HIDE DEF g
  <2>2. QED
    BY <2>1
<1>2. CASE ~anyItemIndexedByFrame(c) /\ c.p.tick > 1 /\ d = [c EXCEPT !.p.tick = c.p.tick - 1]
  <2>1. c.p.tick - 1 \in Nat
    BY <1>2, FieldsLemma DEF Player
  <2>2. Same(c, d)
    BY <1>2, <2>1, TickLemma
  <2>3. QED
    BY <2>2, AdvancedLemma, AdvancedTicks
<1>3. CASE ~anyItemIndexedByFrame(c) /\ d \in goToNextItem(g)
  <2>1. Same(c, g) /\ g \in Calls
    BY TickLemma, PlaybackAssumption
  <2> HIDE DEF g
  <2>2. Advanced(g, d)
    BY <1>3, <2>1, NextItemLemma
  <2>3. QED
    BY <2>1, <2>2, AdvancedLemma, AdvancedTicks
<1>4. CASE /\ anyItemIndexedByFrame(c)
           /\ \E f \in getNextFrameIndexInCurrentItem(c) : d \in goToNextFrame(c, f)
  <2>1. PICK f \in getNextFrameIndexInCurrentItem(c) : d \in goToNextFrame(c, f)
    BY <1>4
  <2>2. f \in Int /\ ((f = c.p.frame + 1 /\ c.p.frame < c.p.max) \/ f = c.p.min)
    BY <2>1, NextFrameLemma
  <2>3. /\ d \in Calls /\ (c.p.mode # "Stalled" => Settled(d))
        /\ d.p.min = c.p.min /\ d.p.max = c.p.max /\ d.p.item = c.p.item
        /\ d.p.controls = c.p.controls
        /\ d.p.frame \in {c.p.frame, f}
    BY <2>1, <2>2, NextShownLemma
  <2>4. anyItemIndexedByFrame(d) <=> anyItemIndexedByFrame(c)
    BY <2>3 DEF anyItemIndexedByFrame
  <2>5. c.p.frame \in Int /\ c.p.min \in Int /\ c.p.max \in Int
    BY SlotsLemma DEF Slot
  <2>6. Bounded(c) => Bounded(d)
    BY <2>3, <2>4 DEF Bounded, Slider
  <2>7. ASSUME Ranged(c)
        PROVE  d.p.frame \in {c.p.frame} \cup (d.p.min .. d.p.max) /\ d.p.frame >= d.p.min
    BY <1>4, <2>2, <2>3, <2>5, <2>7 DEF Ranged, Bounded, Slider
  <2>8. QED
    BY <2>3, <2>6, <2>7 DEF Ticked, Ranged
<1>5. CASE d \in goToNextItem(c)
  BY <1>5, NextItemLemma, AdvancedTicks
<1>6. QED
  BY <1>1, <1>2, <1>3, <1>4, <1>5
\* The timer runs again for playback that had stalled.
LEMMA WaitingLemma ==
    ASSUME NEW c \in Calls, NEW s \in Slot
    PROVE  LET d == [c EXCEPT !.p.waiting[s] = FALSE]
               e == [d EXCEPT !.p.timer = TRUE]
           IN  /\ d \in Calls /\ View(d) = View(c) /\ d.p.timer = c.p.timer
               /\ e \in Calls /\ View(e) = View(c)
<1> DEFINE w == [c.p.waiting EXCEPT ![s] = FALSE]
           q == [c.p EXCEPT !.waiting = w]
           r == [q EXCEPT !.timer = TRUE]
           d == [c EXCEPT !.p = q]
           e == [d EXCEPT !.p.timer = TRUE]
<1>1. c.p \in Player
  BY FieldsLemma
<1>2. w \in [Slot -> BOOLEAN]
  BY <1>1 DEF Player
<1>3. [c EXCEPT !.p.waiting[s] = FALSE] = d
  OBVIOUS
<1> HIDE DEF w
<1>4. /\ q \in Player /\ q.frame = c.p.frame /\ q.min = c.p.min /\ q.max = c.p.max
      /\ q.item = c.p.item /\ q.controls = c.p.controls /\ q.timer = c.p.timer
  BY <1>1, <1>2 DEF Player
<1> HIDE DEF q
<1>5. /\ r \in Player /\ r.frame = q.frame /\ r.min = q.min /\ r.max = q.max
      /\ r.item = q.item /\ r.controls = q.controls
  BY <1>4 DEF Player
<1>6. d \in Calls /\ d.p = q
  BY <1>4, AssignLemma
<1>7. e = [d EXCEPT !.p = r]
  BY <1>6
<1> HIDE DEF r, d
<1>8. [d EXCEPT !.p = r] \in Calls /\ [d EXCEPT !.p = r].p = r
  BY <1>5, <1>6, AssignLemma
<1>9. e \in Calls /\ e.p = r
  BY <1>7, <1>8
<1> HIDE DEF e
<1>10. QED
  BY <1>3, <1>4, <1>5, <1>6, <1>9 DEF View, e

LEMMA DoubleBufferLoadLemma ==
    ASSUME NEW c \in Calls, NEW s \in Slot,
           NEW d \in currentSelectedItemsDoubleBufferLoad(c, s)
    PROVE  Fine(c, d) /\ (Ranged(c) => SetIn(c, d))
<1> DEFINE w == [c EXCEPT !.p.waiting[s] = FALSE]
           g == [w EXCEPT !.p.timer = TRUE]
<1>1. \/ d = c
      \/ d = w /\ \E t \in Slot : w.p.waiting[t]
      \/ \E e \in timerEvent(g) : d = [e EXCEPT !.p.mode = "Running"]
  BY DEF currentSelectedItemsDoubleBufferLoad
<1>2. /\ w \in Calls /\ View(w) = View(c) /\ w.p.timer = c.p.timer
      /\ g \in Calls /\ View(g) = View(c)
  BY WaitingLemma
<1> HIDE DEF w, g
<1>3. ASSUME NEW x \in Calls, View(x) = View(c)
      PROVE  /\ Bounded(c) => Bounded(x)
             /\ Ranged(c) => Ranged(x)
             /\ x.p.frame = c.p.frame
  <2>1. /\ x.p.frame = c.p.frame /\ x.p.min = c.p.min /\ x.p.max = c.p.max
        /\ x.p.item = c.p.item /\ x.p.controls = c.p.controls
    BY <1>3 DEF View
  <2>2. anyItemIndexedByFrame(x) <=> anyItemIndexedByFrame(c)
    BY <2>1 DEF anyItemIndexedByFrame
  <2>3. QED
    BY <2>1, <2>2 DEF Bounded, Slider, Ranged
<1>4. CASE d = c
  BY <1>4 DEF Fine, SetIn
<1>5. CASE d = w /\ \E t \in Slot : w.p.waiting[t]
  <2>1. c.p.mode = "Stalled" \/ d = c
    BY DEF currentSelectedItemsDoubleBufferLoad
  <2>2. Settled(c) => Settled(d)
    BY <1>2, <1>5, <2>1 DEF Settled
  <2>3. QED
    BY <1>2, <1>3, <1>5, <2>2 DEF Fine, SetIn
<1>6. CASE \E e \in timerEvent(g) : d = [e EXCEPT !.p.mode = "Running"]
  <2>1. PICK e \in timerEvent(g) : d = [e EXCEPT !.p.mode = "Running"]
    BY <1>6
  <2>2. Ticked(g, e) /\ e \in Calls
    BY <1>2, <2>1, TimerLemma DEF Ticked
  <2>3. Same(e, d) /\ d.p.mode = "Running"
    <3>1. Same(e, d)
      BY <2>1, <2>2, ModeLemma
    <3>2. d.p.mode = "Running"
      BY <2>1, <2>2 DEF Calls, Player
    <3>3. QED
      BY <3>1, <3>2
  <2>4. /\ d \in Calls /\ (Bounded(d) <=> Bounded(e)) /\ (Ranged(d) <=> Ranged(e))
        /\ d.p.frame = e.p.frame /\ d.p.min = e.p.min /\ d.p.max = e.p.max
    BY <2>3, SameLemma
  <2>5. Fine(c, d)
    BY <1>2, <1>3, <2>2, <2>3, <2>4 DEF Fine, Ticked, Settled
  <2>6. Ranged(c) => SetIn(c, d)
    BY <1>2, <1>3, <2>2, <2>4 DEF Ticked, SetIn
  <2>7. QED
    BY <2>5, <2>6
<1>7. QED
  BY <1>1, <1>4, <1>5, <1>6

\* The frame is kept within the new range.
LEMMA PropertiesChangedLemma ==
    ASSUME NEW c \in Calls, NEW d \in selectionPropertiesChanged(c)
    PROVE  /\ d \in Calls /\ (Settled(c) => Settled(d))
           /\ Bounded(c) => Ranged(d) /\ SetIn(c, d)
<1> DEFINE e == IF c.p.controls THEN updateFrameRange(c) ELSE c
           f == HigherOf(e.p.min, LowerOf(e.p.frame, e.p.max))
<1>1. d \in IF CanSetFrame(e, f) THEN setCurrentFrameAndUpdate(e, f) ELSE updateView(e)
  BY DEF selectionPropertiesChanged
<1>2. /\ e \in Calls /\ (Settled(c) => Settled(e)) /\ (Bounded(c) => Bounded(e))
      /\ e.p.frame = c.p.frame
  BY UpdateRangeLemma
<1> HIDE DEF e
<1>3. e.p.min \in Int /\ e.p.frame \in Int /\ e.p.max \in Int
  BY <1>2, SlotsLemma DEF Slot
<1>4. /\ f \in Int /\ f >= e.p.min
      /\ Bounded(e) => f \in e.p.min .. e.p.max
  BY <1>3 DEF HigherOf, LowerOf, Bounded, Slider
<1> HIDE DEF f
<1>5. CASE CanSetFrame(e, f)
  <2>1. Moved(e, d, f)
    BY <1>1, <1>2, <1>4, <1>5, SetFrameLemma
  <2>2. /\ d.p.frame \in {c.p.frame, f} /\ d.p.min = e.p.min /\ d.p.max = e.p.max
    BY <1>2, <2>1, MovedLemma
  <2>3. Bounded(c) => SetIn(c, d)
    BY <1>2, <1>4, <2>2 DEF SetIn
  <2>4. QED
    BY <1>2, <1>4, <2>1, <2>3, MovedLemma DEF Ranged
<1>6. CASE ~CanSetFrame(e, f)
  <2>1. Same(e, d)
    BY <1>1, <1>2, <1>6, UpdateViewLemma, QuietLemma
  <2>2. Bounded(e) => Ranged(e)
    BY <1>4, <1>6 DEF CanSetFrame, Ranged
  <2>3. SetIn(c, d)
    BY <1>2, <2>1, SameLemma DEF SetIn
  <2>4. QED
    BY <1>2, <2>1, <2>2, <2>3, SameLemma DEF Same
<1>7. QED
  BY <1>5, <1>6
-----------------------------------------------------------------------------
(* The main thread *)

\* What holds before and after every slot.
Good(c) == /\ c \in Calls /\ Settled(c) /\ Bounded(c)
           /\ SteppingAssumption => Ranged(c)

LEMMA GoodLemma ==
    ASSUME NEW c, Good(c), NEW d
    PROVE  /\ Fine(c, d) => Good(d)
           /\ Same(c, d) => Good(d)
           /\ d \in Calls /\ d.p = c.p => Good(d)
<1>1. c \in Calls
  BY DEF Good
<1>2. Fine(c, d) => Good(d)
  BY DEF Fine, Good
<1>3. Same(c, d) => Good(d)
  BY <1>1, <1>2, FineLemma
<1>4. d \in Calls /\ d.p = c.p => Same(c, d)
  BY DEF Same, View, Settled
<1>5. QED
  BY <1>2, <1>3, <1>4

LEMMA LoaderFinishedLemma ==
    ASSUME NEW c \in Calls, NEW s \in Slot
    PROVE  LET d == interactiveLoaderFinished(c, s)
           IN  d \in Calls /\ d.p = c.p
<1>1. c.queue[s] \in Requests
  BY FieldsLemma
<1>2. CASE c.queue[s].item # None /\ c.queue[s].frame >= 0
  <2> DEFINE j == Job(c.queue[s].item, c.queue[s].frame, playing(c))
             e == [c EXCEPT !.job = [c.job EXCEPT ![s] = j]]
  <2>1. j \in Jobs
    BY <1>1, <1>2 DEF Job, Jobs, ItemOrNone, playing, Requests
  <2>2. interactiveLoaderFinished(c, s) = [e EXCEPT !.queue = [c.queue EXCEPT ![s] = NoRequest]]
    BY <1>2 DEF interactiveLoaderFinished
  <2> HIDE DEF j
  <2>3. [c.job EXCEPT ![s] = j] \in [Slot -> Jobs]
    BY <2>1, FieldsLemma
  <2>4. e \in Calls /\ e.p = c.p
    BY <2>3, QuietAssignment DEF Quiet
  <2>5. [c.queue EXCEPT ![s] = NoRequest] \in [Slot -> Requests]
    BY FieldsLemma DEF NoRequest, NoFrame, Requests, ItemOrNone
  <2> HIDE DEF e
  <2>6. Quiet(e, [e EXCEPT !.queue = [c.queue EXCEPT ![s] = NoRequest]])
    BY <2>4, <2>5, QuietAssignment
  <2>7. QED
    BY <2>2, <2>4, <2>6 DEF Quiet
<1>3. CASE ~(c.queue[s].item # None /\ c.queue[s].frame >= 0)
  <2>1. interactiveLoaderFinished(c, s) = [c EXCEPT !.job = [c.job EXCEPT ![s] = IdleJob]]
    BY <1>3 DEF interactiveLoaderFinished
  <2>2. IdleJob \in Jobs
    BY DEF IdleJob, Jobs, ItemOrNone, NoFrame
  <2>3. [c.job EXCEPT ![s] = IdleJob] \in [Slot -> Jobs]
    BY <2>2, FieldsLemma
  <2>4. Quiet(c, [c EXCEPT !.job = [c.job EXCEPT ![s] = IdleJob]])
    BY <2>3, QuietAssignment
  <2>5. QED
    BY <2>1, <2>4 DEF Quiet
<1>4. QED
  BY <1>2, <1>3

\* The state after the slot has returned.
LEMMA ReturnLemma ==
    ASSUME Now \in Calls, NEW S, Return(S), \A c \in S : Good(c)
    PROVE  Good(Now)' /\ \E c \in S : player' = c.p
<1>1. PICK c \in S : /\ player' = c.p /\ selection' = c.sel /\ range' = c.range
                     /\ watching' = c.watch /\ job' = c.job /\ queue' = c.queue
                     /\ image' = c.image /\ double' = c.double /\ busy' = busy
  BY DEF Return
<1>2. Good(c) /\ c \in Calls /\ busy \in [frame: SUBSET Item, double: SUBSET Item]
  BY DEF Good, Now, Calls
<1>3. Now' \in Calls /\ Now'.p = c.p
  BY <1>1, <1>2 DEF Now, Calls
<1> DEFINE d == Now'
<1>4. Good(d)
  BY <1>2, <1>3, GoodLemma
<1>5. QED
  BY <1>1, <1>4
-----------------------------------------------------------------------------
(* The invariant *)

\* The invariant: the state is one that a slot may be called in; the workers report what they
\* loaded.
PlayerInv == Good(Now) /\ posted \in Seq(Posted) /\ ops \in 0 .. MaxOps

\* A signal of a worker is received.
LEMMA ReceiveLemma ==
    ASSUME posted \in Seq(Posted), NEW kind, Receives(kind)
    PROVE  /\ posted' \in Seq(Posted) /\ ops' = ops
           /\ kind = "finished" => Sender \in Slot
<1>1. posted # <<>> /\ posted' = Tail(posted) /\ Head(posted).kind = kind
  BY DEF Receives
<1>2. Head(posted) \in Posted /\ Tail(posted) \in Seq(Posted)
  BY <1>1
<1>3. QED
  BY <1>1, <1>2 DEF Receives, Posted, Sender

LEMMA MainStepLemma ==
    ASSUME PlayerInv, MainStep
    PROVE  PlayerInv'
<1>1. /\ Now \in Calls /\ Good(Now) /\ posted \in Seq(Posted) /\ ops \in 0 .. MaxOps
  BY DEF PlayerInv, Good
<1>2. CASE SlotItemChanged
  <2> DEFINE S == IF \E s \in Slot : selection[s] = Sender
                  THEN selectionPropertiesChanged(Now) ELSE {Now}
  <2>1. Receives("changed") /\ Return(S)
    BY <1>2 DEF SlotItemChanged
  <2>2. ASSUME NEW d \in S
        PROVE  Good(d)
    <3>1. CASE d = Now
      BY <1>1, <3>1
    <3>2. CASE d \in selectionPropertiesChanged(Now)
      BY <1>1, <3>2, PropertiesChangedLemma DEF Good, Ranged
    <3>3. QED
      BY <2>2, <3>1, <3>2
  <2> HIDE DEF S
  <2>3. QED
    BY <1>1, <2>1, <2>2, ReturnLemma, ReceiveLemma DEF PlayerInv
<1>3. CASE SlotItemDoubleBufferLoaded
  <2> DEFINE of == {s \in Slot : selection[s] = Sender}
             S == IF of = {} THEN {Now}
                  ELSE UNION {currentSelectedItemsDoubleBufferLoad(Now, s) : s \in of}
  <2>1. Receives("doubleLoaded") /\ Return(S)
    BY <1>3 DEF SlotItemDoubleBufferLoaded
  <2>2. ASSUME NEW d \in S
        PROVE  Good(d)
    <3>1. CASE d = Now
      BY <1>1, <3>1
    <3>2. CASE \E s \in Slot : d \in currentSelectedItemsDoubleBufferLoad(Now, s)
      BY <1>1, <3>2, DoubleBufferLoadLemma, GoodLemma
    <3>3. QED
      BY <2>2, <3>1, <3>2
  <2> HIDE DEF S
  <2>3. QED
    BY <1>1, <2>1, <2>2, ReturnLemma, ReceiveLemma DEF PlayerInv
<1>4. CASE InteractiveLoaderFinished
  <2>1. Receives("finished") /\ Return({interactiveLoaderFinished(Now, Sender)})
    BY <1>4 DEF InteractiveLoaderFinished
  <2>2. Sender \in Slot
    BY <1>1, <2>1, ReceiveLemma
  <2>3. Good(interactiveLoaderFinished(Now, Sender))
    BY <1>1, <2>2, LoaderFinishedLemma, GoodLemma
  <2>4. QED
    BY <1>1, <2>1, <2>3, ReturnLemma, ReceiveLemma DEF PlayerInv
<1>5. QED
  BY <1>2, <1>3, <1>4 DEF MainStep

\* The timer, the cache and the screen.
LEMMA TimerStepLemma ==
    ASSUME PlayerInv, Timer \/ CachingFinished \/ Paint
    PROVE  PlayerInv'
<1>1. /\ Now \in Calls /\ Good(Now) /\ posted \in Seq(Posted) /\ ops \in 0 .. MaxOps
  BY DEF PlayerInv, Good
<1>2. posted' = posted /\ ops' = ops
  BY DEF Timer, CachingFinished, Paint
<1>3. CASE Timer
  <2>1. player.timer /\ Return(timerEvent(Now))
    BY <1>3 DEF Timer
  <2>2. Now.p.mode # "Stalled"
    BY <1>1, <2>1 DEF Good, Settled, Now
  <2>3. ASSUME NEW d \in timerEvent(Now)
        PROVE  Good(d)
    BY <1>1, <2>2, <2>3, TimerLemma DEF Ticked, Good
  <2>4. QED
    BY <1>1, <1>2, <2>1, <2>3, ReturnLemma DEF PlayerInv
<1>4. CASE CachingFinished
  <2> DEFINE S == {[c EXCEPT !.watch = None] : c \in itemCachingFinished(Now)}
  <2>1. Return(S)
    BY <1>4 DEF CachingFinished
  <2>2. ASSUME NEW d \in S
        PROVE  Good(d)
    <3>1. PICK c \in itemCachingFinished(Now) : d = [c EXCEPT !.watch = None]
      BY <2>2
    <3>2. Same(Now, c) /\ c \in Calls
      BY <1>1, <3>1, CachingFinishedLemma DEF Same
    <3>3. Same(c, d)
      BY <3>1, <3>2, WatchAssignment, QuietLemma DEF ItemOrNone
    <3>4. QED
      BY <1>1, <3>2, <3>3, SameTransitive, GoodLemma
  <2> HIDE DEF S
  <2>3. QED
    BY <1>1, <1>2, <2>1, <2>2, ReturnLemma DEF PlayerInv
<1>5. CASE Paint
  <2>1. Return({DrawItem(DrawItem(Now, 1), 2)})
    BY <1>5 DEF Paint
  <2> DEFINE c == DrawItem(Now, 1)
  <2>2. c \in Calls /\ c.p = Now.p
    BY <1>1, DrawLemma DEF Slot, Quiet
  <2> HIDE DEF c
  <2>3. DrawItem(c, 2) \in Calls /\ DrawItem(c, 2).p = Now.p
    BY <2>2, DrawLemma DEF Slot, Quiet
  <2>4. Good(DrawItem(c, 2))
    BY <1>1, <2>3, GoodLemma
  <2>5. QED
    BY <1>1, <1>2, <2>1, <2>4, ReturnLemma DEF PlayerInv, c
<1>6. QED
  BY <1>3, <1>4, <1>5
\* The buttons, the slider, the settings.
LEMMA UserStepLemma ==
    ASSUME PlayerInv, UserStep
    PROVE  PlayerInv'
<1>1. /\ Now \in Calls /\ Good(Now) /\ posted \in Seq(Posted) /\ ops \in 0 .. MaxOps
  BY DEF PlayerInv, Good
<1>2. posted' = posted /\ ops' \in 0 .. MaxOps
  <2>1. posted' = posted /\ ops' = ops + 1 /\ ops < MaxOps
    BY DEF UserStep, Op, PlayPause, on_stopButton_clicked, on_frameSlider_valueChanged,
           nextFrame, previousFrame, on_repeatModeButton_clicked, updateSettings, Select,
           ChangeItem
  <2>2. QED
    BY <1>1, <2>1, PlaybackAssumption
<1>3. ASSUME NEW S, Return(S), \A d \in S : Good(d)
      PROVE  PlayerInv'
  BY <1>1, <1>2, <1>3, ReturnLemma DEF PlayerInv
<1>4. ASSUME NEW f \in Int, NEW d \in PauseAt(Now, f),
             SteppingAssumption /\ Ranged(Now) /\ anyItemIndexedByFrame(Now)
                => f >= Now.p.min
      PROVE  Good(d)
  <2>1. Moved(Now, d, f)
    BY <1>1, <1>4, PauseAtLemma
  <2>2. Fine(Now, d)
    BY <1>1, <1>4, <2>1, FineLemma
  <2>3. QED
    BY <1>1, <2>2, GoodLemma
<1>5. \A d \in pausePlayback(Now) : Good(d)
  BY <1>1, PauseLemma, GoodLemma
<1>6. /\ Now.p = player /\ player \in Player
      /\ player.frame \in Int /\ player.min \in Int /\ player.max \in Int
  <2>1. Now.p = player
    BY DEF Now
  <2>2. QED
    BY <1>1, <2>1, FieldsLemma, SlotsLemma DEF Slot
<1>7. CASE PlayPause
  <2>1. Return(on_playPauseButton_clicked(Now))
    BY <1>7 DEF PlayPause
  <2>2. \A d \in on_playPauseButton_clicked(Now) : Good(d)
    BY <1>1, PlayPauseLemma, GoodLemma
  <2>3. QED
    BY <1>3, <2>1, <2>2
<1>8. CASE on_stopButton_clicked
  <2>1. Return(PauseAt(Now, 0)) /\ "stop" \in Ops
    BY <1>8 DEF on_stopButton_clicked, Op
  <2>2. SteppingAssumption /\ Ranged(Now) => 0 >= Now.p.min
    BY <1>6, <2>1 DEF SteppingAssumption, Ranged, Bounded, Slider
  <2>3. \A d \in PauseAt(Now, 0) : Good(d)
    BY <1>4, <2>2
  <2>4. QED
    BY <1>3, <2>1, <2>3
<1>9. CASE on_frameSlider_valueChanged
  <2>1. PICK f \in player.min .. player.max : Return(PauseAt(Now, f))
    BY <1>9 DEF on_frameSlider_valueChanged
  <2>2. f \in Int /\ f >= Now.p.min
    BY <1>6, <2>1
  <2>3. \A d \in PauseAt(Now, f) : Good(d)
    BY <1>4, <2>2
  <2>4. QED
    BY <1>3, <2>1, <2>3
<1>10. CASE nextFrame
  <2>1. /\ player.frame + 1 \in Int
        /\ Ranged(Now) /\ anyItemIndexedByFrame(Now) => player.frame + 1 >= Now.p.min
    BY <1>6 DEF Ranged
  <2>2. \A d \in PauseAt(Now, player.frame + 1) : Good(d)
    BY <1>4, <2>1
  <2>3. QED
    BY <1>3, <1>5, <1>10, <2>2 DEF nextFrame
<1>11. CASE previousFrame
  <2>1. CASE player.frame # player.min
    <3>1. /\ player.frame - 1 \in Int
          /\ Ranged(Now) /\ anyItemIndexedByFrame(Now) => player.frame - 1 >= Now.p.min
      BY <1>6, <2>1 DEF Ranged
    <3>2. \A d \in PauseAt(Now, player.frame - 1) : Good(d)
      BY <1>4, <3>1
    <3>3. QED
      BY <1>3, <1>11, <2>1, <3>2 DEF previousFrame
  <2>2. CASE player.frame = player.min
    BY <1>3, <1>5, <1>11, <2>2 DEF previousFrame
  <2>3. QED
    BY <2>1, <2>2
<1>12. CASE on_repeatModeButton_clicked
  <2> DEFINE q == [player EXCEPT !.repeat = NextMode[player.repeat]]
  <2>1. Return({[Now EXCEPT !.p = q]})
    BY <1>6, <1>12 DEF on_repeatModeButton_clicked
  <2>2. player.repeat \in {"Off", "One", "All"}
    BY <1>6 DEF Player
  <2>3. NextMode[player.repeat] \in {"Off", "One", "All"}
    BY <2>2 DEF NextMode
  <2>4. /\ q \in Player /\ q.frame = player.frame /\ q.min = player.min /\ q.max = player.max
        /\ q.item = player.item /\ q.controls = player.controls /\ q.mode = player.mode
        /\ q.timer = player.timer /\ q.waiting = player.waiting
    BY <1>6, <2>3 DEF Player
  <2> HIDE DEF q
  <2>5. [Now EXCEPT !.p = q] \in Calls /\ [Now EXCEPT !.p = q].p = q
    BY <1>1, <2>4, AssignLemma
  <2>6. Same(Now, [Now EXCEPT !.p = q])
    BY <1>6, <2>4, <2>5 DEF Same, View, Settled
  <2>7. Good([Now EXCEPT !.p = q])
    BY <1>1, <2>6, GoodLemma
  <2>8. QED
    BY <1>3, <2>1, <2>7
<1>13. CASE updateSettings
  <2> DEFINE q == [player EXCEPT !.wait = ~player.wait]
  <2>1. Return({[Now EXCEPT !.p = q]})
    BY <1>6, <1>13 DEF updateSettings
  <2>2. /\ q \in Player /\ q.frame = player.frame /\ q.min = player.min /\ q.max = player.max
        /\ q.item = player.item /\ q.controls = player.controls /\ q.mode = player.mode
        /\ q.timer = player.timer /\ q.waiting = player.waiting
    BY <1>6 DEF Player
  <2> HIDE DEF q
  <2>3. [Now EXCEPT !.p = q] \in Calls /\ [Now EXCEPT !.p = q].p = q
    BY <1>1, <2>2, AssignLemma
  <2>4. Same(Now, [Now EXCEPT !.p = q])
    BY <1>6, <2>2, <2>3 DEF Same, View, Settled
  <2>5. Good([Now EXCEPT !.p = q])
    BY <1>1, <2>4, GoodLemma
  <2>6. QED
    BY <1>3, <2>1, <2>5
<1>14. CASE Select
  <2>1. PICK sel \in Selections :
               Return(currentSelectedItemsChanged([Now EXCEPT !.sel = sel], FALSE))
    BY <1>14 DEF Select
  <2> DEFINE c == [Now EXCEPT !.sel = sel]
  <2>2. sel \in [Slot -> ItemOrNone]
    BY DEF Selections, Slot, ItemOrNone
  <2>3. c \in Calls /\ c.p = Now.p
    BY <1>1, <2>2 DEF Calls
  <2>4. Good(c)
    BY <1>1, <2>3, GoodLemma
  <2> HIDE DEF c
  <2>5. ASSUME NEW d \in currentSelectedItemsChanged(c, FALSE)
        PROVE  Good(d)
    <3>1. /\ Chosen(c, d)
          /\ ~Continue /\ anyItemIndexedByFrame(d) => d.p.frame >= d.p.min
      BY <2>3, <2>5, ItemsChangedLemma
    <3>2. QED
      BY <2>4, <3>1 DEF Good, Chosen, Bounded, Ranged, SteppingAssumption
  <2>6. Return(currentSelectedItemsChanged(c, FALSE))
    BY <2>1 DEF c
  <2>7. QED
    BY <1>3, <2>5, <2>6
<1>15. CASE ChangeItem
  <2>1. PICK i \in Indexed, r \in Ranges :
          LET c == [Now EXCEPT !.range[i] = r, !.image[i] = NoFrame]
          IN  Return(IF \E s \in Slot : selection[s] = i
                     THEN selectionPropertiesChanged(c) ELSE {c})
    BY <1>15 DEF ChangeItem
  <2> DEFINE x == [Now.range EXCEPT ![i] = r]
             y == [Now.image EXCEPT ![i] = NoFrame]
             c == [Now EXCEPT !.range = x, !.image = y]
             S == IF \E s \in Slot : selection[s] = i
                  THEN selectionPropertiesChanged(c) ELSE {c}
  <2>2. x \in ItemRanges /\ y \in [Item -> Int]
    <3>1. Now.range \in ItemRanges /\ Now.image \in [Item -> Int] /\ NoFrame \in Int
      BY <1>1, FieldsLemma DEF NoFrame
    <3>2. x \in ItemRanges
      BY <2>1, <3>1 DEF ItemRanges
    <3>3. y \in [Item -> Int]
      BY <2>1, <3>1
    <3>4. QED
      BY <3>2, <3>3
  <2>3. Return(S)
    BY <2>1
  <2> HIDE DEF x, y
  <2>4. c \in Calls /\ c.p = Now.p
    BY <1>1, <2>2 DEF Calls
  <2>5. Good(c)
    BY <1>1, <2>4, GoodLemma
  <2> HIDE DEF c
  <2>6. ASSUME NEW d \in S
        PROVE  Good(d)
    <3>1. CASE d = c
      BY <2>5, <3>1
    <3>2. CASE d \in selectionPropertiesChanged(c)
      BY <2>4, <2>5, <3>2, PropertiesChangedLemma DEF Good, Ranged
    <3>3. QED
      BY <2>6, <3>1, <3>2
  <2> HIDE DEF S
  <2>7. QED
    BY <1>3, <2>3, <2>6
<1>16. QED
  BY <1>7, <1>8, <1>9, <1>10, <1>11, <1>12, <1>13, <1>14, <1>15 DEF UserStep
\* A worker changes its job, the image or the double buffer of its item, and reports it.
LEMMA LoaderStepLemma ==
    ASSUME PlayerInv, NEW s \in Slot, LoaderStep(s)
    PROVE  PlayerInv'
<1> DEFINE j == job[s]
<1>1. /\ Now \in Calls /\ Good(Now) /\ posted \in Seq(Posted) /\ ops \in 0 .. MaxOps
  BY DEF PlayerInv, Good
<1>2. /\ job \in [Slot -> Jobs] /\ image \in [Item -> Int] /\ double \in [Item -> Int]
      /\ busy \in [frame: SUBSET Item, double: SUBSET Item]
      /\ range \in ItemRanges
  BY <1>1 DEF Now, Calls
<1>3. UNCHANGED <<player, selection, range, watching, queue, ops>>
  BY DEF LoaderStep, BeginLoad, EndLoad, BeginDoubleBuffer, EndDoubleBuffer, FinishLoad,
         MainUnchanged
<1>4. j \in Jobs /\ j.frame \in Int
  BY <1>2 DEF Jobs
<1>5. ASSUME NEW phase \in {"frame", "next", "double", "done"}, j.item \in Item, Goto(s, phase)
      PROVE  job' \in [Slot -> Jobs]
  <2> DEFINE k == [j EXCEPT !.phase = phase]
  <2>1. k \in Jobs
    BY <1>4, <1>5 DEF Jobs
  <2>2. job' = [job EXCEPT ![s] = k]
    BY <1>5 DEF Goto
  <2> HIDE DEF k
  <2>3. QED
    BY <1>2, <2>1, <2>2
<1>6. ASSUME NEW kind \in {"changed", "doubleLoaded"}, j.item \in Item, Post(kind, j.item)
      PROVE  posted' \in Seq(Posted)
  <2>1. [kind |-> kind, of |-> j.item] \in Posted
    BY <1>6 DEF Posted
  <2>2. QED
    BY <1>1, <1>6, <2>1 DEF Post
<1>7. ASSUME job' \in [Slot -> Jobs], image' \in [Item -> Int], double' \in [Item -> Int],
             busy' \in [frame: SUBSET Item, double: SUBSET Item], posted' \in Seq(Posted)
      PROVE  PlayerInv'
  <2> DEFINE d == Now'
  <2>1. d \in Calls /\ d.p = Now.p
    BY <1>1, <1>3, <1>7 DEF Now, Calls
  <2>2. Good(d)
    BY <1>1, <2>1, GoodLemma
  <2>3. QED
    BY <1>1, <1>3, <1>7, <2>2 DEF PlayerInv
<1>8. CASE BeginLoad(s)
  <2>1. j.phase = "called" /\ UNCHANGED <<image, double, posted>>
    BY <1>8 DEF BeginLoad
  <2>2. j.item \in Item
    BY <1>4, <2>1 DEF Jobs
  <2>3. /\ Goto(s, "frame") \/ Goto(s, "next") \/ Goto(s, "done")
        /\ busy' = [busy EXCEPT !.frame = busy.frame \cup {j.item}] \/ busy' = busy
    BY <1>8 DEF BeginLoad
  <2>4. job' \in [Slot -> Jobs]
    BY <1>5, <2>2, <2>3
  <2>5. busy' \in [frame: SUBSET Item, double: SUBSET Item]
    BY <1>2, <2>2, <2>3
  <2>6. QED
    BY <1>1, <1>2, <1>7, <2>1, <2>4, <2>5
<1>9. CASE EndLoad(s)
  <2>1. /\ j.phase = "frame" /\ UNCHANGED double
        /\ image' = [image EXCEPT ![j.item] = j.frame]
        /\ busy' = [busy EXCEPT !.frame = busy.frame \ {j.item}]
        /\ Post("changed", j.item)
        /\ Goto(s, "next") \/ Goto(s, "done")
    BY <1>9 DEF EndLoad
  <2>2. j.item \in Item
    BY <1>4, <2>1 DEF Jobs
  <2>3. job' \in [Slot -> Jobs]
    BY <1>5, <2>1, <2>2
  <2>4. image' \in [Item -> Int]
    BY <1>2, <1>4, <2>1
  <2>5. busy' \in [frame: SUBSET Item, double: SUBSET Item]
    BY <1>2, <2>1
  <2>6. posted' \in Seq(Posted)
    BY <1>6, <2>1, <2>2
  <2>7. QED
    BY <1>2, <1>7, <2>1, <2>3, <2>4, <2>5, <2>6
<1>10. CASE BeginDoubleBuffer(s)
  <2>1. j.phase = "next" /\ UNCHANGED <<image, double, posted>>
    BY <1>10 DEF BeginDoubleBuffer
  <2>2. j.item \in Item
    BY <1>4, <2>1 DEF Jobs
  <2>3. /\ Goto(s, "double") \/ Goto(s, "done")
        /\ busy' = [busy EXCEPT !.double = busy.double \cup {j.item}] \/ busy' = busy
    BY <1>10 DEF BeginDoubleBuffer
  <2>4. job' \in [Slot -> Jobs]
    BY <1>5, <2>2, <2>3
  <2>5. busy' \in [frame: SUBSET Item, double: SUBSET Item]
    BY <1>2, <2>2, <2>3
  <2>6. QED
    BY <1>1, <1>2, <1>7, <2>1, <2>4, <2>5
<1>11. CASE EndDoubleBuffer(s)
  <2>1. /\ j.phase = "double" /\ UNCHANGED image
        /\ double' = [double EXCEPT ![j.item] = j.frame + 1]
        /\ busy' = [busy EXCEPT !.double = busy.double \ {j.item}]
        /\ Post("doubleLoaded", j.item)
        /\ Goto(s, "done")
    BY <1>11 DEF EndDoubleBuffer
  <2>2. j.item \in Item
    BY <1>4, <2>1 DEF Jobs
  <2>3. job' \in [Slot -> Jobs]
    BY <1>5, <2>1, <2>2
  <2>4. double' \in [Item -> Int]
    <3> DEFINE f == j.frame + 1
    <3>1. f \in Int /\ double' = [double EXCEPT ![j.item] = f]
      BY <1>4, <2>1
    <3> HIDE DEF f
    <3>2. QED
      BY <1>2, <3>1
  <2>5. busy' \in [frame: SUBSET Item, double: SUBSET Item]
    BY <1>2, <2>1
  <2>6. posted' \in Seq(Posted)
    BY <1>6, <2>1, <2>2
  <2>7. QED
    BY <1>2, <1>7, <2>1, <2>3, <2>4, <2>5, <2>6
<1>12. CASE FinishLoad(s)
  <2> DEFINE k == [IdleJob EXCEPT !.phase = "reported"]
  <2>1. /\ job' = [job EXCEPT ![s] = k] /\ UNCHANGED <<image, double, busy>>
        /\ posted' = Append(posted, [kind |-> "finished", of |-> s])
    BY <1>12 DEF FinishLoad, Post
  <2>2. k \in Jobs
    <3>1. IdleJob \in [item: ItemOrNone, frame: Int, playing: BOOLEAN,
                       phase: {"idle", "called", "frame", "next", "double", "done", "reported"}]
      BY DEF IdleJob, ItemOrNone, NoFrame
    <3>2. QED
      BY <3>1 DEF Jobs
  <2> HIDE DEF k
  <2>3. [kind |-> "finished", of |-> s] \in Posted
    BY DEF Posted
  <2>4. job' \in [Slot -> Jobs] /\ posted' \in Seq(Posted)
    BY <1>1, <1>2, <2>1, <2>2, <2>3
  <2>5. QED
    BY <1>2, <1>7, <2>1, <2>4
<1>13. QED
  BY <1>8, <1>9, <1>10, <1>11, <1>12 DEF LoaderStep

LEMMA PairLemma ==
    ASSUME NEW S, NEW x \in S, NEW y \in S
    PROVE  <<x, y>> \in [Slot -> S]
BY DEF Slot

LEMMA InitLemma ==
    ASSUME Init
    PROVE  PlayerInv
<1>1. /\ player \in Player /\ player.mode = "Stopped" /\ player.item = <<None, None>>
      /\ player.min = 0 /\ player.max = 99
  <2> DEFINE nothing == <<None, None>>  neither == <<FALSE, FALSE>>
  <2>1. PICK r \in Modes, w \in Waits :
          player = [mode |-> "Stopped", item |-> nothing, frame |-> -1, last |-> -1,
                    min |-> 0, max |-> 99, controls |-> FALSE, timer |-> FALSE,
                    waiting |-> neither, tick |-> 0, repeat |-> r, wait |-> w,
                    aborted |-> "no"]
    BY DEF Init, NoFrame
  <2>2. player.mode = "Stopped" /\ player.item = <<None, None>>
        /\ player.min = 0 /\ player.max = 99
    BY <2>1
  <2>3. r \in {"Off", "One", "All"} /\ w \in BOOLEAN
    BY PlaybackAssumption
  <2>4. nothing \in [Slot -> ItemOrNone]
    BY DEF Slot, ItemOrNone
  <2>5. neither \in [Slot -> BOOLEAN]
    BY PairLemma
  <2> HIDE DEF nothing, neither
  <2>6. player \in Player
    BY <2>1, <2>3, <2>4, <2>5 DEF Player
  <2>7. QED
    BY <2>2, <2>6
<1>2. IdleJob \in Jobs /\ NoRequest \in Requests /\ NoFrame \in Int
  BY DEF IdleJob, NoRequest, Jobs, Requests, ItemOrNone, NoFrame
<1>3. /\ selection \in [Slot -> ItemOrNone] /\ range \in ItemRanges /\ watching \in ItemOrNone
      /\ job \in [Slot -> Jobs] /\ queue \in [Slot -> Requests]
      /\ image \in [Item -> Int] /\ double \in [Item -> Int]
      /\ busy \in [frame: SUBSET Item, double: SUBSET Item]
  <2>1. selection \in [Slot -> ItemOrNone] /\ watching \in ItemOrNone
    BY DEF Init, ItemOrNone, Slot
  <2>2. range \in ItemRanges
    BY PlaybackAssumption DEF Init, ItemRanges
  <2>3. job \in [Slot -> Jobs] /\ queue \in [Slot -> Requests]
    BY <1>2 DEF Init
  <2>4. image \in [Item -> Int] /\ double \in [Item -> Int]
    BY <1>2 DEF Init
  <2>5. busy \in [frame: SUBSET Item, double: SUBSET Item]
    BY DEF Init
  <2>6. QED
    BY <2>1, <2>2, <2>3, <2>4, <2>5
<1>4. Now \in Calls /\ Now.p = player
  BY <1>1, <1>3 DEF Now, Calls
<1>5. ~anyItemIndexedByFrame(Now)
  BY <1>1, <1>4, RangeLemma DEF anyItemIndexedByFrame, IsIndexed, Slot
<1>6. Good(Now)
  BY <1>1, <1>4, <1>5 DEF Good, Settled, Bounded, Slider, Ranged
<1>7. posted \in Seq(Posted) /\ ops \in 0 .. MaxOps
  BY PlaybackAssumption DEF Init
<1>8. QED
  BY <1>6, <1>7 DEF PlayerInv

LEMMA NextLemma ==
    ASSUME PlayerInv, [Next]_vars
    PROVE  PlayerInv'
<1>1. CASE MainStep
  BY <1>1, MainStepLemma
<1>2. CASE Timer \/ CachingFinished \/ Paint
  BY <1>2, TimerStepLemma
<1>3. CASE UserStep
  BY <1>3, UserStepLemma
<1>4. CASE \E s \in Slot : LoaderStep(s)
  BY <1>4, LoaderStepLemma
<1>5. CASE UNCHANGED vars
  <2>1. Now' = Now /\ posted' = posted /\ ops' = ops
    BY <1>5 DEF vars, loadVars, Now
  <2> DEFINE c == Now  d == Now'
  <2>2. Good(c)' <=> Good(d)
    OBVIOUS
  <2>3. QED
    BY <2>1, <2>2 DEF PlayerInv
<1>6. QED
  BY <1>1, <1>2, <1>3, <1>4, <1>5 DEF Next
-----------------------------------------------------------------------------
(* Theorems *)

\* The state of the player, the workers and their signals is one in which a slot may be called,
\* whatever the user does and whenever the threads report.
THEOREM PlayerInvariant == Spec => []PlayerInv
<1>1. Init => PlayerInv
  BY InitLemma
<1>2. PlayerInv /\ [Next]_vars => PlayerInv'
  BY NextLemma
<1>3. QED
  BY <1>1, <1>2, PTL DEF Spec

\* PlaybackController: the types of all variables.
THEOREM PlayerTypes == Spec => []TypeOK
<1>1. PlayerInv => TypeOK
  <2>1. SUFFICES ASSUME PlayerInv
                 PROVE  TypeOK
    OBVIOUS
  <2>2. Now \in Calls /\ posted \in Seq(Posted) /\ ops \in 0 .. MaxOps
    BY <2>1 DEF PlayerInv, Good
  <2>3. /\ player \in Player /\ selection \in [Slot -> ItemOrNone] /\ range \in ItemRanges
        /\ watching \in ItemOrNone /\ job \in [Slot -> Jobs] /\ queue \in [Slot -> Requests]
        /\ image \in [Item -> Int] /\ double \in [Item -> Int]
        /\ busy \in [frame: SUBSET Item, double: SUBSET Item]
    BY <2>2 DEF Now, Calls
  <2>4. range \in [Item -> Int \X Int]
    BY <2>3, RangeLemma DEF ItemRanges
  <2>5. job \in [Slot -> [item: Item \cup {None}, frame: Int, playing: BOOLEAN,
                          phase: {"idle", "called", "frame", "next", "double",
                                  "done", "reported"}]]
    BY <2>3 DEF Jobs, ItemOrNone
  <2>6. posted \in Seq([kind: {"changed", "doubleLoaded", "finished"}, of: Item \cup Slot])
    <3> DEFINE Any == [kind: {"changed", "doubleLoaded", "finished"}, of: Item \cup Slot]
    <3>1. Posted \subseteq Any
      BY DEF Posted
    <3> HIDE DEF Any
    <3>2. posted \in Seq(Any)
      BY <2>2, <3>1
    <3>3. QED
      BY <3>2 DEF Any
  <2>7. QED
    BY <2>2, <2>3, <2>4, <2>5, <2>6 DEF TypeOK, Player, ItemOrNone, Requests
<1>2. QED
  BY <1>1, PlayerInvariant, PTL

\* goToNextFrame, currentSelectedItemsDoubleBufferLoad: playback that has stalled waits for an
\* item, for any number of items, ranges and operations.
THEOREM StallsHaveReason == Spec => []StallHasReason
<1>1. PlayerInv => StallHasReason
  BY DEF PlayerInv, Good, Settled, StallHasReason, Now
<1>2. QED
  BY <1>1, PlayerInvariant, PTL

\* Where a step sets the frame.
FrameSet == player'.frame \in {player.frame, NoFrame} \cup (player'.min .. player'.max)

\* The slots keep the frame, or set it to one of the range.
LEMMA SlotSetsFrame ==
    ASSUME Now \in Calls, NEW S, Return(S), \A d \in S : d \in Calls /\ SetIn(Now, d)
    PROVE  FrameSet
<1>1. PICK d \in S : player' = d.p
  BY DEF Return
<1>2. d \in Calls /\ SetIn(Now, d) /\ Now.p = player
  BY DEF Now
<1>3. QED
  BY <1>1, <1>2 DEF FrameSet, SetIn

\* The signals of the workers and of the cache, the timer, the screen.
LEMMA StepSetsFrame ==
    ASSUME PlayerInv, Ranged(Now), MainStep \/ Timer \/ CachingFinished \/ Paint
    PROVE  FrameSet
<1>1. Now \in Calls /\ Bounded(Now)
  BY DEF PlayerInv, Good
<1>2. ASSUME NEW d, Same(Now, d)
      PROVE  d \in Calls /\ SetIn(Now, d)
  BY <1>2, SameLemma DEF SetIn
<1>3. CASE SlotItemChanged
  <2> DEFINE S == IF \E s \in Slot : selection[s] = Sender
                  THEN selectionPropertiesChanged(Now) ELSE {Now}
  <2>1. Return(S)
    BY <1>3 DEF SlotItemChanged
  <2>2. \A d \in S : d \in Calls /\ SetIn(Now, d)
    BY <1>1, PropertiesChangedLemma DEF SetIn
  <2> HIDE DEF S
  <2>3. QED
    BY <1>1, <2>1, <2>2, SlotSetsFrame
<1>4. CASE SlotItemDoubleBufferLoaded
  <2> DEFINE of == {s \in Slot : selection[s] = Sender}
             S == IF of = {} THEN {Now}
                  ELSE UNION {currentSelectedItemsDoubleBufferLoad(Now, s) : s \in of}
  <2>1. Return(S)
    BY <1>4 DEF SlotItemDoubleBufferLoaded
  <2>2. \A d \in S : d \in Calls /\ SetIn(Now, d)
    BY <1>1, DoubleBufferLoadLemma DEF SetIn, Fine
  <2> HIDE DEF S
  <2>3. QED
    BY <1>1, <2>1, <2>2, SlotSetsFrame
<1>5. CASE InteractiveLoaderFinished
  <2>1. Receives("finished") /\ Return({interactiveLoaderFinished(Now, Sender)})
    BY <1>5 DEF InteractiveLoaderFinished
  <2>2. Sender \in Slot
    BY <2>1, ReceiveLemma DEF PlayerInv
  <2>3. \A d \in {interactiveLoaderFinished(Now, Sender)} : d \in Calls /\ SetIn(Now, d)
    BY <1>1, <2>2, LoaderFinishedLemma DEF SetIn
  <2>4. QED
    BY <1>1, <2>1, <2>3, SlotSetsFrame
<1>6. CASE Timer
  <2>1. Return(timerEvent(Now))
    BY <1>6 DEF Timer
  <2>2. \A d \in timerEvent(Now) : d \in Calls /\ SetIn(Now, d)
    BY <1>1, TimerLemma DEF Ticked, SetIn
  <2>3. QED
    BY <1>1, <2>1, <2>2, SlotSetsFrame
<1>7. CASE CachingFinished
  <2> DEFINE S == {[c EXCEPT !.watch = None] : c \in itemCachingFinished(Now)}
  <2>1. Return(S)
    BY <1>7 DEF CachingFinished
  <2>2. ASSUME NEW c \in itemCachingFinished(Now)
        PROVE  Same(Now, [c EXCEPT !.watch = None])
    <3>1. Same(Now, c) /\ c \in Calls
      BY <1>1, CachingFinishedLemma DEF Same
    <3>2. Same(c, [c EXCEPT !.watch = None])
      BY <3>1, WatchAssignment, QuietLemma DEF ItemOrNone
    <3>3. QED
      BY <3>1, <3>2, SameTransitive
  <2>3. \A d \in S : d \in Calls /\ SetIn(Now, d)
    BY <1>2, <2>2
  <2> HIDE DEF S
  <2>4. QED
    BY <1>1, <2>1, <2>3, SlotSetsFrame
<1>8. CASE Paint
  <2>1. Return({DrawItem(DrawItem(Now, 1), 2)})
    BY <1>8 DEF Paint
  <2> DEFINE c == DrawItem(Now, 1)
  <2>2. c \in Calls /\ c.p = Now.p
    BY <1>1, DrawLemma DEF Slot, Quiet
  <2> HIDE DEF c
  <2>3. DrawItem(c, 2) \in Calls /\ DrawItem(c, 2).p = Now.p
    BY <2>2, DrawLemma DEF Slot, Quiet
  <2>4. DrawItem(c, 2) \in Calls /\ SetIn(Now, DrawItem(c, 2))
    BY <2>3 DEF SetIn
  <2>5. QED
    BY <1>1, <2>1, <2>4, SlotSetsFrame DEF c
<1>9. QED
  BY <1>3, <1>4, <1>5, <1>6, <1>7, <1>8 DEF MainStep

\* The slider and the buttons: the frame they name.
LEMMA PauseSetsFrame ==
    ASSUME Now \in Calls, NEW f \in Int, Return(PauseAt(Now, f))
    PROVE  /\ player'.min = player.min /\ player'.max = player.max
           /\ player'.frame = IF anyItemIndexedByFrame(Now) THEN f ELSE player.frame
<1>1. PICK d \in PauseAt(Now, f) : player' = d.p
  BY DEF Return
<1>2. Moved(Now, d, f) /\ Now.p = player
  BY <1>1, PauseAtLemma DEF Now
<1>3. QED
  BY <1>1, <1>2, MovedLemma

\* The button for the previous frame: it goes back by one.
LEMMA PreviousSetsFrame ==
    ASSUME PlayerInv, Ranged(Now), previousFrame
    PROVE  FrameSet \/ player'.frame \in player'.max .. player.frame - 1
<1>1. Now \in Calls /\ Bounded(Now)
  BY DEF PlayerInv, Good
<1>2. player.frame \in Int /\ player.min \in Int /\ player.max \in Int
  BY <1>1, SlotsLemma DEF Slot, Now
<1>3. anyItemIndexedByFrame(Now) => player.frame >= player.min
  BY DEF Ranged, Now
<1>4. CASE player.frame # player.min
  <2>1. Return(PauseAt(Now, player.frame - 1)) /\ player.frame - 1 \in Int
    BY <1>2, <1>4 DEF previousFrame
  <2>2. /\ player'.min = player.min /\ player'.max = player.max
        /\ player'.frame = IF anyItemIndexedByFrame(Now) THEN player.frame - 1
                           ELSE player.frame
    BY <1>1, <2>1, PauseSetsFrame
  <2>3. QED
    BY <1>2, <1>3, <1>4, <2>2 DEF FrameSet
<1>5. CASE player.frame = player.min
  <2>1. Return(pausePlayback(Now))
    BY <1>5 DEF previousFrame
  <2>2. \A d \in pausePlayback(Now) : d \in Calls /\ SetIn(Now, d)
    BY <1>1, PauseLemma, SameLemma DEF SetIn
  <2>3. QED
    BY <1>1, <2>1, <2>2, SlotSetsFrame
<1>6. QED
  BY <1>4, <1>5

\* What else the user does.
LEMMA UserSetsFrame ==
    ASSUME PlayerInv, Ranged(Now), ~Continue, UserStep, ~on_stopButton_clicked, ~previousFrame
    PROVE  FrameSet
<1>1. Now \in Calls /\ Bounded(Now) /\ Now.p = player
  BY DEF PlayerInv, Good, Now
<1>2. /\ player \in Player
      /\ player.frame \in Int /\ player.min \in Int /\ player.max \in Int
  BY <1>1, FieldsLemma, SlotsLemma DEF Slot
<1>3. anyItemIndexedByFrame(Now) => player.frame >= player.min
  BY <1>1 DEF Ranged
<1>4. \A d \in pausePlayback(Now) : d \in Calls /\ SetIn(Now, d)
  BY <1>1, PauseLemma, SameLemma DEF SetIn
<1>5. CASE PlayPause
  <2>1. Return(on_playPauseButton_clicked(Now))
    BY <1>5 DEF PlayPause
  <2>2. \A d \in on_playPauseButton_clicked(Now) : d \in Calls /\ SetIn(Now, d)
    BY <1>1, PlayPauseLemma DEF Fine
  <2>3. QED
    BY <1>1, <2>1, <2>2, SlotSetsFrame
<1>6. CASE on_frameSlider_valueChanged
  <2>1. PICK f \in player.min .. player.max : Return(PauseAt(Now, f))
    BY <1>6 DEF on_frameSlider_valueChanged
  <2>2. f \in Int
    BY <1>2
  <2>3. /\ player'.min = player.min /\ player'.max = player.max
        /\ player'.frame \in {f, player.frame}
    BY <1>1, <2>1, <2>2, PauseSetsFrame
  <2>4. QED
    BY <2>1, <2>3 DEF FrameSet
<1>7. CASE nextFrame
  <2>1. CASE player.frame < player.max
    <3>1. Return(PauseAt(Now, player.frame + 1))
      BY <1>7, <2>1 DEF nextFrame
    <3>2. player.frame + 1 \in Int
      BY <1>2
    <3>3. /\ player'.min = player.min /\ player'.max = player.max
          /\ player'.frame = IF anyItemIndexedByFrame(Now) THEN player.frame + 1
                             ELSE player.frame
      BY <1>1, <3>1, <3>2, PauseSetsFrame
    <3>4. QED
      BY <1>2, <1>3, <2>1, <3>3 DEF FrameSet
  <2>2. CASE ~(player.frame < player.max)
    <3>1. Return(pausePlayback(Now))
      BY <1>7, <2>2 DEF nextFrame
    <3>2. QED
      BY <1>1, <1>4, <3>1, SlotSetsFrame
  <2>3. QED
    BY <2>1, <2>2
<1>8. CASE on_repeatModeButton_clicked \/ updateSettings
  <2>1. player'.frame = player.frame
    <3>1. PICK q \in {[player EXCEPT !.repeat = NextMode[player.repeat]],
                      [player EXCEPT !.wait = ~player.wait]} :
             Return({[Now EXCEPT !.p = q]})
      BY <1>1, <1>8 DEF on_repeatModeButton_clicked, updateSettings
    <3>2. q.frame = player.frame
      BY <1>2 DEF Player
    <3> HIDE DEF Now
    <3>3. [Now EXCEPT !.p = q].p = q
      BY <1>1 DEF Calls
    <3>4. QED
      BY <3>1, <3>2, <3>3 DEF Return
  <2>2. QED
    BY <2>1 DEF FrameSet
<1>9. CASE Select
  <2>1. PICK sel \in Selections :
               Return(currentSelectedItemsChanged([Now EXCEPT !.sel = sel], FALSE))
    BY <1>9 DEF Select
  <2> DEFINE c == [Now EXCEPT !.sel = sel]
             S == currentSelectedItemsChanged(c, FALSE)
  <2>2. sel \in [Slot -> ItemOrNone]
    BY DEF Selections, Slot, ItemOrNone
  <2>3. c \in Calls /\ c.p = Now.p
    BY <1>1, <2>2 DEF Calls
  <2> HIDE DEF c
  <2>4. \A d \in S : d \in Calls /\ SetIn(Now, d)
    BY <2>3, ItemsChangedLemma DEF Chosen, SetIn
  <2>5. Return(S)
    BY <2>1 DEF c
  <2>6. QED
    BY <1>1, <2>4, <2>5, SlotSetsFrame
<1>10. CASE ChangeItem
  <2>1. PICK i \in Indexed, r \in Ranges :
          LET c == [Now EXCEPT !.range[i] = r, !.image[i] = NoFrame]
          IN  Return(IF \E s \in Slot : selection[s] = i
                     THEN selectionPropertiesChanged(c) ELSE {c})
    BY <1>10 DEF ChangeItem
  <2> DEFINE x == [Now.range EXCEPT ![i] = r]
             y == [Now.image EXCEPT ![i] = NoFrame]
             c == [Now EXCEPT !.range = x, !.image = y]
             S == IF \E s \in Slot : selection[s] = i
                  THEN selectionPropertiesChanged(c) ELSE {c}
  <2>2. x \in ItemRanges /\ y \in [Item -> Int]
    <3>1. Now.range \in ItemRanges /\ Now.image \in [Item -> Int] /\ NoFrame \in Int
      BY <1>1, FieldsLemma DEF NoFrame
    <3>2. x \in ItemRanges
      BY <2>1, <3>1 DEF ItemRanges
    <3>3. y \in [Item -> Int]
      BY <2>1, <3>1
    <3>4. QED
      BY <3>2, <3>3
  <2>3. Return(S)
    BY <2>1
  <2> HIDE DEF x, y
  <2>4. c \in Calls /\ c.p = Now.p
    BY <1>1, <2>2 DEF Calls
  <2>5. Bounded(c)
    BY <1>1, <2>4 DEF Bounded, Slider, anyItemIndexedByFrame
  <2> HIDE DEF c
  <2>6. \A d \in S : d \in Calls /\ SetIn(Now, d)
    BY <2>4, <2>5, PropertiesChangedLemma DEF SetIn
  <2> HIDE DEF S
  <2>7. QED
    BY <1>1, <2>3, <2>6, SlotSetsFrame
<1>11. QED
  BY <1>5, <1>6, <1>7, <1>8, <1>9, <1>10 DEF UserStep

\* timerEvent, selectionPropertiesChanged, currentSelectedItemsChanged, the slider and the
\* buttons: whatever sets the frame sets it to one of the slider's range, for any number of
\* items, ranges and operations, if new selections pause playback and the stop button goes to
\* a frame that the items have.
THEOREM FramesAreSetInRange ==
    ASSUME SteppingAssumption
    PROVE  Spec => FrameIsSetInRange
<1>1. PlayerInv /\ [Next]_vars =>
        [~on_stopButton_clicked /\ player'.frame \notin {player.frame, NoFrame} =>
           \/ player'.frame \in player'.min .. player'.max
           \/ previousFrame /\ player'.frame \in player'.max .. player.frame - 1]_vars
  <2>1. SUFFICES ASSUME PlayerInv, [Next]_vars, ~on_stopButton_clicked
                 PROVE  \/ FrameSet
                        \/ previousFrame /\ player'.frame \in player'.max .. player.frame - 1
    BY DEF FrameSet
  <2>2. Ranged(Now) /\ ~Continue
    BY <2>1, SteppingAssumption DEF PlayerInv, Good, SteppingAssumption
  <2>3. CASE MainStep \/ Timer \/ CachingFinished \/ Paint
    BY <2>1, <2>2, <2>3, StepSetsFrame
  <2>4. CASE UserStep
    BY <2>1, <2>2, <2>4, UserSetsFrame, PreviousSetsFrame
  <2>5. CASE (\E s \in Slot : LoaderStep(s)) \/ UNCHANGED vars
    <3>1. player' = player
      BY <2>5 DEF LoaderStep, BeginLoad, EndLoad, BeginDoubleBuffer, EndDoubleBuffer,
                  FinishLoad, MainUnchanged, vars, loadVars
    <3>2. QED
      BY <3>1 DEF FrameSet
  <2>6. QED
    BY <2>1, <2>3, <2>4, <2>5 DEF Next
<1>2. QED
  BY <1>1, PlayerInvariant, PTL DEF Spec, FrameIsSetInRange
=============================================================================
