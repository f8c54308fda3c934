------------------------- MODULE PlaybackController -------------------------
(***************************************************************************)
(* class PlaybackController: which frame is shown, and playback with its   *)
(* timer, its stalls while a frame is loading and its waits for the cache, *)
(* together with the selection of the PlaylistTreeWidget and the threads   *)
(* that load frames.                                                       *)
(*                                                                         *)
(* A slot of the main thread is an operator from a state to the states it  *)
(* can leave behind (see FrameLoading); an action applies one to the       *)
(* current state. The loading threads run concurrently and post signals,   *)
(* which the main thread handles in the order in which they were posted.   *)
(*                                                                         *)
(* A definition with a suffix (timerEvent_NeverExpires) is a faulty variant*)
(* of the one without; nothing uses it.                                    *)
(***************************************************************************)
EXTENDS FrameLoading

CONSTANTS Ranges,           \* ranges an item with video may have
          InitialRange,     \* range of every item at the start
          StaticTicks,      \* how often the timer fires for a static item
          Continue,         \* ContinuePlaybackOnSequenceSelection
          Modes, Waits,     \* repeat modes and waiting for the cache, as they
                            \* were saved
          Ops, MaxOps       \* which user operations, and how many of them

ASSUME PlaybackAssumption ==
    /\ Ranges \subseteq Int \X Int
    /\ InitialRange \in [Item -> Ranges \cup {NoRange}]
    /\ \A i \in Item \ Indexed : InitialRange[i] = NoRange
    /\ StaticTicks \in Nat \ {0}
    /\ Continue \in BOOLEAN
    /\ Modes \subseteq {"Off", "One", "All"}
    /\ Waits \subseteq BOOLEAN
    /\ MaxOps \in Nat

VARIABLES player, selection, range, watching,   \* see FrameLoading
          job, queue, image, double, busy,
          posted,           \* signals posted to the main thread, oldest first
          ops

loadVars == <<job, queue, image, double, busy, posted>>
vars == <<player, selection, range, watching, loadVars, ops>>

LowerOf(m, n) == IF m <= n THEN m ELSE n
HigherOf(m, n) == IF m >= n THEN m ELSE n
-----------------------------------------------------------------------------
\* The frame that is shown, and its range.

IsIndexed(i) == i \in Indexed
anyItemIndexedByFrame(c) == \E s \in Slot : IsIndexed(c.p.item[s])

RangeOf(c, i) == IF i = None THEN NoRange ELSE c.range[i]

\* QAbstractSlider::setMaximum and setMinimum keep minimum <= maximum.
setMaximum(c, m) == [c EXCEPT !.p.max = m, !.p.min = LowerOf(@, m)]
setMinimum(c, m) == [c EXCEPT !.p.min = m, !.p.max = HigherOf(@, m)]

updateFrameRange(c) ==
    LET r == RangeOf(c, c.p.item[1])
        q == RangeOf(c, c.p.item[2])
        both == IF c.p.item[2] = None THEN r
                ELSE <<LowerOf(r[1], q[1]), LowerOf(r[2], q[2])>>
    IN  [setMinimum(setMaximum(c, both[2]), both[1]) EXCEPT !.p.controls = TRUE]

CanSetFrame(c, f) == f # c.p.frame /\ anyItemIndexedByFrame(c)

\* setCurrentFrameAndUpdate without and with the update of the view.
SetFrameQuietly(c, f) ==
    IF CanSetFrame(c, f) THEN [c EXCEPT !.p.frame = f] ELSE c
setCurrentFrameAndUpdate(c, f) ==
    IF CanSetFrame(c, f) THEN updateView([c EXCEPT !.p.frame = f]) ELSE {c}

\* The end is noticed one frame too late.
getNextFrameIndexInCurrentItem_OffByOne(c) ==
    IF c.p.frame <= c.p.max /\ anyItemIndexedByFrame(c) THEN {c.p.frame + 1}
    ELSE IF c.p.repeat = "One" THEN {c.p.min}
    ELSE {}

\* The next frame, if there is one, as a set.
getNextFrameIndexInCurrentItem(c) ==
    IF c.p.frame < c.p.max /\ anyItemIndexedByFrame(c) THEN {c.p.frame + 1}
    ELSE IF c.p.repeat = "One" THEN {c.p.min}
    ELSE {}
-----------------------------------------------------------------------------
\* Start, stop and wait.

\* A null item is dereferenced if nothing is selected.
startOrUpdateTimer(c) ==
    IF c.p.item[1] = None THEN [c EXCEPT !.p.aborted = "null"]
    ELSE [c EXCEPT !.p.timer = TRUE, !.p.mode = "Running",
                   !.p.tick = IF anyItemIndexedByFrame(c) THEN @ ELSE StaticTicks]

startPlayback(c) ==
    UNION {LET next == getNextFrameIndexInCurrentItem(d)
           IN  IF next = {} \/ d.p.aborted # "no" THEN {d}
               ELSE UNION {playbackStarted(d, f) : f \in next} :
             d \in {startOrUpdateTimer(c)}}

itemCachingFinished(c) ==
    IF c.p.mode = "WaitingForCache" THEN startPlayback(c) ELSE {c}

\* VideoCache::watchItemForCachingFinished: the wait is over at once if no frame
\* of the item is in the queue, which is known to the cache only.
watchItemForCachingFinished(c, i) ==
    {[c EXCEPT !.watch = i]} \cup {[d EXCEPT !.watch = None] : d \in itemCachingFinished(c)}

PositionOf(i) == CHOOSE n \in DOMAIN Order : Order[n] = i
hasNextItem(c) == c.sel[1] # None /\ PositionOf(c.sel[1]) < Len(Order)

\* on_playPauseButton_clicked while playback runs: nothing happens without item.
StopPlayback(c) ==
    IF c.p.item[1] = None THEN {c}
    ELSE updateView([c EXCEPT !.p.timer = FALSE, !.p.mode = "Stopped", !.watch = None])

\* on_playPauseButton_clicked while playback is stopped.
BeginPlayback(c) ==
    LET rewinds == c.p.frame >= c.p.max /\ c.p.repeat = "Off" /\ ~hasNextItem(c)
        before == IF rewinds THEN setCurrentFrameAndUpdate(c, c.p.min) ELSE {c}
        Start(d) ==
          IF d.p.wait
          THEN watchItemForCachingFinished(
                 [d EXCEPT !.p.mode = "WaitingForCache"], d.p.item[1])
          ELSE startPlayback(d)
    IN  IF c.p.item[1] = None THEN {c} ELSE UNION {Start(d) : d \in before}

on_playPauseButton_clicked(c) == IF playing(c) THEN StopPlayback(c) ELSE BeginPlayback(c)

pausePlayback(c) == IF playing(c) THEN StopPlayback(c) ELSE {c}

\* Playback is paused, and then frame f is selected.
PauseAt(c, f) == UNION {setCurrentFrameAndUpdate(d, f) : d \in pausePlayback(c)}
-----------------------------------------------------------------------------
\* Another selection.

\* No item with frames is selected.
SelectStatic(c, byPlayback) ==
    LET first == c.p.item[1]
        d == [c EXCEPT !.p.controls = FALSE, !.p.frame = NoFrame,
                       !.p.last = IF c.p.frame # NoFrame THEN c.p.frame ELSE @]
        e == IF first = None THEN d ELSE setMaximum(d, StaticTicks)
        goesOn == byPlayback \/ (Continue /\ playing(e))
    IN  IF first # None /\ goesOn /\ e.p.mode # "WaitingForCache"
        THEN updateView(startOrUpdateTimer(e)) ELSE updateView(e)

\* Playback goes on with the new items.
SelectPlaying(c, byPlayback) ==
    LET d == updateFrameRange(
               IF c.p.mode # "WaitingForCache" THEN startOrUpdateTimer(c) ELSE c)
    IN  IF ~byPlayback /\ d.p.frame >= d.p.max
        THEN setCurrentFrameAndUpdate(d, d.p.min) ELSE {d}

\* Playback is stopped: show the old frame of the new items, if they have it.
SelectStopped(c) ==
    LET d == updateFrameRange(c)
        restored == HigherOf(d.p.min, LowerOf(d.p.last, d.p.max))
    IN  IF <<d.p.min, d.p.max>> = NoRange
        THEN updateView(SetFrameQuietly(
               [d EXCEPT !.p.last = IF d.p.frame # NoFrame THEN d.p.frame ELSE @],
               NoFrame))
        ELSE IF d.p.frame = NoFrame /\ d.p.last # NoFrame
        THEN updateView(SetFrameQuietly([d EXCEPT !.p.last = restored], restored))
        ELSE IF d.p.frame < d.p.min
        THEN updateView(SetFrameQuietly(d, d.p.min))
        ELSE IF d.p.frame # NoFrame /\ d.p.last > d.p.max
        THEN updateView(SetFrameQuietly(d, d.p.max))
        ELSE updateView(d)

currentSelectedItemsChanged(c, byPlayback) ==
    LET Change(d) ==
          IF ~anyItemIndexedByFrame(d) THEN SelectStatic(d, byPlayback)
          ELSE IF playing(d) /\ (byPlayback \/ Continue)
          THEN SelectPlaying(d, byPlayback)
          ELSE SelectStopped(d)
    IN  UNION {Change([d EXCEPT !.p.item = d.sel]) :
                 d \in IF byPlayback \/ Continue THEN {c} ELSE pausePlayback(c)}

\* PlaylistTreeWidget::selectNextItem, called by playback, if it finds an item.
SelectNextItem(c) ==
    LET n == (PositionOf(c.sel[1]) % Len(Order)) + 1
    IN  currentSelectedItemsChanged([c EXCEPT !.sel = <<Order[n], None>>], TRUE)
-----------------------------------------------------------------------------
\* Playback.

\* The playlist starts again although it is not to be repeated.
goToNextItem_AlwaysWraps(c) ==
    LET d == IF c.p.wait
             THEN [c EXCEPT !.p.mode = "WaitingForCache", !.p.timer = FALSE] ELSE c
    IN  IF c.sel[1] = None THEN StopPlayback(d)
        ELSE UNION {setCurrentFrameAndUpdate(e, e.p.min) : e \in SelectNextItem(d)}

goToNextItem(c) ==
    LET finds == c.sel[1] # None /\ (hasNextItem(c) \/ c.p.repeat = "All")
        d == IF c.p.wait
             THEN [c EXCEPT !.p.mode = "WaitingForCache", !.p.timer = FALSE] ELSE c
        next == UNION {setCurrentFrameAndUpdate(e, e.p.min) : e \in SelectNextItem(d)}
    IN  IF ~finds THEN StopPlayback(d)
        ELSE IF c.p.wait
        THEN UNION {watchItemForCachingFinished(e, e.p.item[1]) : e \in next}
        ELSE next

\* The frames of the shown items are not loaded yet: playback stalls.
goToNextFrame(c, f) ==
    LET slow == [s \in Slot |-> /\ s = 1 \/ (Splitting /\ c.p.item[2] # None)
                                /\ isLoading(c, c.p.item[s])]
        d == [c EXCEPT !.p.waiting = slow]
    IN  IF \E s \in Slot : slow[s]
        THEN {[d EXCEPT !.p.timer = FALSE, !.p.mode = "Stalled"]}
        ELSE setCurrentFrameAndUpdate(d, f)

\* The countdown of a static item is not tested.
timerEvent_NeverExpires(c) ==
    LET next == getNextFrameIndexInCurrentItem(c)
    IN  IF ~anyItemIndexedByFrame(c) THEN {[c EXCEPT !.p.tick = @ - 1]}
        ELSE IF next # {} THEN UNION {goToNextFrame(c, f) : f \in next}
        ELSE goToNextItem(c)

timerEvent(c) ==
    LET next == getNextFrameIndexInCurrentItem(c)
    IN  IF ~anyItemIndexedByFrame(c)
        THEN IF c.p.tick > 1 THEN {[c EXCEPT !.p.tick = @ - 1]}
             ELSE goToNextItem([c EXCEPT !.p.tick = StaticTicks])
        ELSE IF next # {} THEN UNION {goToNextFrame(c, f) : f \in next}
        ELSE goToNextItem(c)

\* The mode is left as it is.
currentSelectedItemsDoubleBufferLoad_ModeKept(c, s) ==
    LET d == [c EXCEPT !.p.waiting[s] = FALSE]
    IN  IF c.p.mode # "Stalled" THEN {c}
        ELSE IF \E t \in Slot : d.p.waiting[t] THEN {d}
        ELSE timerEvent([d EXCEPT !.p.timer = TRUE])

\* The mode is Running in the end, whatever timerEvent made of it.
currentSelectedItemsDoubleBufferLoad(c, s) ==
    LET d == [c EXCEPT !.p.waiting[s] = FALSE]
    IN  IF c.p.mode # "Stalled" THEN {c}
        ELSE IF \E t \in Slot : d.p.waiting[t] THEN {d}
        ELSE {[e EXCEPT !.p.mode = "Running"] :
                e \in timerEvent([d EXCEPT !.p.timer = TRUE])}

selectionPropertiesChanged(c) ==
    LET d == IF c.p.controls THEN updateFrameRange(c) ELSE c
        f == HigherOf(d.p.min, LowerOf(d.p.frame, d.p.max))
    IN  IF CanSetFrame(d, f) THEN setCurrentFrameAndUpdate(d, f) ELSE updateView(d)
-----------------------------------------------------------------------------
\* The loading threads: LoadingWorker::processLoadingJobInternal and loadFrame
\* of an item with video.

Goto(s, phase) == job' = [job EXCEPT ![s].phase = phase]
Post(kind, x) == posted' = Append(posted, [kind |-> kind, of |-> x])
MainUnchanged == UNCHANGED <<player, selection, range, watching, queue, ops>>

Now ==
    [p |-> player, sel |-> selection, range |-> range, watch |-> watching,
     job |-> job, queue |-> queue, image |-> image, double |-> double, busy |-> busy]

\* What is needed is looked up once, before anything is loaded.
BeginLoad(s) ==
    LET j == job[s]
        need == HandlerNeeds(Now, j.item, j.frame)
    IN  /\ j.phase = "called"
        /\ \/ /\ need = "LoadingNeeded"
              /\ busy' = [busy EXCEPT !.frame = @ \cup {j.item}]
              /\ Goto(s, "frame")
           \/ /\ need = "LoadingNeededDoubleBuffer"
              /\ Goto(s, IF j.playing THEN "next" ELSE "done")
              /\ UNCHANGED busy
           \/ /\ need = "LoadingNotNeeded"
              /\ Goto(s, "done")
              /\ UNCHANGED busy
        /\ MainUnchanged /\ UNCHANGED <<image, double, posted>>

\* The frame is there: SignalItemChanged.
EndLoad(s) ==
    LET j == job[s]
    IN  /\ j.phase = "frame"
        /\ image' = [image EXCEPT ![j.item] = j.frame]
        /\ busy' = [busy EXCEPT !.frame = @ \ {j.item}]
        /\ Post("changed", j.item)
        /\ Goto(s, IF j.playing THEN "next" ELSE "done")
        /\ MainUnchanged /\ UNCHANGED double

\* The next frame, unless this is the last one.
BeginDoubleBuffer(s) ==
    LET j == job[s]
    IN  /\ j.phase = "next"
        /\ \/ /\ j.frame + 1 <= range[j.item][2]
              /\ busy' = [busy EXCEPT !.double = @ \cup {j.item}]
              /\ Goto(s, "double")
           \/ /\ j.frame + 1 > range[j.item][2]
              /\ Goto(s, "done")
              /\ UNCHANGED busy
        /\ MainUnchanged /\ UNCHANGED <<image, double, posted>>

\* signalItemDoubleBufferLoaded.
EndDoubleBuffer(s) ==
    LET j == job[s]
    IN  /\ j.phase = "double"
        /\ double' = [double EXCEPT ![j.item] = j.frame + 1]
        /\ busy' = [busy EXCEPT !.double = @ \ {j.item}]
        /\ Post("doubleLoaded", j.item)
        /\ Goto(s, "done")
        /\ MainUnchanged /\ UNCHANGED image

\* The worker drops the item: loadingFinished.
FinishLoad(s) ==
    /\ job[s].phase = "done"
    /\ job' = [job EXCEPT ![s] = [IdleJob EXCEPT !.phase = "reported"]]
    /\ Post("finished", s)
    /\ MainUnchanged /\ UNCHANGED <<image, double, busy>>

LoaderStep(s) ==
    \/ BeginLoad(s)
    \/ EndLoad(s)
    \/ BeginDoubleBuffer(s)
    \/ EndDoubleBuffer(s)
    \/ FinishLoad(s)
-----------------------------------------------------------------------------
\* The main thread. A slot ends in one of the outcomes.

Return(outcomes) ==
    /\ player.aborted = "no"
    /\ \E c \in outcomes :
         /\ player' = c.p
         /\ selection' = c.sel
         /\ range' = c.range
         /\ watching' = c.watch
         /\ job' = c.job
         /\ queue' = c.queue
         /\ image' = c.image
         /\ double' = c.double
    /\ UNCHANGED busy

\* The signals of the loading threads, oldest first.
Receives(kind) ==
    /\ posted # <<>>
    /\ Head(posted).kind = kind
    /\ posted' = Tail(posted)
    /\ UNCHANGED ops
Sender == Head(posted).of

SlotItemChanged ==
    /\ Receives("changed")
    /\ Return(IF \E s \in Slot : selection[s] = Sender
              THEN selectionPropertiesChanged(Now) ELSE {Now})

SlotItemDoubleBufferLoaded ==
    /\ Receives("doubleLoaded")
    /\ LET of == {s \in Slot : selection[s] = Sender}
       IN  Return(IF of = {} THEN {Now}
                  ELSE UNION {currentSelectedItemsDoubleBufferLoad(Now, s) : s \in of})

InteractiveLoaderFinished ==
    /\ Receives("finished")
    /\ Return({interactiveLoaderFinished(Now, Sender)})

Timer ==
    /\ player.timer
    /\ Return(timerEvent(Now))
    /\ UNCHANGED <<posted, ops>>

\* The cache has nothing to do any more for the item that is waited for.
CachingFinished ==
    /\ watching # None
    /\ Return({[c EXCEPT !.watch = None] : c \in itemCachingFinished(Now)})
    /\ UNCHANGED <<posted, ops>>

\* The items are drawn, at any time, but not while the cache is waited for.
Paint ==
    /\ player.mode # "WaitingForCache"
    /\ Return({DrawItem(DrawItem(Now, 1), 2)})
    /\ image' # image
    /\ UNCHANGED <<posted, ops>>
-----------------------------------------------------------------------------
\* The user.

Op(name) == name \in Ops /\ ops < MaxOps /\ ops' = ops + 1 /\ UNCHANGED posted

PlayPause == Op("play") /\ Return(on_playPauseButton_clicked(Now))

on_stopButton_clicked == Op("stop") /\ Return(PauseAt(Now, 0))

\* The slider, the buttons for the next and the previous frame.
on_frameSlider_valueChanged ==
    /\ Op("frame")
    /\ player.controls /\ <<player.min, player.max>> # NoRange
    /\ \E f \in player.min .. player.max : Return(PauseAt(Now, f))
nextFrame ==
    /\ Op("frame")
    /\ Return(IF player.frame < player.max
              THEN PauseAt(Now, player.frame + 1) ELSE pausePlayback(Now))
previousFrame ==
    /\ Op("frame")
    /\ Return(IF player.frame # player.min
              THEN PauseAt(Now, player.frame - 1) ELSE pausePlayback(Now))

NextMode == [Off |-> "One", One |-> "All", All |-> "Off"]
on_repeatModeButton_clicked ==
    /\ Op("repeat")
    /\ Return({[Now EXCEPT !.p.repeat = NextMode[@]]})

updateSettings ==
    /\ Op("settings")
    /\ Return({[Now EXCEPT !.p.wait = ~player.wait]})

Selections ==
    {<<None, None>>} \cup (Item \X {None}) \cup {sel \in Item \X Item : sel[1] # sel[2]}
Select ==
    /\ Op("select")
    /\ \E sel \in Selections \ {selection} :
         Return(currentSelectedItemsChanged([Now EXCEPT !.sel = sel], FALSE))

\* The user changes the format of a video, and with it the number of frames.
ChangeItem ==
    /\ Op("range")
    /\ \E i \in Indexed, r \in Ranges :
         LET c == [Now EXCEPT !.range[i] = r, !.image[i] = NoFrame]
         IN  Return(IF \E s \in Slot : selection[s] = i
                    THEN selectionPropertiesChanged(c) ELSE {c})
-----------------------------------------------------------------------------
Init ==
    /\ player \in [mode: {"Stopped"}, item: {<<None, None>>}, frame: {NoFrame},
                   last: {NoFrame}, min: {0}, max: {99}, controls: {FALSE},
                   timer: {FALSE}, waiting: {<<FALSE, FALSE>>}, tick: {0},
                   repeat: Modes, wait: Waits, aborted: {"no"}]
    /\ selection = <<None, None>>
    /\ range = InitialRange
    /\ watching = None
    /\ job = [s \in Slot |-> IdleJob]
    /\ queue = [s \in Slot |-> NoRequest]
    /\ image = [i \in Item |-> NoFrame]
    /\ double = [i \in Item |-> NoFrame]
    /\ busy = [frame |-> {}, double |-> {}]
    /\ posted = <<>>
    /\ ops = 0

MainStep ==
    \/ SlotItemChanged
    \/ SlotItemDoubleBufferLoaded
    \/ InteractiveLoaderFinished

UserStep ==
    \/ PlayPause
    \/ on_stopButton_clicked
    \/ on_frameSlider_valueChanged
    \/ nextFrame
    \/ previousFrame
    \/ on_repeatModeButton_clicked
    \/ updateSettings
    \/ Select
    \/ ChangeItem

Next ==
    \/ MainStep
    \/ Timer
    \/ CachingFinished
    \/ Paint
    \/ UserStep
    \/ \E s \in Slot : LoaderStep(s)

Spec == Init /\ [][Next]_vars

\* Signals are delivered, the timer fires, threads run; the wait for the cache
\* ends (VideoCache says when it does not). The user does as he likes.
FairSpec ==
    /\ Spec
    /\ WF_vars(MainStep)
    /\ WF_vars(Timer)
    /\ WF_vars(CachingFinished)
    /\ \A s \in Slot : WF_vars(LoaderStep(s))
-----------------------------------------------------------------------------
\* Properties.

\* The types of all variables.
TypeOK ==
    /\ player \in [mode: {"Stopped", "Running", "Stalled", "WaitingForCache"},
                   item: [Slot -> Item \cup {None}], frame: Int, last: Int,
                   min: Int, max: Int, controls: BOOLEAN, timer: BOOLEAN,
                   waiting: [Slot -> BOOLEAN], tick: Nat,
                   repeat: {"Off", "One", "All"}, wait: BOOLEAN,
                   aborted: {"no", "assert", "null"}]
    /\ selection \in [Slot -> Item \cup {None}]
    /\ range \in [Item -> Int \X Int]
    /\ watching \in Item \cup {None}
    /\ job \in [Slot -> [item: Item \cup {None}, frame: Int, playing: BOOLEAN,
                         phase: {"idle", "called", "frame", "next", "double",
                                 "done", "reported"}]]
    /\ queue \in [Slot -> [item: Item \cup {None}, frame: Int]]
    /\ image \in [Item -> Int]
    /\ double \in [Item -> Int]
    /\ busy \in [frame: SUBSET Item, double: SUBSET Item]
    /\ posted \in Seq([kind: {"changed", "doubleLoaded", "finished"}, of: Item \cup Slot])
    /\ ops \in 0 .. MaxOps

\* Running playback has a timer, so that it goes on.
RunningHasTimer == player.mode = "Running" => player.timer

\* Stalled playback knows for which item it waits.
StallHasReason == player.mode = "Stalled" => \E s \in Slot : player.waiting[s]

\* The other way round: the cache only reports to playback that waits.
WatchHasWait == watching # None => player.mode = "WaitingForCache"

\* The frame is one of the slider's range.
FrameInRange ==
    anyItemIndexedByFrame(Now) => player.frame \in player.min .. player.max

\* isFrameLoading holds while a thread loads a frame of the item.
BusyTellsTruth ==
    \A s \in Slot : job[s].phase = "frame" => job[s].item \in busy.frame

\* assert(nextFrameIdx >= 0) in playbackStarted, and no null item.
NothingAborts == player.aborted = "no"

\* Whoever sets the frame, the timer, the end of a stall or of a wait, a selection, an item
\* that changes or the user, sets it to one of the slider's range, whatever of these comes
\* in between. Only the button for the previous frame may find the frame behind the
\* range, and then goes towards it; the stop button goes to frame 0 in any case.
FrameIsSetInRange ==
    [][~on_stopButton_clicked /\ player'.frame \notin {player.frame, NoFrame} =>
         \/ player'.frame \in player'.min .. player'.max
         \/ previousFrame /\ player'.frame \in player'.max .. player.frame - 1]_vars

\* ... and so to a frame that the shown items have. Known to fail: the range of two items ends
\* with the shorter one, but begins with the lower of both first frames (updateFrameRange).
ShownItemsHaveFrame ==
    [][Timer /\ player'.frame \notin {player.frame, NoFrame} =>
         \A s \in Slot : IsIndexed(player'.item[s]) =>
            player'.frame \in range[player'.item[s]][1] .. range[player'.item[s]][2]]_vars

\* An image of the frame to be shown stays until another frame is wanted: the
\* main thread does not replace it.
ShownFrameStays ==
    [][\A s \in Slot :
         /\ Shown(Now, s) /\ selection[s] \in Indexed
         /\ image[selection[s]] = player.frame
         /\ UNCHANGED <<selection, range>> /\ player'.frame = player.frame
         => image'[selection[s]] = player.frame \/ \E t \in Slot : LoaderStep(t)]_vars

\* Playback that has stopped its timer goes on, waits for the cache or is stopped.
PlaybackGoesOn ==
    (player.mode \in {"Running", "Stalled"} /\ ~player.timer) ~>
        (player.timer \/ player.mode \in {"Stopped", "WaitingForCache"})

\* Playback that does not repeat does not go on for ever: it comes to the end of
\* the playlist, waits or stalls.
TimerRunsOut ==
    (player.timer /\ player.repeat = "Off") ~>
        (~player.timer \/ player.repeat # "Off")

\* The frame that the user selects is loaded in the end, unless he selects
\* another one.
Shows(i, f) == ~playing(Now) /\ selection[1] = i /\ player.frame = f /\ InRange(Now, i, f)
SelectedFrameIsLoaded ==
    \A i \in Indexed, f \in UNION {r[1] .. r[2] : r \in Ranges} :
      Shows(i, f) ~> (HasFrame(Now, i, f) \/ ~Shows(i, f))
=============================================================================
