----------------------------- MODULE VideoCache -----------------------------
(***************************************************************************)
(* class VideoCache with its LoadingThreads and LoadingWorkers: a pool of  *)
(* threads that fill the caches of the items in the background, and two    *)
(* threads that load frames the user is looking at.                        *)
(*                                                                         *)
(* All methods of VideoCache run on the main thread, one after the other;  *)
(* the workers run concurrently and report through a signal that the main  *)
(* thread handles later. A worker that is `working' without an item has    *)
(* posted that signal. A method that calls others, or that goes through a  *)
(* list of threads and gives each of them work, takes several steps here:  *)
(* `calls', `grow' and `filling' are what is left of the method the main   *)
(* thread is in, and no other method starts before they are done.          *)
(*                                                                         *)
(* A definition with a suffix (Deletable_WhenIdle) is a faulty variant of  *)
(* the one after it, which shows that a property notices the fault; nothing*)
(* uses it.                                                                *)
(***************************************************************************)
EXTENDS PlaylistItems

CONSTANTS Thread,           \* what can become a caching thread
          Slot, FirstSlot,  \* the two interactive threads; the one that loads the
                            \* first selected item
          Settings,         \* the settings the user chooses from
          InitialSettings,
          TestLoops,        \* length of the conversion test, in the code 1000
          Ops, MaxOps,      \* which user operations, and how many of them
          Plan(_)           \* the planner, see CachePlan

NoFrame == -1

\* What the planner is called with.
PlanInput == PlanInputs({s.max : s \in Settings})

ASSUME PoolAssumption ==
    /\ IsFiniteSet(Thread)
    /\ Thread \cap Slot = {}
    /\ FirstSlot \in Slot
    /\ Settings \subseteq [enabled: BOOLEAN, max: Nat, nrThreads: Int,
                           nrPlayback: Int, wait: BOOLEAN]
    /\ InitialSettings \in Settings
    /\ TestLoops \in Nat
    /\ MaxOps \in Nat

\* The planner of CachePlan is one of these (CachePlanProofs).
ASSUME PlannerAssumption == \A in \in PlanInput : SoundPlan(in, Plan(in))

VARIABLES
    listed, selected,       \* PlaylistTreeWidget: items in the tree, the selection
    tagged, destroyed,      \* items tagged for deletion; deleted (deleteLater)
    playMode,               \* PlaybackController::playbackMode
    settings,               \* cachingEnabled, cacheLevelMax, nrThreadsPlayback, ...
    queue, deq, level,      \* cacheQueue, cacheDeQueue, cacheLevelCurrent
    cached,                 \* the frames in the cache of each item
    outdated,               \* items with cached frames from before their last change
    workersState,
    threads, deleteNr,      \* cachingThreadList, deleteNrThreads
    worker,                 \* the worker of every thread, caching and interactive
    slotQueue,              \* interactiveItemQueued and interactiveItemQueued_Idx
    itemsToDelete, itemsToClear,
    watching,               \* watchingItem
    testItem, testLoop,     \* testItem (None: not testMode), testLoopCount
    dialog,                 \* testProgressDialog: none, open or cancelled
    aborted,                \* an assert() failed and the program ended
    calls, grow,            \* the main thread: calls still to be made, threads
    filling, left, started, \* still to be created, the loop of startCaching
    ops

playlistVars == <<listed, selected, tagged, destroyed, playMode, settings>>
queueVars == <<queue, deq, level>>
cacheVars == <<cached, outdated>>
poolVars == <<workersState, threads, deleteNr>>
listVars == <<itemsToDelete, itemsToClear, watching>>
testVars == <<testItem, testLoop, dialog, aborted>>
fillVars == <<filling, left, started>>
vars == <<playlistVars, queueVars, cacheVars, poolVars, worker, slotQueue,
          listVars, testVars, calls, grow, fillVars, ops>>
-----------------------------------------------------------------------------
Call(op, i) == [op |-> op, item |-> i]
Schedule == <<Call("schedule", None)>>

IdleWorker == [working |-> FALSE, item |-> None, frame |-> NoFrame,
               test |-> FALSE, old |-> FALSE]
\* The worker dropped its item and posted loadingFinished.
PostedWorker == [IdleWorker EXCEPT !.working = TRUE]
\* setJob and setWorking(true).
Busy(i, f, test) == [working |-> TRUE, item |-> i, frame |-> f,
                     test |-> test, old |-> FALSE]
\* The item changes while the worker is at it.
Outdate(w) == [working |-> w.working, item |-> w.item, frame |-> w.frame,
               test |-> w.test, old |-> TRUE]
NoRequest == [item |-> None, frame |-> NoFrame]

playing == playMode # "Stopped"
testMode == testItem # None
targetNrThreads(s) ==
    CASE ~s.enabled -> 0
      [] s.enabled /\ s.nrThreads <= 0 -> 1
      [] OTHER -> s.nrThreads

\* isCachable(): a tagged item is not cached any more.
Cachable == CachableItem \ tagged

WorkingIn(w) == {t \in threads : w[t].working}
CachedBy(i, w) == {t \in threads : w[t].item = i}
LoadedBy(i, w) == {s \in Slot : w[s].item = i}
Queued(i) == \E k \in DOMAIN queue : queue[k].item = i

\* The main thread is in its event loop.
InEventLoop == ~filling /\ grow = 0 /\ calls = <<>> /\ aborted = "no"
-----------------------------------------------------------------------------
Init ==
    /\ listed = {Order[k] : k \in DOMAIN Order}
    /\ selected \in listed
    /\ tagged = {} /\ destroyed = {}
    /\ playMode = "Stopped"
    /\ settings = InitialSettings
    /\ queue = <<>> /\ deq = <<>> /\ level = 0
    /\ cached = [i \in Item |-> {}]
    /\ outdated = {}
    /\ workersState = "Idle"
    /\ threads = {} /\ deleteNr = 0
    /\ worker = [t \in Thread \cup Slot |-> IdleWorker]
    /\ slotQueue = [s \in Slot |-> NoRequest]
    /\ itemsToDelete = {} /\ itemsToClear = {} /\ watching = None
    /\ testItem = None /\ testLoop = 0 /\ dialog = "none" /\ aborted = "no"
    \* the constructor ends with updateSettings()
    /\ grow = targetNrThreads(InitialSettings) /\ calls = Schedule
    /\ filling = FALSE /\ left = {} /\ started = FALSE
    /\ ops = 0
-----------------------------------------------------------------------------
\* updateCacheQueue with c as the cached frames. Nothing happens if caching is
\* disabled: the old queues stay.
MakePlan(c, sel, play) ==
    \E plan \in {Plan([listed |-> listed, cachable |-> Cachable, sel |-> sel,
                      play |-> play, max |-> settings.max, cached |-> c])} :
        /\ queue' = plan.queue /\ deq' = plan.deq
        /\ cached' = plan.cached /\ level' = plan.level

UpdateCacheQueue_ReturnsEarly(c, sel, play) ==
    IF settings.enabled /\ listed # {}
      THEN MakePlan(c, sel, play)
      ELSE cached' = c /\ UNCHANGED queueVars

UpdateCacheQueue(c, sel, play) ==
    \/ /\ ~settings.enabled
       /\ cached' = c /\ UNCHANGED queueVars
    \/ /\ settings.enabled /\ listed = {}
       /\ cached' = c /\ queue' = <<>> /\ deq' = <<>> /\ UNCHANGED level
    \/ /\ settings.enabled /\ listed # {}
       /\ MakePlan(c, sel, play)

\* startCaching: go through all threads and push a job to each.
StartCaching_AllThreads ==
    filling' = TRUE /\ left' = threads \cup Slot /\ started' = FALSE

StartCaching == filling' = TRUE /\ left' = threads /\ started' = FALSE

\* Playback shows an item that is indexed by frame: only nrThreadsPlayback
\* threads may work, unless playback itself waits for the cache.
PlaybackLimits(w, watch, play) ==
    /\ play /\ watch = None
    /\ selected \in IndexedByFrame
    /\ settings.nrPlayback <= Cardinality(WorkingIn(w))

Startable_LimitExceeded(job, w) ==
    /\ job.item \in Cachable
    /\ \/ ThreadLimit[job.item] = -1
       \/ Cardinality({t \in WorkingIn(w) : w[t].item = job.item})
            <= ThreadLimit[job.item]

Startable(job, w) ==
    /\ job.item \in Cachable
    /\ \/ ThreadLimit[job.item] = -1
       \/ Cardinality({t \in WorkingIn(w) : w[t].item = job.item})
            < ThreadLimit[job.item]

\* The memory that the first n frames of cacheDeQueue take.
DequeuedSpace[n \in 0 .. Len(deq)] ==
    IF n = 0 THEN 0 ELSE DequeuedSpace[n - 1] + FrameSize[deq[n][1]]

\* Jobs of items that cannot be cached any more are dropped.
WithoutUncachable(jobs) == Part(jobs, {k \in DOMAIN jobs : jobs[k].item \in Cachable})

\* There is no space even when nothing more can be removed.
Overflows_ByOne(space) == space > settings.max + 1
Overflows(space) == space > settings.max

\* pushNextJobToCachingThread outside of the test, with w as the workers and c
\* as the cached frames. It takes the next frame of the first job that can be
\* started; uncachable jobs before it are dropped. The frame is gone from the
\* queue even if no space can be made for it.
PushJob(t, w, c, watch, play) ==
    \/ /\ queue = <<>> \/ PlaybackLimits(w, watch, play)
       /\ worker' = w /\ cached' = c
       /\ UNCHANGED queueVars
    \/ /\ queue # <<>> /\ ~PlaybackLimits(w, watch, play)
       /\ \A k \in DOMAIN queue : ~Startable(queue[k], w)
       /\ queue' = WithoutUncachable(queue)
       /\ worker' = w /\ cached' = c
       /\ UNCHANGED <<deq, level>>
    \/ /\ queue # <<>> /\ ~PlaybackLimits(w, watch, play)
       /\ \E k \in DOMAIN queue :
            /\ Startable(queue[k], w)
            /\ \A m \in 1 .. k - 1 : ~Startable(queue[m], w)
            /\ LET job  == queue[k]
                   size == FrameSize[job.item]
                   rest == IF job.first = job.last THEN <<>>
                           ELSE <<[job EXCEPT !.first = @ + 1]>>
                   Space(n) == level - DequeuedSpace[n] + size
               IN  /\ queue' = WithoutUncachable(SubSeq(queue, 1, k - 1))
                               \o rest \o SubSeq(queue, k + 1, Len(queue))
                   /\ \E n \in 0 .. Len(deq) :
                        /\ n = Len(deq) \/ Space(n) < settings.max
                        /\ \A m \in 0 .. n - 1 : Space(m) >= settings.max
                        /\ deq' = SubSeq(deq, n + 1, Len(deq))
                        /\ cached' = [i \in Item |-> c[i] \
                             {deq[m][2] : m \in {x \in 1 .. n : deq[x][1] = i}}]
                        /\ IF n = Len(deq) /\ Overflows(Space(n))
                             THEN /\ level' = level - DequeuedSpace[n]
                                  /\ worker' = w
                             ELSE /\ level' = Space(n)
                                  /\ worker' = [w EXCEPT
                                       ![t] = Busy(job.item, job.first, FALSE)]

\* pushNextJobToCachingThread in the conversion test.
PushTestJob(t, w) ==
    LET first == FirstFrame[testItem]
        frame == first + ((TestLoops - testLoop) % (LastFrame[testItem] - first))
    IN  /\ worker' = [w EXCEPT ![t] = Busy(testItem, frame, TRUE)]
        /\ testLoop' = testLoop - 1
        /\ UNCHANGED <<queueVars, cached>>

Push(t, w, c, watch, play) ==
    IF testMode THEN PushTestJob(t, w)
                ELSE PushJob(t, w, c, watch, play) /\ UNCHANGED testLoop
-----------------------------------------------------------------------------
\* One thread in the loop of startCaching; the state of the workers is set when
\* all threads were tried.
FillThread_LastOnly(t) ==
    /\ filling /\ t \in left
    /\ Push(t, worker, cached, watching, playing)
    /\ left' = left \ {t}
    /\ started' = worker'[t].working
    /\ UNCHANGED <<filling, playlistVars, outdated, poolVars, slotQueue, listVars,
                   testItem, dialog, aborted, calls, grow, ops>>

FillThread(t) ==
    /\ filling /\ t \in left
    /\ Push(t, worker, cached, watching, playing)
    /\ left' = left \ {t}
    /\ started' = (started \/ worker'[t].working)
    /\ UNCHANGED <<filling, playlistVars, outdated, poolVars, slotQueue, listVars,
                   testItem, dialog, aborted, calls, grow, ops>>

FillDone_AlwaysRunning ==
    /\ filling /\ left = {}
    /\ workersState' = "Running"
    /\ filling' = FALSE /\ started' = FALSE
    /\ UNCHANGED <<left, playlistVars, queueVars, cacheVars, threads, deleteNr, worker,
                   slotQueue, listVars, testVars, calls, grow, ops>>

FillDone ==
    /\ filling /\ left = {}
    /\ workersState' = IF started THEN "Running" ELSE "Idle"
    /\ filling' = FALSE /\ started' = FALSE
    /\ UNCHANGED <<left, playlistVars, queueVars, cacheVars, threads, deleteNr, worker,
                   slotQueue, listVars, testVars, calls, grow, ops>>

\* startWorkerThreads creates one thread; it gets a job if caching is running.
StartWorkerThread(t) ==
    /\ ~filling /\ grow > 0
    /\ t \in Thread \ threads
    /\ threads' = threads \cup {t}
    /\ grow' = grow - 1
    /\ IF workersState = "Running"
         THEN Push(t, worker, cached, watching, playing)
         ELSE UNCHANGED <<worker, queueVars, cached, testLoop>>
    /\ UNCHANGED <<playlistVars, outdated, workersState, deleteNr, slotQueue, listVars,
                   testItem, dialog, aborted, calls, fillVars, ops>>

\* The main thread makes the next call of the method it is in.
Calling(op) ==
    /\ ~filling /\ grow = 0 /\ aborted = "no"
    /\ calls # <<>> /\ Head(calls).op = op

scheduleCachingListUpdate ==
    /\ Calling("schedule")
    /\ calls' = Tail(calls)
    /\ \/ /\ workersState \in {"Running", "IntReqRestart"}
          /\ workersState' = "IntReqRestart"
          /\ UNCHANGED <<queueVars, cached, fillVars, aborted>>
       \/ /\ workersState = "Idle" /\ settings.enabled
          /\ UpdateCacheQueue(cached, selected, playing)
          /\ StartCaching
          /\ UNCHANGED <<workersState, aborted>>
       \/ /\ workersState = "Idle" /\ ~settings.enabled
          /\ UNCHANGED <<workersState, queueVars, cached, fillVars, aborted>>
       \* assert(workersState == workersIdle)
       \/ /\ workersState = "IntReqStop"
          /\ aborted' = "schedule"
          /\ UNCHANGED <<workersState, queueVars, cached, fillVars>>
    /\ UNCHANGED <<playlistVars, outdated, threads, deleteNr, worker, slotQueue, listVars,
                   testItem, testLoop, dialog, grow, ops>>

\* itemCachingFinished starts playback if playback waits for the cache.
ModeAfterWait(over) ==
    IF over /\ playMode = "WaitingForCache" THEN "Running" ELSE playMode

watchItemForCachingFinished ==
    /\ Calling("watch")
    /\ calls' = Tail(calls)
    /\ LET item == Head(calls).item
       IN  \/ /\ ~Queued(item)
              /\ playMode' = ModeAfterWait(TRUE)
              /\ watching' = None
              /\ UNCHANGED fillVars
           \/ /\ Queued(item)
              /\ watching' = item
              /\ IF workersState = "Idle" THEN StartCaching ELSE UNCHANGED fillVars
              /\ UNCHANGED playMode
    /\ UNCHANGED <<listed, selected, tagged, destroyed, settings, queueVars, cacheVars,
                   poolVars, worker, slotQueue, itemsToDelete, itemsToClear, testVars,
                   grow, ops>>
-----------------------------------------------------------------------------
\* pausePlayback, and the cache forgets the item it watches.
PausePlayback_RunningOnly ==
    IF playMode = "Running"
      THEN playMode' = "Stopped" /\ watching' = None
      ELSE UNCHANGED <<playMode, watching>>

PausePlayback ==
    /\ playMode' = "Stopped"
    /\ watching' = IF playing THEN None ELSE watching

\* The playlist deletes an item. It is tagged; if it is selected the selection
\* changes while the item is still in the tree, which pauses playback.
TagItem ==
    /\ Calling("tag")
    /\ LET i == Head(calls).item
       IN  /\ tagged' = tagged \cup {i}
           /\ IF i = selected
                THEN /\ selected' = None
                     /\ PausePlayback
                     /\ calls' = Schedule \o Tail(calls)
                ELSE calls' = Tail(calls) /\ UNCHANGED <<selected, playMode, watching>>
    /\ UNCHANGED <<listed, destroyed, settings, queueVars, cacheVars, poolVars, worker,
                   slotQueue, itemsToDelete, itemsToClear, testVars, grow, fillVars, ops>>

\* The item leaves the tree. It is deleted at once, unless a thread holds it.
itemAboutToBeDeleted ==
    /\ Calling("aboutToBeDeleted")
    /\ calls' = Tail(calls)
    /\ LET i == Head(calls).item
           cachingItem == workersState # "Idle" /\ CachedBy(i, worker) # {}
           loadingItem == LoadedBy(i, worker) # {}
       IN  /\ listed' = listed \ {i}
           /\ IF cachingItem \/ loadingItem
                THEN /\ itemsToDelete' = itemsToDelete \cup {i}
                     /\ UNCHANGED <<destroyed, slotQueue>>
                ELSE /\ destroyed' = destroyed \cup {i}
                     /\ slotQueue' = [s \in Slot |-> IF slotQueue[s].item = i
                                         THEN NoRequest ELSE slotQueue[s]]
                     /\ UNCHANGED itemsToDelete
    /\ workersState' = IF workersState # "Idle" THEN "IntReqRestart" ELSE "Idle"
    /\ UNCHANGED <<selected, tagged, playMode, settings, queueVars, cacheVars, threads,
                   deleteNr, worker, itemsToClear, watching, testVars, grow, fillVars, ops>>
-----------------------------------------------------------------------------
\* The workers, each in its own thread. cacheFrame puts a frame into the cache
\* unless it is out of range or the job is a test; then the item is dropped.
processCacheJobInternal(t) ==
    LET w == worker[t]
        kept == ~w.test /\ w.item \notin destroyed /\ w.frame \in FrameRange(w.item)
    IN  /\ aborted = "no" /\ t \in threads /\ w.item # None
        /\ cached' = IF kept THEN [cached EXCEPT ![w.item] = @ \cup {w.frame}] ELSE cached
        /\ outdated' = IF kept /\ w.old THEN outdated \cup {w.item} ELSE outdated
        /\ worker' = [worker EXCEPT ![t] = PostedWorker]
        /\ UNCHANGED <<playlistVars, queueVars, poolVars, slotQueue, listVars, testVars,
                       calls, grow, fillVars, ops>>

processLoadingJobInternal(s) ==
    /\ aborted = "no" /\ worker[s].item # None
    /\ worker' = [worker EXCEPT ![s] = PostedWorker]
    /\ UNCHANGED <<playlistVars, queueVars, cacheVars, poolVars, slotQueue, listVars,
                   testVars, calls, grow, fillVars, ops>>

\* The items to be deleted that no thread holds any more.
Deletable_OthersForgotten(w) == {i \in itemsToDelete : LoadedBy(i, w) = {}}
Deletable_WhenIdle(w) ==
    {i \in itemsToDelete : workersState = "Idle" /\ LoadedBy(i, w) = {}}
Deletable(w) ==
    {i \in itemsToDelete : CachedBy(i, w) = {} /\ LoadedBy(i, w) = {}}

\* The items to be cleared that no caching thread holds any more.
Clearable_OthersForgotten(w) == itemsToClear
Clearable(w) == {i \in itemsToClear : CachedBy(i, w) = {}}

\* A request can be loaded if there is one and its frame is not negative.
Loadable_NotFirst(request) == request.item # None /\ request.frame > 0
Loadable(request) == request.item # None /\ request.frame >= 0

\* The signal of an interactive worker: items are deleted (and forgotten by this
\* slot), then the request that waits in this slot is started.
interactiveLoaderFinished(s) ==
    LET gone == Deletable(worker)
        next == IF slotQueue[s].item \in gone THEN NoRequest ELSE slotQueue[s]
        start == Loadable(next)
    IN  /\ InEventLoop /\ worker[s] = PostedWorker
        /\ destroyed' = destroyed \cup gone
        /\ itemsToDelete' = itemsToDelete \ gone
        /\ worker' = [worker EXCEPT ![s] =
                        IF start THEN Busy(next.item, next.frame, FALSE) ELSE IdleWorker]
        /\ slotQueue' = [slotQueue EXCEPT ![s] = IF start THEN NoRequest ELSE next]
        /\ UNCHANGED <<listed, selected, tagged, playMode, settings, queueVars, cacheVars,
                       poolVars, itemsToClear, watching, testVars, calls, grow, fillVars, ops>>

\* testFinished, and then caching goes on with a new plan.
testFinished_DialogKept ==
    /\ testItem' = None /\ UNCHANGED dialog
    /\ UpdateCacheQueue(cached, selected, playing)
    /\ StartCaching

testFinished ==
    /\ testItem' = None /\ dialog' = "none"
    /\ UpdateCacheQueue(cached, selected, playing)
    /\ StartCaching

\* threadCachingFinished while the conversion test is on.
TestCachingFinished(t) ==
    LET w == [worker EXCEPT ![t] = IdleWorker]
        jobsRunning == WorkingIn(w) # {}
    IN  /\ InEventLoop /\ t \in threads /\ worker[t] = PostedWorker /\ testMode
        /\ \/ /\ workersState = "IntReqRestart"
              /\ worker' = w
              /\ IF jobsRunning THEN UNCHANGED fillVars ELSE StartCaching
              /\ UNCHANGED <<queueVars, cached, testItem, testLoop, dialog>>
           \/ /\ workersState = "IntReqStop" \/ (workersState = "Running" /\ testLoop < 0)
              /\ worker' = w
              /\ UNCHANGED testLoop
              /\ IF jobsRunning
                   THEN UNCHANGED <<fillVars, queueVars, cached, testItem, dialog>>
                   ELSE testFinished
           \/ /\ workersState = "Running" /\ testLoop >= 0
              /\ PushTestJob(t, w)
              /\ UNCHANGED <<testItem, dialog, fillVars>>
        /\ UNCHANGED <<playlistVars, outdated, poolVars, slotQueue, listVars, aborted,
                       calls, grow, ops>>

\* The last thread has finished after an interruption: the queue is updated.
Restarts_WithoutWaiting(w) == workersState = "IntReqRestart"
Restarts(w) == workersState = "IntReqRestart" /\ WorkingIn(w) = {}

\* threadCachingFinished otherwise: delete and clear what was waiting for this
\* thread, end a wait of playback, then drop the thread, give it the next job,
\* or leave it; the last one to finish ends the run or starts the next.
threadCachingFinished(t) ==
    LET w     == [worker EXCEPT ![t] = IdleWorker]
        gone  == Deletable(w)
        clear == Clearable(w)
        c     == [i \in Item |-> IF i \in clear THEN {} ELSE cached[i]]
        over  == watching # None /\ ~Queued(watching)
    IN  /\ InEventLoop /\ t \in threads /\ worker[t] = PostedWorker /\ ~testMode
        /\ destroyed' = destroyed \cup gone
        /\ itemsToDelete' = itemsToDelete \ gone
        /\ slotQueue' = [s \in Slot |-> IF slotQueue[s].item \in gone
                                          THEN NoRequest ELSE slotQueue[s]]
        /\ itemsToClear' = itemsToClear \ clear
        /\ outdated' = outdated \ clear
        /\ playMode' = ModeAfterWait(over)
        /\ watching' = IF over THEN None ELSE watching
        /\ \/ /\ deleteNr > 0
              /\ threads' = threads \ {t} /\ deleteNr' = deleteNr - 1
           \/ /\ deleteNr = 0
              /\ UNCHANGED <<threads, deleteNr>>
        /\ \/ /\ workersState = "Running" /\ deleteNr = 0
              /\ PushJob(t, w, c, watching', playMode' # "Stopped")
              /\ workersState' = IF WorkingIn(worker') = {} THEN "Idle" ELSE "Running"
              /\ UNCHANGED fillVars
           \/ /\ workersState # "Running" \/ deleteNr > 0
              /\ worker' = w
              /\ \/ /\ Restarts(w)
                    /\ UpdateCacheQueue(c, selected, playMode' # "Stopped")
                    /\ filling' = TRUE /\ left' = threads' /\ started' = FALSE
                    /\ UNCHANGED workersState
                 \/ /\ ~Restarts(w)
                    /\ cached' = c
                    /\ workersState' = IF WorkingIn(w) = {} THEN "Idle" ELSE workersState
                    /\ UNCHANGED queueVars
                    /\ UNCHANGED fillVars
        /\ UNCHANGED <<listed, selected, tagged, settings, testVars, calls, grow, ops>>
-----------------------------------------------------------------------------
\* What the user does. The progress dialog of the test is modal.
UserOp(name) ==
    /\ InEventLoop /\ name \in Ops /\ ops < MaxOps
    /\ ops' = ops + 1

\* loadFrame, called by the view for the items it shows.
loadFrame(i, f, s) ==
    /\ UserOp("load")
    /\ i \in listed \ tagged
    /\ (s = FirstSlot) <=> (i = selected)
    /\ IF i \in IndexedByFrame THEN f \in FrameRange(i) ELSE f = NoFrame
    /\ \/ /\ worker[s].working
          /\ worker[s].item # i \/ worker[s].frame # f
          /\ slotQueue' = [slotQueue EXCEPT ![s] = [item |-> i, frame |-> f]]
          /\ UNCHANGED worker
       \/ /\ ~worker[s].working
          /\ worker' = [worker EXCEPT ![s] = Busy(i, f, FALSE)]
          /\ UNCHANGED slotQueue
    /\ UNCHANGED <<playlistVars, queueVars, cacheVars, poolVars, listVars, testVars, calls,
                   grow, fillVars>>

\* slotSelectionChanged: another item is selected: playback is paused, the cache is told.
SelectItem(i) ==
    /\ UserOp("select") /\ dialog # "open"
    /\ i \in listed \ {selected}
    /\ selected' = i
    /\ PausePlayback
    /\ calls' = Schedule
    /\ UNCHANGED <<listed, tagged, destroyed, settings, queueVars, cacheVars, poolVars,
                   worker, slotQueue, itemsToDelete, itemsToClear, testVars, grow, fillVars>>

\* deletePlaylistItems: the selected item, or all of them one after the other.
deletePlaylistItems(all) ==
    LET items == ItemList(IF all THEN listed ELSE {selected} \cap listed)
    IN  /\ UserOp("delete") /\ dialog # "open"
        /\ items # <<>>
        /\ calls' = [k \in 1 .. 2 * Len(items) |->
                        Call(IF k % 2 = 1 THEN "tag" ELSE "aboutToBeDeleted",
                             items[(k + 1) \div 2])] \o Schedule
        /\ UNCHANGED <<playlistVars, queueVars, cacheVars, poolVars, worker, slotQueue,
                       listVars, testVars, grow, fillVars>>

\* itemNeedsRecache. With RECACHE_CLEAR all that is cached of the item, and all
\* that is being cached, shows the item as it was before the change.
itemNeedsRecache(i, clear) ==
    LET held == workersState # "Idle" /\ CachedBy(i, worker) # {}
    IN  /\ UserOp("recache") /\ dialog # "open"
        /\ i \in listed
        /\ \/ /\ ~clear
              /\ calls' = Schedule
              /\ UNCHANGED <<worker, cached, outdated, itemsToClear, workersState>>
           \/ /\ clear
              /\ worker' = [t \in DOMAIN worker |->
                              IF worker[t].item = i /\ t \in threads
                                THEN Outdate(worker[t]) ELSE worker[t]]
              /\ IF held
                   THEN /\ itemsToClear' = itemsToClear \cup {i}
                        /\ outdated' = IF cached[i] = {} THEN outdated ELSE outdated \cup {i}
                        /\ UNCHANGED cached
                   ELSE /\ cached' = [cached EXCEPT ![i] = {}]
                        /\ outdated' = outdated \ {i}
                        /\ UNCHANGED itemsToClear
              /\ IF workersState # "Idle"
                   THEN workersState' = "IntReqRestart" /\ UNCHANGED calls
                   ELSE calls' = Schedule /\ UNCHANGED workersState
        /\ UNCHANGED <<playlistVars, queueVars, threads, deleteNr, slotQueue, itemsToDelete,
                       watching, testVars, grow, fillVars>>
-----------------------------------------------------------------------------
\* updateSettings: threads are created, or those that are not working are
\* removed and the rest is left to threadCachingFinished.
updateSettings(s) ==
    LET surplus == Cardinality(threads) - targetNrThreads(s)
        idle    == threads \ WorkingIn(worker)
    IN  /\ UserOp("settings") /\ dialog # "open"
        /\ s \in Settings \ {settings}
        /\ settings' = s
        /\ grow' = IF surplus < 0 THEN -surplus ELSE 0
        /\ \/ /\ surplus <= 0
              /\ UNCHANGED <<threads, deleteNr>>
           \/ /\ surplus > 0 /\ surplus <= Cardinality(idle)
              /\ \E R \in SUBSET idle :
                   Cardinality(R) = surplus /\ threads' = threads \ R
              /\ UNCHANGED deleteNr
           \/ /\ surplus > 0 /\ surplus > Cardinality(idle)
              /\ threads' = threads \ idle
              /\ deleteNr' = surplus - Cardinality(idle)
        /\ calls' = Schedule
        /\ UNCHANGED <<listed, selected, tagged, destroyed, playMode, queueVars, cacheVars,
                       workersState, worker, slotQueue, listVars, testVars, fillVars>>

\* on_playPauseButton_clicked: signalPlaybackStarting makes a new plan while the
\* mode is still Stopped, then playback starts or waits for the selected item.
StartPlayback ==
    LET wait == settings.enabled /\ settings.wait
    IN  /\ UserOp("play") /\ dialog # "open"
        /\ ~playing /\ selected # None
        /\ UpdateCacheQueue(cached, selected, FALSE)
        /\ playMode' = IF wait THEN "WaitingForCache" ELSE "Running"
        /\ calls' = IF wait THEN <<Call("watch", selected)>> ELSE <<>>
        /\ UNCHANGED <<listed, selected, tagged, destroyed, settings, outdated, poolVars,
                       worker, slotQueue, listVars, testVars, grow, fillVars>>

StopPlayback ==
    /\ UserOp("play") /\ dialog # "open"
    /\ playing /\ selected # None
    /\ PausePlayback
    /\ UNCHANGED <<listed, selected, tagged, destroyed, settings, queueVars, cacheVars,
                   poolVars, worker, slotQueue, itemsToDelete, itemsToClear, testVars,
                   calls, grow, fillVars>>

\* goToNextItem: playback reached the end of the selected item. It goes on with
\* the next one, or with the first (RepeatMode All), or stops.
GoToNextItem ==
    LET items == ItemList(listed)
        pos   == CHOOSE p \in DOMAIN items : items[p] = selected
        wait  == settings.enabled /\ settings.wait
        Select(i) ==
          /\ selected' = i
          /\ playMode' = IF wait THEN "WaitingForCache" ELSE "Running"
          /\ calls' = Schedule \o (IF wait THEN <<Call("watch", i)>> ELSE <<>>)
          /\ UNCHANGED watching
    IN  /\ UserOp("next") /\ playMode = "Running" /\ selected # None
        /\ \/ pos < Len(items) /\ Select(items[pos + 1])
           \/ pos = Len(items) /\ Select(items[1])
           \/ /\ pos = Len(items)
              /\ playMode' = "Stopped" /\ watching' = None
              /\ UNCHANGED <<selected, calls>>
        /\ UNCHANGED <<listed, tagged, destroyed, settings, queueVars, cacheVars, poolVars,
                       worker, slotQueue, itemsToDelete, itemsToClear, testVars, grow, fillVars>>

\* testConversionSpeed. Items of one frame are left out: the code computes the
\* frame to convert modulo their number of frames minus one.
testConversionSpeed ==
    /\ UserOp("test") /\ dialog # "open"
    /\ selected \in CachableItem /\ FirstFrame[selected] < LastFrame[selected]
    /\ testItem' = selected
    /\ PausePlayback
    /\ \/ /\ dialog = "none"
          /\ dialog' = "open" /\ testLoop' = TestLoops
          /\ IF workersState = "Idle"
               THEN StartCaching /\ UNCHANGED workersState
               ELSE workersState' = "IntReqRestart" /\ UNCHANGED fillVars
          /\ UNCHANGED aborted
       \* assert(testProgressDialog.isNull())
       \/ /\ dialog = "cancelled"
          /\ aborted' = "dialog"
          /\ UNCHANGED <<dialog, testLoop, workersState, fillVars>>
    /\ UNCHANGED <<listed, selected, tagged, destroyed, settings, queueVars, cacheVars,
                   threads, deleteNr, worker, slotQueue, itemsToDelete, itemsToClear,
                   calls, grow>>

CancelTest ==
    /\ UserOp("cancel") /\ dialog = "open"
    /\ dialog' = "cancelled"
    /\ UNCHANGED <<playlistVars, queueVars, cacheVars, poolVars, worker, slotQueue, listVars,
                   testItem, testLoop, aborted, calls, grow, fillVars>>

\* The timer of the test sees that the dialog was cancelled.
updateTestProgress ==
    /\ InEventLoop /\ dialog = "cancelled" /\ workersState # "IntReqStop"
    /\ workersState' = "IntReqStop"
    /\ UNCHANGED <<playlistVars, queueVars, cacheVars, threads, deleteNr, worker, slotQueue,
                   listVars, testVars, calls, grow, fillVars, ops>>
-----------------------------------------------------------------------------
User ==
    \/ \E i \in Item, s \in Slot : \E f \in Frame \cup {NoFrame} : loadFrame(i, f, s)
    \/ \E i \in Item : SelectItem(i)
    \/ \E all \in BOOLEAN : deletePlaylistItems(all)
    \/ \E i \in Item, clear \in BOOLEAN : itemNeedsRecache(i, clear)
    \/ \E s \in Settings : updateSettings(s)
    \/ StartPlayback \/ StopPlayback \/ GoToNextItem
    \/ testConversionSpeed \/ CancelTest

\* The rest of the method that the main thread is in.
MainThread ==
    \/ \E t \in Thread : FillThread(t) \/ StartWorkerThread(t)
    \/ FillDone
    \/ scheduleCachingListUpdate \/ watchItemForCachingFinished
    \/ TagItem \/ itemAboutToBeDeleted

CachingThread(t) ==
    processCacheJobInternal(t) \/ threadCachingFinished(t) \/ TestCachingFinished(t)

InteractiveThread(s) == processLoadingJobInternal(s) \/ interactiveLoaderFinished(s)

Next ==
    \/ User \/ MainThread \/ updateTestProgress
    \/ \E t \in Thread : CachingThread(t)
    \/ \E s \in Slot : InteractiveThread(s)

Spec == Init /\ [][Next]_vars

\* Every thread runs, and the event loop handles every posted signal and every
\* timer; what the user does is never forced.
Fairness ==
    /\ WF_vars(MainThread) /\ WF_vars(updateTestProgress)
    /\ \A t \in Thread : WF_vars(CachingThread(t))
    /\ \A s \in Slot : WF_vars(InteractiveThread(s))

FairSpec == Spec /\ Fairness
-----------------------------------------------------------------------------
(***************************************************************************)
(* Properties.                                                             *)
(***************************************************************************)
WorkerType == [working: BOOLEAN, item: Item \cup {None}, frame: Int,
               test: BOOLEAN, old: BOOLEAN]

\* The types of all variables.
TypeOK ==
    /\ listed \subseteq Item /\ selected \in Item \cup {None}
    /\ tagged \subseteq Item /\ destroyed \subseteq Item
    /\ playMode \in {"Stopped", "Running", "WaitingForCache"}
    /\ settings \in Settings
    /\ queue \in Seq(Job) /\ deq \in Seq(ItemFrame) /\ level \in Int
    /\ cached \in [Item -> SUBSET Frame] /\ outdated \subseteq Item
    /\ workersState \in {"Idle", "Running", "IntReqStop", "IntReqRestart"}
    /\ threads \subseteq Thread /\ deleteNr \in Nat
    /\ worker \in [Thread \cup Slot -> WorkerType]
    /\ slotQueue \in [Slot -> [item: Item \cup {None}, frame: Int]]
    /\ itemsToDelete \subseteq Item /\ itemsToClear \subseteq Item
    /\ watching \in Item \cup {None}
    /\ testItem \in Item \cup {None} /\ testLoop \in Int
    /\ dialog \in {"none", "open", "cancelled"}
    /\ aborted \in {"no", "schedule", "dialog"}
    /\ calls \in Seq([op: {"schedule", "watch", "tag", "aboutToBeDeleted"},
                      item: Item \cup {None}])
    /\ grow \in Nat /\ filling \in BOOLEAN /\ left \subseteq Thread
    /\ started \in BOOLEAN /\ ops \in 0 .. MaxOps

\* When the workers are idle no caching thread works: what the methods that find
\* the state Idle rely on when they clear a cache, delete an item or make a plan.
IdleIsQuiet ==
    workersState = "Idle" /\ ~filling => WorkingIn(worker) = {}

\* No caching thread works on an item that was deleted.
CachedItemIsAlive ==
    \A t \in threads : worker[t].item \notin destroyed

\* No interactive thread loads a frame of an item that was deleted, and no
\* request for one waits.
LoadedItemIsAlive ==
    \A s \in Slot : worker[s].item \notin destroyed /\ slotQueue[s].item \notin destroyed

\* Whenever jobs are given to threads, no job and no frame to be removed belongs
\* to a deleted item: the code follows these pointers without a test.
QueuedItemIsAlive ==
    (filling /\ left # {}) \/ workersState = "Running" =>
        /\ \A k \in DOMAIN queue : queue[k].item \notin destroyed
        /\ \A k \in DOMAIN deq : deq[k][1] \notin destroyed

\* While playback waits for the cache, the cache watches the selected item: the
\* only one whose end it reports.
WaitIsWatched ==
    InEventLoop /\ playMode = "WaitingForCache" => watching = selected /\ selected # None

\* The list of items whose cache is to be cleared holds no deleted item.
ClearedItemIsAlive == itemsToClear \cap destroyed = {}

\* Frames from before a change of an item are only in its cache while they are
\* due to be cleared.
OutdatedIsCleared == outdated \subseteq itemsToClear

\* An item with a limit on its threads is never cached by more of them.
ThreadLimitKept ==
    \A i \in Item : ThreadLimit[i] # -1 =>
        Cardinality({t \in threads : worker[t].item = i /\ ~worker[t].test})
          <= ThreadLimit[i]

\* When the event loop is reached and no thread is to be deleted any more, there
\* are as many threads as the settings ask for.
ThreadsAsConfigured ==
    InEventLoop /\ WorkingIn(worker) = {} =>
        Cardinality(threads) = targetNrThreads(settings)

\* assert(workersState == workersIdle) in scheduleCachingListUpdate holds.
SchedulingFindsIdle == aborted # "schedule"

\* assert(testProgressDialog.isNull()) in testConversionSpeed holds.
TestFindsNoDialog == aborted # "dialog"

\* A request waits in a slot only while the worker of the slot will report back.
WaitingRequestHasWorker ==
    \A s \in Slot : slotQueue[s].item # None => worker[s].working

\* The frames in the caches of the playlist take no more memory than allowed.
MemoryBounded == LevelOf(ItemList(listed), cached) <= settings.max

JobStarts(t) == worker[t].item = None /\ worker'[t].item # None

\* A tagged item is not loaded: the assertion of processLoadingJobInternal.
LoadsOnlyUntagged ==
    [][\A s \in Slot : JobStarts(s) => worker'[s].item \notin tagged]_vars

\* Once an interruption is requested no job is started before all threads have
\* finished: jobs are started while caching runs or by startCaching, which only
\* begins when no thread works.
InterruptIsHonoured ==
    [][/\ (\E t \in Thread : JobStarts(t)) => filling \/ workersState = "Running"
       /\ filling' /\ ~filling => WorkingIn(worker') = {}]_vars

\* An item that is taken out of the playlist is deleted in the end.
TaggedIsDeleted == \A i \in Item : i \in tagged ~> i \in destroyed

\* Playback that waits for the cache goes on or is stopped.
WaitEnds == playMode = "WaitingForCache" ~> playMode # "WaitingForCache"

\* A request that waits in a slot is started or dropped in the end.
RequestIsServed == \A s \in Slot : slotQueue[s].item # None ~> slotQueue[s].item = None

\* The conversion test comes to an end, unless the user leaves it to an assertion.
TestEnds == testMode ~> ~testMode

\* A conversion test that the user cancels comes to an end.
CancelledTestEnds == dialog = "cancelled" ~> dialog = "none" \/ aborted # "no"

\* Whatever the user did, the caching threads come to rest.
CachingSettles == <>[](workersState = "Idle" /\ ~filling)
=============================================================================
