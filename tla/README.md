# Models of YUView

YUView plays and compares raw and compressed video. What is hard in it is not the
drawing but what happens behind it: threads that fill a cache in the background,
threads that load the frame the user looks at, a playlist whose items can be deleted or
changed at any time, and playback that waits for all of them. The modules of this
directory model that part, from the source in `src/YUViewLib/src` (paths below are
relative to it).

## Inventory

| component | state | operations | talks to |
|---|---|---|---|
| `video/caching/VideoCache` | job queue, list of removable frames, cache level, state of the workers, pool of threads, items to delete and to clear, watched item, conversion test | slots for playlist, playback, settings and finished threads | items, workers, playback, playlist |
| `video/caching/LoadingThread`, `LoadingWorker` | item, frame, `working` | cache one frame, load one frame, report by a queued signal | VideoCache, items |
| `ui/PlaybackController` | mode (Stopped, Running, Stalled, WaitingForCache), frame index, frame range, timer, repeat mode | play/pause, stop, timer, selection changed, item changed, caching finished, double buffer loaded | cache, playlist, views |
| `ui/widgets/PlaylistTreeWidget` | tree of items, selection, autosave | select, next, delete, drop, load, save, autosave | cache, playback, views |
| `playlistitem/*` | properties (range of frames, size, rate), `taggedForDeletion`, loading flags | load, cache, draw, change of properties | video handlers, playlist |
| `video/videoHandler` and its YUV, RGB, difference and resample handlers | current image, double buffer, requested frame, image cache, three mutexes | draw, load, cache, invalidate | items, workers |
| `ui/views/SplitViewWidget` and base | frozen view, split, zoom, drag | update, playback started, mouse and touch | items, cache, playback |
| `playlistItemCompressedVideo`, `decoder/*` | a decoder for loading and one for caching, current frame of each, seek threshold | load raw data, seek, decode | file sources, video handlers |
| `filesource/*`, `dataSource/*` | file position, buffers, NAL unit positions | read, seek, next NAL unit | decoders, parsers |
| `parser/*` | parameter sets, picture order count, HRD buffer | parse a unit | file sources, views |
| `statistics/*` | statistics per type, background parser | load types, load a frame, parse a file | items, views |
| `handler/*` | update check and download, local socket of the single instance, per-file settings | check, download, forward a command line | main window |
| `ui/Mainwindow`, `ui/SettingsDialog`, `ui/ViewStateHandler` | wiring, settings, saved views | menus | all |

Which behaviour is hard, and what makes a component correct:

* **Cache.** Slots of the main thread interleave with the signals of the threads. A slot
  reads the state of the workers and then clears, deletes, replans or starts; this is
  only right if the state tells the truth. Pointers to items live in the queue, in the
  removable frames, in two lists, in two request slots, in the watched item and in every
  worker. The memory limit rests on a running count.
* **Playback.** Three ways to stop, a mode that is left by signals of others, a timer
  that races with them. Correct: the frame shown is in range, waiting and stalling end.
* **Video handler.** Loading, caching and drawing share a buffer under mutexes that do
  not cover all accesses. Correct: an image that is shown, or cached, under an index is
  the image of that index.
* **Compressed video.** Two decoders over one file, with seeks. Correct: the frame
  delivered is the one asked for.
* **Files and bitstreams.** A start code lies across two read buffers; the order of the
  pictures is computed from counts that wrap; a seek has to restore what the decoder
  would have seen. Correct: every picture is found, once, in order, with its bytes.
* **Conversion.** The layout of the bytes of some forty formats is written down two or
  three times. Correct: the copies agree, and nothing is read behind the frame.
* **Sessions.** The program may crash; ids of items change with every start. Correct: what
  was saved comes back, and names mean the same items.
* **Others.** Update handler (network answers in any order), statistics parser (a thread
  that is aborted).

The hazards are listed one by one, with the line where each bites, in `PROJECT.json`.

## Modules

| module | models |
|---|---|
| `PlaylistItems` | what the cache sees of an item: its range, the size of a frame, whether it can be cached and by how many threads |
| `CachePlan` | `updateCacheQueue` and `enqueueCacheJob`: the planner, a pure function |
| `CachePlanning`, `MCCachePlan` | one plan for any of a set of inputs, and its properties; all inputs with three items |
| `CachePlanProofs` | theorems about the planner |
| `VideoCache` | the pool, the request slots, deletion, changes of items, settings, playback as the cache sees it, the conversion test |
| `MCVideoCache` | `VideoCache` with the planner of `CachePlan` on two items |
| `Lists`, `ListsProofs` | what is left of a list when elements are passed over; lemmas about it, and induction |
| `VideoCacheProofs` | theorems about `VideoCache`: the pool of threads, frame requests, interruptions, outdated frames, thread limits; then the playlist and the calls of the main thread, watching, deleted items, types and memory |
| `FrameLoading` | how a frame gets on screen: `needsLoading`, the two buffers of an item, the request slots, `splitViewWidget::update` and `playbackStarted` |
| `PlaybackController` | the player: mode, timer, frame, range, repeat mode, selection, with the loading threads of `FrameLoading` |
| `PlaybackControllerProofs` | theorems about `PlaybackController` |
| `MCPlaybackController` | `PlaybackController` on two videos and a static item |
| `VideoHandler`, `MCVideoHandler` | the buffers of one `videoHandlerYUV` and the threads that share them |
| `VideoHandlerProofs` | theorems about `VideoHandler` |
| `FrameService` | abstract: what a compressed item promises the video handler |
| `Decoder` | `decoderBase` and its six wrappers, with the library behind each |
| `CompressedVideo`, `MCCompressedVideo` | `playlistItemCompressedVideo`: requests, seeks, pushing, retrieving; it implements `FrameService` |
| `CompressedVideoProofs` | theorems about `CompressedVideo`, `Decoder` and the promise of `FrameService` |
| `AnnexBFile` | `FileSourceAnnexBFile`: NAL units through one read buffer |
| `ParserAnnexB` | the frame list, seek points and seek data of the HEVC parser |
| `BitstreamFile`, `MCBitstreamFile` | both together: parse a file, then seek and read as the compressed item does |
| `YUVConversion`, `MCYUVConversion` | where the samples of a raw frame go: picture and pixel values |
| `YUVConversionProofs` | theorems about `YUVConversion` |
| `Session`, `MCSession` | what outlives the program: autosave, playlist files, view states |
| `SessionProofs` | theorems about `Session` |

A definition with a suffix, such as `Deletable_WhenIdle`, is a faulty variant of the
definition without: it shows that a property notices the fault. Nothing uses it. Newer
modules call such a definition a mutant, and name it so.

### CachePlan

The input is a record of what the function reads; the result is the new `cacheQueue`,
`cacheDeQueue`, cached frames and `cacheLevelCurrent`. `FreeOverflow` is the part up to
line 487, `PlanPlaying`, `PlanTooLarge`, `PlanDeleting` and `PlanFollowing` are the four
branches. Loops over lists are folds (`DropAlong`, `PlayAlong`, `RemovableOf`,
`FollowAlong`) of what they do with one item (`DropFrom`, `AddPlaying`, `AddFollowing`); the
loop that marks frames is a function of the number of rounds, with a bound that
`DeletingEnds` shows to be enough. `CachePlanning` makes one plan and states the
properties, for any set of inputs.

### VideoCache

Methods of `VideoCache` run on the main thread and are actions; the workers run
concurrently (`processCacheJobInternal`, `processLoadingJobInternal`) and post a signal:
a worker that is `working` and holds no item. A method that calls into other objects or
that gives work to one thread after the other takes several steps. What is left of it is
in `calls`, `grow` and `filling`, and no other method of the main thread starts before
(`InEventLoop`); the workers go on in between, as they do in the code: while
`startCaching` is at the third thread the first may have finished its frame, and the
test of the thread limit sees that.

| code | model |
|---|---|
| `cacheQueue`, `cacheDeQueue`, `cacheLevelCurrent` | `queue`, `deq`, `level` |
| `imageCache` of every item | `cached`; `outdated` remembers frames from before a change |
| `workersState`, `cachingThreadList`, `deleteNrThreads` | `workersState`, `threads`, `deleteNr` |
| `LoadingWorker`: item, frame, working, testMode | `worker[t]`, also for the two interactive threads |
| `interactiveItemQueued`, `..._Idx` | `slotQueue` |
| `deleteLater()` | the item is in `destroyed` from the end of the slot on |
| `playbackMode` | `playMode` |
| `testMode`, `testProgressDialog` | `testItem # None`, `dialog` |
| a failed `assert()` (the release build keeps them: `NDEBUG` is not defined) | `aborted` |

Merged or left out:

* `cacheFrame` and the clearing of `currentCacheItem` are one step of the worker.
* Threads are a set: which idle thread is removed first is any of them.
* Items are only deleted, not added or moved, and there are no containers. Adding and
  moving call `scheduleCachingListUpdate` like a selection does.
* `ContinuePlaybackOnSequenceSelection` is off (its default), so a selection by the user
  stops playback.
* The conversion test is not started on an item of one frame (division by zero).
* The dialog of the test is modal: only what a modal dialog lets through happens while
  it is open. The message box at the end of the test is not modelled.
* The destructor is not modelled.

### FrameLoading and PlaybackController

Here the methods of the main thread call each other deeply: the timer goes to the next
item, which changes the selection, which updates the view, which asks the cache to load a
frame; and what a method does afterwards depends on what the nested calls made of the
mode. Each method is an operator from a state to the set of states it can end in, and
calls are composed with `UNION`; nothing else of the main thread happens in between, as
in the code, where none of these calls returns to the event loop. The loading threads do
go on between slots. Their steps are cut where the main thread can tell the difference:
what has to be loaded is decided (`BeginLoad`), the frame arrives (`EndLoad`), the double
buffer is begun and arrives, the worker drops the item (`FinishLoad`). The signals they
emit go through one queue, `posted`, as they all go to the main thread.

| code | model |
|---|---|
| `playbackMode`, `timer`, `currentItem`, `currentFrameIdx`, `lastValidFrameIdx`, `repeatMode`, `waitForCachingOfItem`, `waitingForItem`, `countDownForStaticItem` | fields of `player` |
| minimum and maximum of `frameSlider`, `controlsEnabled` | `player.min`, `player.max`, `player.controls` |
| selected items of the playlist | `selection` |
| `startEndRange` of the items | `range` |
| `VideoCache::watchingItem` | `watching` |
| job and `working` of the interactive workers, `interactiveItemQueued`, `..._Idx` | `job`, `queue` |
| `currentImageIndex`, `doubleBufferImageFrameIndex` | `image`, `double` |
| `isFrameLoading`, `isFrameLoadingDoubleBuffer` | `busy` |
| a failed assertion, a null item that is used | `player.aborted` |

Merged or left out:

* The cache is seen from outside: the image caches are constant (`CachedFrames`), and a
  wait for the cache ends at any time, at once or later. `VideoCache` models what is behind.
* The separate view, the frozen view, raw pixel values (which add a second test to
  `needsLoading`), frame rates, labels and the value of the slider.
* Loading a frame does not fail. Static items are never loaded.
* Items are not added, moved or deleted. A change of the format of a video changes its
  range and drops its image.
* `Paint` is the part of a paint event that has a lasting effect: the double buffer or a
  cached frame becomes the image.

### VideoHandler

`VideoCache` and `PlaybackController` take it for granted that a buffer holds the frame
its index names. `VideoHandler` looks at this: one item, its buffers, and every thread that
writes them, in steps as small as the three mutexes allow.

| code | model |
|---|---|
| `frameSize`, `srcPixelFormat`, `conversionSettings` | `settings` |
| the file on disk, the one that was opened | `file`, `seen` |
| `rawData`, `currentFrameRawData`, each with its frame index | `raw`, `cur` |
| `currentImage`, `doubleBufferImage`, each with its frame index | `image`, `double` |
| `imageCache`, `cacheValid` | `cache`, `valid` |
| `requestDataMutex` | `lock` |
| the interactive worker in `loadFrame`, a caching worker in `cacheFrame` | `loader.pc`, `job[t].pc` |
| `VideoCache::itemsToClearCache` | `clearing` |

A picture carries the frame, the bytes and the settings it was made from. Main-thread
handlers that tell others are cut at each step (`ControlChanges`, `Invalidate`,
`SignalRecache`), since the threads see the intermediate states. Merged: a picture and its
index are assigned in one step, `invalidateAllBuffers` is one step, a request for raw
data and the assignment of its index are one step (they are under the mutex). The cache
planner is any choice of a frame.

### CompressedVideo, Decoder and FrameService

`FrameService` is the promise: a thread that asks for a frame gets that picture or, for
one of three reasons, none. It knows nothing of decoders; that one was
replaced (`Replace`) shows in which frames are missing. `CompressedVideo` is the item:
`loadRawData` decides whether to seek, pushes data and takes pictures until it has counted
up to the frame it wants. The picture is not addressed, so one unit too many or too few
makes all later pictures wrong; `ServesFrames` says that it never happens, as an
`INSTANCE FrameService` with the requests and answers as they are, and `missing` and
`failed` computed from the bitstream and the decoders.

| code | model |
|---|---|
| `decoderState` and the members of a wrapper | `dec[c]`; `lib` is the library behind it: pictures held back, output |
| `FileSourceAnnexBFile`, `FileSourceFFmpegFile` | `file[c]`: next unit, last unit |
| `currentFrameIdx`, `repushData`, `decodingNotPossibleAfter`, `rawData`, ... | fields of `item`, shared by both threads as in the code |
| the thread in `loadRawData` | `call[c]` |

Statistics are asked for the frame on screen, by the loading thread and without the mutex. Its
picture may have come from the double buffer or from the cache, so `LoadStatistics` is asked for any
frame, wherever the decoder is. There are three cases, as in `loadStatistics`: the retrieval is
switched on and the frame the decoder is at is decoded again; it is on and the frame is decoded; it
is on and the decoder is there. `StatisticsMatchFrame` says that each ends with the statistics of
the frame the request was for. That the first one is for the frame on screen is
`FirstStatisticsAreShown`, which fails.

A setup (`MCSetups`) fixes file reader, decoders, the pictures in coding order, random
access points, damaged pictures, how many pictures the library holds back, which threads
ask, and how often a decoder may fail. Data is one unit per picture: `AnnexBFile` and
`ParserAnnexB` model what is below.

### AnnexBFile, ParserAnnexB and BitstreamFile

`AnnexBFile` is byte by byte, since its hazard is a start code across the end of the
buffer; the buffer has seven bytes instead of half a million, and its bytes behind the
end of file are those of an earlier read, as in the code. `ParserAnnexB` computes
the picture order count, the list of frames, random access points, and which parameter
sets are in force at each. `BitstreamFile` opens, parses, and then seeks and reads through
both as `playlistItemCompressedVideo` does. A NAL unit is opaque but for its first byte;
VPS, SPS and PPS are one kind of parameter set, `BLA` stands for `BLA_W_LP`, there is one
layer. These modules use recursive operators and are only model-checked.

### YUVConversion

The values of samples do not matter: a sample *is* its place in the frame (byte, position
in its group, the way it is read). The conversion builds a picture from such samples,
`getPixelValue` names the sample for a pixel, `bytesPerFrame` the size of the frame:
three pieces of code written apart, and the properties compare them. Left out: the matrix to
RGB, YUV math, the horizontal chroma offset, a truncated last frame, the 16 bit path for
HDR displays, guessing of formats, the RGB handler.

### Session

`autosave` and `playlistFile` outlive `Crash` and `CloseEvent`; everything else starts
anew, the counter of ids too. An item is its id, its source and the `playlistID` it
remembers from loading. The items of slots that were removed stay until `ItemDeleted` (the
slot is a `QPointer`).

A view state is its first selected item and the frame. The frame is not a detail: -1 says that there
is none, which is so when nothing or a text item is selected (`PlaybackController.cpp:323`,
`CurrentSelectedItemsChanged`), and a view state without a frame is not one. A slot saved then
cannot be loaded (`ViewStateHandler.cpp:125`) and is not written (151); the selection is
written (184), but skipped on loading (253). `View` is what the user can see of all this: sources,
the slots he can load, the selection and the frame, by places.

`autoSavePlaylist` encodes the document in Latin-1 (`PlaylistTreeWidget.cpp:1092`) and
`loadPlaylistFromByteArray` reads it as UTF-8. So a path that is not ASCII (`Foreign`) is
garbled, or the parser refuses the document, in which case nothing is loaded; which of
both depends on the characters. To restore the autosave (`StartUp`) and to drop it
(`DropAutosavedPlaylist`) are two steps, as in the code (1030-1032), and the program may crash
in between; the next start then finds the same autosave.

Left out: zoom and splitting of a view state, its second item, containers, old playlist
formats, the setting that switches the question on exit off, the encoding of the playlists
the user saves (that of the locale). Nothing plays while the user
selects, and a file keeps its frames. One instance of the program is modelled; several share the
setting, so a second one asks whether the first has crashed, and either may drop or
replace the autosave of the other.

## Runs

In the runs of the cache there are two items `a` (three frames) and `b` (two), two threads
and two request slots; the user operations are switched on per run by `Ops` and bounded by
`MaxOps`. Two items are enough for one that is selected and one that is not, one that is
held by a thread and one that is not; two threads for one that reports while the other
works. The cache holds three of the five frames, so that plans have to remove frames.
`MaxOps` is the length of the longest sequence of operations: three for most runs, four
for playback, where starting, moving on and deleting need one each, two under liveness. A
run may end when the user has used up the operations, or the file is read, so deadlock is
not checked; only `conversion` never stops.

| run | question | answer |
|---|---|---|
| `plan` | Is the plan right for every input (three items, of which one may not be listed, five sizes of the cache)? | `LevelIsExact`, `SelectedEmptiedLast`, `PlayingSplitsCache`, `PlayingRemovesFarthestFirst`, `DeletingEnds` hold |
| `cache_safety` | Do selecting, deleting and changing items and interactive loads leave workers, lists, requests and caches consistent, and is the memory limit kept without playback? | `TypeOK`, `IdleIsQuiet`, `CachedItemIsAlive`, `OutdatedIsCleared`, `WaitingRequestHasWorker`, `MemoryBounded`, `InterruptIsHonoured` hold |
| `cache_playback` | Thread limit, null pointers and the watched item under playback, deletion and settings? | `ThreadLimitKept`, `QueuedItemIsAlive`, `WaitIsWatched` hold |
| `cache_live` | Does every removed item get deleted, does the state of the threads come to rest, does a test that is cancelled while threads work end? | `TaggedIsDeleted`, `CachingSettles`, `CancelledTestEnds` hold |
| `player_safety` | Has a stall a reason, and is the frame only ever set to one of the slider's range, whatever the user and the threads do? | `TypeOK`, `StallHasReason`, `FrameIsSetInRange` hold |
| `player_live` | Does playback that is not repeated come to an end? | `TimerRunsOut` holds |
| `player_select` | Is the frame that was selected last the one that is loaded? | `SelectedFrameIsLoaded` holds without playback |
| `handler` | Do indices and the cache tell the truth while format, size, file and frame change under three kinds of threads? | `TypeOK`, `CachedPicturesCurrent`, `IndexNamesFrame`, `CacheComesBack` hold |
| `compressed` | Does the item implement `FrameService` and answer, with every reader and decoder (but for frames that are not there with HM, VTM and Dav1d), and are statistics those of the frame they were asked for? | `TypeOK`, `ServesFrames`, `FramesAnswered`, `StatisticsMatchFrame` hold |
| `bitstream` | Are frames found, ordered, read and sought right wherever the buffer ends? | `TypeOK`, `FramesAsCoded`, `FrameDataIsItsPicture`, `SeekReachesFrame` hold |
| `conversion` | Do the copies of the layout of a frame agree? | `PixelValueIsDrawn`, `ChromaFromNeighbours`, `ReadsInsideFrame` hold |
| `session` | Does a crashed session come back, but for what the autosave cannot hold, and do loaded slots name their items and frames? | `SessionComesBack`, `SlotsNameTheirItems` hold |

Bounds, beyond those of the cache:

* The player has two videos `a` (frames 1 to 3: the first key frame comes late) and `b`
  (frames 0 and 1), and between them a static item that lasts two ticks, so that playback
  passes through all kinds of items. A range of two frames has a frame with and one
  without a successor for the double buffer. `player_safety` starts with every repeat mode,
  with and without waiting for the cache; three user operations suffice to select, play and
  interfere. `player_live` also has stop, and cached frames; `player_select` only selects and
  seeks, four times, so that requests replace each other while one is loading.
* `handler`: two frames (the frame and its successor in the double buffer), two settings
  that differ in the bytes of a frame, so that both branches of the invalidation are taken;
  three uses: playback over two changes, a file that is rewritten once, two caching threads
  over two changes.
* `compressed`: five or six pictures, two random access points, one picture held back, a seek
  threshold of two, so that there are requests that go on, seek forward and seek
  backward, and open groups of pictures; one or two failures. The memory of the item reaches
  back to the last seek only.
* `bitstream`: each of four streams (count that wraps, two sequences, open groups, parameter
  sets sent again) with short, long or mixed start codes, two orders of payloads (ending in
  zeros, beginning with 0 1), shifted by 0 to 6 bytes, so that every unit begins at every
  place of the buffer; two contents of the buffer before its first use.
* `conversion`: every subsampling, planar and packed order, 8, 10 and 16 bits, both
  byte orders, interleaved or not, the four predefined formats; nine sizes, among them the
  smallest of each subsampling; both interpolations, each component, strides larger than needed.
* `session`: two files, one with two frames and one with a path that is not ASCII, three items per
  start, one slot, five user operations over three starts, one file that disappears. Three items
  are needed to tell the first, the last and the right match apart, three starts for one that
  crashes, one that crashes while it restores and one that tries again.

### Statements known to fail

Each of these is made by a comment, an assertion or the interface of the code, and TLC
refutes it. The property is in its module, ready to be added to a configuration; none is
checked by a run.

| property (module) | statement | what happens | to see it |
|---|---|---|---|
| `SelectedIsNotRemoved` (`CachePlanning`) | frames are marked for removal in "all other items" (`VideoCache.cpp:601`) | the loop steps over the selected item at the top of a round and then wraps around to the last item without testing again (637-642): if that is the selected one, its own frames are marked | add it to `MCCachePlan.cfg` |
| `MemoryBounded` with playback (`VideoCache`) | "The workers are idle. We can update the cacheQuene" (`VideoCache.h:161`) | starting playback makes a plan while workers run (`VideoCache.cpp:123`); the level is computed without the frames they are caching (487), and the limit is exceeded by up to one frame per thread | `CacheSafety.cfg`, `Ops` select and play |
| `ClearedItemIsAlive` (`VideoCache`) | items in the list "will be cleared when caching has halted" (`VideoCache.h:178`) | an item that is deleted stays in the list (1252) and is followed later (998) | `CacheSafety.cfg`, `Ops` select, recache and delete |
| `ThreadsAsConfigured` (`VideoCache`) | changing the settings creates "the correct number of threads" (`VideoCache.cpp:107`) | `deleteNrThreads` is not reset if the number is raised again before the threads are gone (212-241) | `CachePlayback.cfg`, `Ops` select and settings |
| `SchedulingFindsIdle` (`VideoCache`) | the assertion in `VideoCache.cpp:369` | a cancelled conversion test leaves `workersIntReqStop`; selecting an item then fails the assertion | `CacheLive.cfg`, `Ops` select, test and cancel, three operations |
| `UncachedFramesAreEnqueued` (`CachePlanning`) | only "if all frames within the range are already cached" does `enqueueCacheJob` do nothing (`VideoCache.h:145`) | it also does nothing if only the last frame is missing (`VideoCache.cpp:824`): that frame, or an item of one frame, is not cached | add it to `MCCachePlan.cfg` |
| `PlanFits` (`CachePlanning`) | the planner "should never create a situation" with no space and nothing to remove (`VideoCache.cpp:1208`) | the items that follow are each compared with a level that leaves out the items enqueued just before (743-757) | add it to `MCCachePlan.cfg` |
| `TestFindsNoDialog` (`VideoCache`) | the assertion that there is no dialog when a test starts (`VideoCache.cpp:1338`) | a cancelled test keeps its dialog until a worker reports; the test can be started again before | `CacheLive.cfg`, `Ops` test and cancel, three operations |
| `RequestIsServed` (`VideoCache`, `FairSpec`) | a request made during a load "will be saved and started as soon as the running loading request is done" (`VideoCache.h:66`) | a request for an item without frames has the index -1 and is passed over (`VideoCache.cpp:329`) | `CacheLive.cfg`, `Ops` select and load, four operations, `b` neither indexed nor cachable |
| `LoadsOnlyUntagged` (`VideoCache`) | the assertion that a loaded item is not tagged for deletion (`LoadingWorker.cpp:103`) | a request that was saved before the item was tagged is started without looking again (`VideoCache.cpp:329`) | `CacheSafety.cfg`, `Ops` select, load and delete, four operations |
| `TestEnds` (`VideoCache`, `FairSpec`) | the count goes "down to 0. Then the test is over" (`VideoCache.h:210`) | without a caching thread nothing ever reports (`VideoCache.cpp:1347`) | `CacheLive.cfg`, `Ops` test, caching disabled |
| `RunningHasTimer`, `WatchHasWait` (`PlaybackController`) | playback that runs has a timer; the cache only watches for playback that waits | when a stall ends, `timerEvent` may stop playback, stall again or wait for the cache, and the mode is then set to Running all the same (`PlaybackController.cpp:657`) | `PlayerSafety.cfg`, `Ops` select, play and repeat, four operations |
| `FrameIsSetInRange` with the setting to go on playing, or with ranges after 0 (`PlaybackController`) | the frame is set to one of the slider's range only | a new selection during playback compares the frame with the maximum only (`PlaybackController.cpp:356`); the stop button goes to frame 0 (172), and the previous frame is then below the minimum, with which it is compared by `!=` (283) | `PlayerSafety.cfg`, `Continue = TRUE`; or `Ops` select, stop, play and frame, four operations |
| `ShownItemsHaveFrame` (`PlaybackController`) | "The index range is that of the longer sequence" (`PlaybackController.cpp:471`), so that playback goes to frames the items have | with two videos selected the range ends with the shorter one, and begins with the lower of both first frames (473): repeating, the timer goes to a frame before the first one of the other video | `PlayerSafety.cfg`, in place of `FrameIsSetInRange` |
| `FrameInRange` (`PlaybackController`) | "Check if the current frame index is valid in the new limits" (`PlaybackController.cpp:399`) | the upper limit is compared with `lastValidFrameIdx` (402): the frame stays behind the end of a shorter item | `PlayerSafety.cfg`, `Ops` select and frame |
| `NothingAborts` (`PlaybackController`) | the assertion that the next frame is not negative (`SplitViewWidget.cpp:1606`) | with a static item and a video selected the range is (-1, -1); repeat One goes to its minimum | `PlayerSafety.cfg`, `Ops` select and play |
| `SelectedFrameIsLoaded` with playback (`PlaybackController`, `FairSpec`) | a request made during a load "will be saved and started as soon as the running loading request is done" (`VideoCache.h:66`) | it is dropped if the worker names the same frame (`VideoCache.cpp:262`), also when that frame was loaded, and replaced, before | `PlayerSelect.cfg`, `Ops` select, frame and play |
| `BusyTellsTruth` (`PlaybackController`) | an item says whether it is loading | the flag is a plain member: with the split view two threads can load one item, and the first to end resets it (`playlistItemWithVideo.cpp:111`) | `PlayerSafety.cfg`, `Splitting = TRUE` |
| `LoadedItemIsAlive` (`VideoCache`) | a deleted item is removed from the loading queue (`VideoCache.cpp:960`) | an item is deleted when one interactive thread ends (313), but only the slot of this thread forgets it: the other one starts with it | `CacheSafety.cfg`, `Ops` select, load and delete, four operations |
| `WaitEnds` (`VideoCache`, `FairSpec`) | the end of a wait for the cache is reported (`VideoCache.h:105`) | it is only noticed when a thread reports (`VideoCache.cpp:1005`): not if none works | `CacheLive.cfg`, `Ops` play and settings, `WaitSettings` |
| `PlaybackGoesOn` (`PlaybackController`, `FairSpec`) | stalled playback goes on when the frame was loaded (`PlaybackController.cpp:540`) | the request that stall relies on may be dropped, or its signal come before the stall (543) | `PlayerLive.cfg` |
| `ShownFrameStays` (`PlaybackController`) | a frame that is there can be drawn at once (`SplitViewWidget.cpp:1662`) | the double buffer is put over it without asking which frame it holds (1665) | `PlayerSafety.cfg`, `Ops` select, play and frame |
| `DrawnIsReloaded` (`VideoHandler`) | with the next `drawFrame()` the data is loaded from the file again (`videoHandler.cpp:388`) | `invalidateAllBuffers` forgets the index of the double buffer (388-403), which is drawn | `Handler.cfg`, `Uses <- Playback` |
| `CacheGetsRequestedFrame` (`CompressedVideo`) | "frameToCache should contain the requested frame" (`videoHandler.h:167`) | the cache asks for the frame it decoded last, which is not decoded again: it copies what the loading thread has put into the shared buffer; the index is compared after the mutex is given up (`videoHandlerYUV.cpp:4146`), when it may be right again | `Compressed.cfg`, `Setup <- MCCachingSetups`, `CachesAgain = TRUE` |
| `ServesFrames` with a caching thread and a decoder that refuses data (`CompressedVideo`) | the data to push again is "the packet for which pushing failed" (`playlistItemCompressedVideo.h:180`) | `repushData` is one member for both threads, and a seek of either resets it (`playlistItemCompressedVideo.cpp:692`, 764, 841): a packet is left out or pushed twice | `Compressed.cfg`, `Setup <- RepushSharing` |
| `ServesFrames` with FFmpeg and a caching thread on a raw file | the counter says "how many frames we already read" (`playlistItemCompressedVideo.h:143`) | there is one counter for two files (`playlistItemCompressedVideo.cpp:669`, 754) | `Setup <- CounterSharing` |
| `ServesFrames` with FFmpeg, reading or decoding, and open groups of pictures | a seek sets the decoder to "the given position" (`playlistItemCompressedVideo.h:176`) | the frame to seek to, in display order, is used as the count of frames read, in coding order (`playlistItemCompressedVideo.cpp:669`), and key frames of a container, counted as they are read (`FileSourceFFmpegFile.cpp:512`), are compared with it (469) | `Setup <- SeekInDisplayOrder` |
| `ServesFrames` with HM and pictures that are held back | `getRawFrameData` returns the frame that was decoded | the buffer is dropped by `pushData` only (`decoderHM.cpp:341`), not with the next picture (266): of two that come out at the end of the file the second is returned as the first; VTM drops it | `Setup <- BufferKept` |
| `ServesFrames` with a caching thread and a frame that cannot be decoded | "frameToCache should contain the requested frame" (`videoHandler.h:167`) | what was decoded before is put into the cache (`playlistItemCompressedVideo.cpp:814`) and `decodingNotPossibleAfter` is shared | `Setup <- Undecodable` |
| `ServesFrames` with a caching thread and statistics | the two decoders are independent | `loadStatistics` decodes without `requestDataMutex` (`playlistItemCompressedVideo.cpp:1120`) into the raw data that is shared | `Setup <- StatisticsWhileCaching` |
| `ServesFrames` with FFmpeg, reading and decoding, statistics and a failing decoder | the index of the raw data says which frame is in it | statistics of a frame FFmpeg does not give (the last one, since it is never drained) set the index without new data (`playlistItemCompressedVideo.cpp:814-823`); after a failure of the decoder a request for it is ignored (607-616) and the old picture is taken for it | `Setup <- StatisticsAndFailure` |
| `FirstStatisticsAreShown` (`CompressedVideo`) | "The statistics should now be loaded" (`playlistItemCompressedVideo.cpp:1122`), for the frame that was asked for | when the retrieval is switched on the frame the decoder is at is decoded again (1118); the one on screen is another if it came from the double buffer or from the cache | add it to `Compressed.cfg` |
| `ServesFrames` with a picture lost in the middle | a decoded picture is the next frame | pictures are counted, not identified, so all after a lost one have the wrong index | `Setup <- LostInTheMiddle` |
| `UnitsAreWhole` (`BitstreamFile`) | a unit is returned with all its bytes | at the boundary case of `FileSourceAnnexBFile.cpp:170` one byte is taken off whether it belongs to the start code or not | add it to `Bitstream.cfg` |
| `FramesAsCoded` of IDR pictures only (`BitstreamFile`) | the count is unique in the file | a new sequence is put above the highest count only if that count is positive, and IDR pictures do not raise it (`ParserAnnexBHEVC.cpp:411`): all pictures get count 0 | `Bitstream.cfg`, `Bitstream <- IntraBitstreams` |
| `WholeSessionComesBack` (`Session`) | "we have an autosave of the playlist you were working with" (`Mainwindow.cpp:213`) | a selected text item has no frame, and the selection is skipped on loading (`ViewStateHandler.cpp:253`); a path that is not ASCII does not survive Latin-1 (`PlaylistTreeWidget.cpp:1092`) | add it to `Session.cfg` |
| `SlotsNameLoadedItems` (`Session`) | after loading, the remembered id is reset, so that a later playlist does not find the item by it (`playlistItem.h:118`) | an item that was opened has the id 0, a copy keeps that of its original; a slot whose item is gone then names it | add it to `Session.cfg` |

More that the translation showed, outside the models or excluded in a property:

* Cache: an item whose deletion waits for a thread when the conversion test begins may never
  be deleted, since the lists are not looked at in `testMode`.
* Conversion (exclusions in `YUVConversion`): byte packed pixel values are read at
  `y*(x/2)*5` (`videoHandlerYUV.cpp:4328`); the short cut for 4:2:0 ignores big endian
  (2821); 4:4:0 takes chroma from the line before (1760) and its size is that of 4:2:2 with
  odd widths rounded down; the last lines of 4:1:0 are mixed with what is behind the plane
  (2189); of the formats with packed bytes only 4:2:2 with 10 bits is unpacked (168), while the
  size counts the packed bits of all of them (`PixelFormatYUV.cpp:490`), so that others are
  read behind their end; predefined formats with sizes that do not fill their groups leave samples
  unset (411).
* Video handler: a change of the settings while the loading thread converts leaves a
  picture of the old settings with a valid index until the frame changes.
* Compressed item: HM, VTM and Dav1d are asked for ever, under `requestDataMutex`, for a
  picture that is not there; the range of a container is one frame too long
  (`FileSourceFFmpegFile.cpp:718`); FFmpeg is never drained, so the last pictures are not
  shown; `decoderFFmpeg::resetDecoder` does not leave the state Error.
* Session: between restoring a playlist and the next tick nothing is stored; a restored session
  counts as saved, so closing does not ask; if the file dialog is cancelled on exit the
  window closes all the same, and a file that cannot be written counts as saved; after
  loading, `setCurrentItem(0)` (`PlaylistTreeWidget.cpp:962`) selects nothing where the comment
  says "Select the first item"; the eighth slot of the menu is refused.

**Fairness**. In the cache and the player (`FairSpec`): weak fairness of the main thread (a method that has started
goes on), of the timer of the test, and of every thread: the operating system runs
threads, and Qt delivers a posted signal once the event loop is reached. The user is
never forced. The liveness runs use no symmetry. In `PlaybackController` a wait for the
cache is assumed to end; `WaitEnds` above says that it may not, and no property of a
run rests on it: a player that waits has satisfied `TimerRunsOut`. In `VideoHandler`: the
loading thread, each caching thread, the delivery of its posted event, and the handler the
main thread is in. In `CompressedVideo`: a thread that works on a request goes on; nobody
has to ask. The other modules state no fairness, since they check no liveness.

**Variants.** Every property of a passing run has a faulty variant of a definition that
breaks it, listed under `mutants`.

## Proofs

Eight modules hold theorems; `tlapm` checks each of them to the last leaf. They hold for
any number of threads, items, frames and operations, for any settings and, in the cache, for
any planner; what is said about deleted items and about types needs one that meets
`PlannerAssumption` (jobs for items of the playlist only, a level that is what the cached
frames take and within the limit, removable frames that are cached and listed once).
`PlannerIsSound` proves this of the planner of `CachePlan`, the one the code has.

`ItemAssumption` says of the playlist that `Order` lists every item once, as the tree does,
and of an item that its range, the size of its frames and its thread limit are numbers.
`InputAssumption` says that the inputs of `CachePlanning` are of the type of those the cache
gives to its planner.

| theorem (module) | states | assumes |
|---|---|---|
| `PoolIsTyped` (`VideoCacheProofs`) | the types of the state of the pool | `PoolAssumption` |
| `IdlePoolIsQuiet` (`VideoCacheProofs`) | `IdleIsQuiet` | `PoolAssumption` |
| `InterruptionsAreHonoured` (`VideoCacheProofs`) | `InterruptIsHonoured`, an action property | `PoolAssumption`, `ItemAssumption` |
| `OutdatedFramesAreCleared` (`VideoCacheProofs`) | `OutdatedIsCleared` | `PoolAssumption`, `ItemAssumption` |
| `RequestsAreServed` (`VideoCacheProofs`) | `WaitingRequestHasWorker` | both, and `IndexedByFrame = Item`: every item has frames |
| `LimitsAreKept` (`VideoCacheProofs`) | `ThreadLimitKept` | `PoolAssumption`, `ItemAssumption` |
| `WaitingPlaybackIsWatched` (`VideoCacheProofs`) | `WaitIsWatched` | `PoolAssumption`, `ItemAssumption` |
| `CacheTypes` (`VideoCacheProofs`) | `TypeOK` | both, and `PlannerAssumption` |
| `CachedItemsAreAlive` (`VideoCacheProofs`) | `CachedItemIsAlive` | both, `PlannerAssumption`, and `"test" \notin Ops` |
| `QueuedItemsAreAlive` (`VideoCacheProofs`) | `QueuedItemIsAlive` | both, `PlannerAssumption`, and `"test" \notin Ops` |
| `MemoryIsBounded` (`VideoCacheProofs`) | `MemoryBounded` | both, `PlannerAssumption`, neither `"test"` nor `"play"` in `Ops`, and one limit in all `Settings` |
| `PlannerIsSound` (`CachePlanProofs`) | `PlannerAssumption` of `VideoCache` for `PlanCacheQueue` | `ItemAssumption` |
| `LevelExact` (`CachePlanProofs`) | `LevelIsExact` | `ItemAssumption`, `InputAssumption` |
| `SelectedIsEmptiedLast` (`CachePlanProofs`) | `SelectedEmptiedLast` | the same |
| `PlayingSplits` (`CachePlanProofs`) | `PlayingSplitsCache` | the same |
| `PlayingFarthestFirst` (`CachePlanProofs`) | `PlayingRemovesFarthestFirst` | the same |
| `DeletingTerminates` (`CachePlanProofs`) | `DeletingEnds` | the same |
| `HandlerInvariant`, `HandlerTypes` (`VideoHandlerProofs`) | `HandlerInv`, `TypeOK` | `HandlerAssumption`, `NoneAssumption` |
| `IndexIsRight`, `CacheIsRight` (`VideoHandlerProofs`) | `IndexNamesFrame`, `CachedPicturesCurrent` | `HandlerAssumption`, `NoneAssumption` |
| `ConversionInvariant` (`YUVConversionProofs`) | `ConversionInv`: the picture is the one of what is set | `ConversionAssumption` |
| `PixelValueIsDrawnTheorem`, `ChromaFromNeighboursTheorem`, `ReadsInsideFrameTheorem` (`YUVConversionProofs`) | `PixelValueIsDrawn`, `ChromaFromNeighbours`, `ReadsInsideFrame` | `ConversionAssumption` |
| `PlayerInvariant`, `PlayerTypes` (`PlaybackControllerProofs`) | `PlayerInv`, `TypeOK` | `LoadingAssumption`, `PlaybackAssumption` |
| `StallsHaveReason` (`PlaybackControllerProofs`) | `StallHasReason` | the same |
| `FramesAreSetInRange` (`PlaybackControllerProofs`) | `FrameIsSetInRange`, an action property | the same, and `SteppingAssumption`: a new selection pauses playback; if there is a stop button, ranges begin with frame 0 |
| `CompressedTypes`, `CompressedTypeOK` (`CompressedVideoProofs`) | `TypeInv`, `TypeOK` | `CompressedAssumption`, `StreamAssumption` |
| `CompressedOnTrack` (`CompressedVideoProofs`) | `ServiceInv`: every decoder in use gives the picture the item counts on | the same, and `ServiceAssumption` |
| `CompressedServes` (`CompressedVideoProofs`) | `ServesFrames`: the item implements `FrameService` | the same, and `ServiceAssumption` |
| `CompressedStatistics` (`CompressedVideoProofs`) | `StatisticsMatchFrame`, an action property | the same, and `ServiceAssumption` |
| `CrashedSessionsComeBack` (`SessionProofs`) | `SessionComesBack`, an action property | `SessionAssumption` |
| `LoadedSlotsNameTheirItems` (`SessionProofs`) | `SlotsNameTheirItems`, an action property | `SessionAssumption` |

`StreamAssumption` says what a stream is: its first picture is the first to be shown and can be
decoded alone, every place in display order is that of one picture, none that is coded before a
random access point is shown after it, and at most `delay` pictures are held back.
`ServiceAssumption` (`Countable`) leaves out what the table of statements known to fail lists for
`ServesFrames` and `CacheGetsRequestedFrame`: a loss before the end of the file, FFmpeg with
open groups, HM with pictures held back, failures together with statistics where FFmpeg reads and decodes, and, with a caching thread, everything that
makes the members both threads share matter. What is left are all six decoders and both readers, streams
and groups of pictures of any length, any delay, seeks, damaged ends and failures for the loading
thread, and both threads for libde265 and VVdeC on raw files. The setups of the run `compressed` meet
it (`SetupsCountable`). Four other hypotheses are not in an assumption of the model, and each has its reason in the table
of statements known to fail: a request for an item without frames is passed over
(`RequestIsServed`); during the conversion test the lists of items to delete and to
clear are not looked at, while cancelling it sets a state that the other slots do not
expect (`SchedulingFindsIdle`); with the setting to go on playing, a new selection keeps a frame
before its range, and the stop button goes to frame 0 wherever the range begins
(`FrameIsSetInRange`); and starting playback makes a plan while threads hold frames
(`MemoryBounded`). That all settings have one memory limit is a choice: right after the limit is
lowered more is cached than it allows, until the next plan is made.

**The planner**. A fold over a list is the last of a sequence of states, one for each place
in the list (`FoldByPosition`), and a property of the fold is one that every step of the
sequence preserves. A step is described by a relation that leaves its arithmetic behind:
`DropsFrom` (an item is emptied, or the level is now below the maximum), `PlayStep`,
`DeleteStep`.

* Overflow (`Freed`): an item is touched only when all items before it in the list are
  empty (`InOrder`), and the selected one is last, going backwards from the one before it. The level
  is the sum over the list after each step (`LevelChanged`).
* Playback (`Split`): what was marked so far is cached, was marked once, is in the order of the list
  and lies in no range that was enqueued; the list is then reversed (`ReverseLemma`), and
  places going forward from the selected item are distances (`DistanceLemma`).
* The deleting loop: the level of the others is at most what the items take that the loop has
  not seen yet (`Left`, `Seen`). After two turns of the list it has seen them all
  (`SeenAll`) and nothing is left (`NothingLeft`), so the selected item fits and the test
  of the loop holds (`DeletingStops`).
* No frame or job is for an item that is not listed, and a frame that may be removed is cached
  and in the list once, whichever branch makes the plan (`PlanStoppedType`, `PlanPlayingLemma`).

**The pool** (`PoolInv`). While `workersState` is `workersIdle` and `startCaching` is not
under way, no thread of the pool works. Four slots rely on this when they delete an item,
clear a cache or make a plan at once. `IdleIsQuiet` is not inductive. What is missing:

* `FillStartsQuiet`: as long as the loop of `startCaching` has not started a job no
  thread works. Otherwise the state could become Idle at its end with threads at work.
* `HoldingIsWorking`: a worker that holds an item is working. Otherwise its step, which
  leaves it working until its signal is handled, would set a thread of an idle pool to work.
* `OutsiderIsIdle`: a thread that is not in the pool is not working. Otherwise a thread
  that joins an idle pool might be.

The proof has one lemma per action. Pushing a job is abstracted by `PushLemma` (either no
worker changes, or one of them gets a job), the handling of a signal by three lemmas
(nothing is started, the loop begins, the thread gets a new job). All other proofs about
`VideoCache` stand on `PoolInv`.

**Requests, interruptions, outdated frames.** Each needs `PoolInv` and one more fact: that
a request that waits names a frame (`RequestInv`); nothing more for an interruption, since
a loop that begins finds no thread at work; that a thread works on frames from before a
change only of an item in the list of items to be cleared (`OutdatedInv`).

**Thread limits.** The threads that cache an item become fewer in every step but pushing a
job, where they are counted before.

**The playlist** (`PlaylistInv`). The calls the main thread has still to make form a list,
and what is right depends on their order: an item that is deleted is tagged first, or not
selected (`DeletedIsTaggedFirst`), and the call to watch the selected item comes last,
after at most a new plan (`WatchComesLast`). So playback that waits is watched, or will
be before the event loop is reached (`WaitInv`).

**Deleted items** (`ItemInv`). That no thread holds a deleted item does not follow from
where items are deleted alone. Between a deletion and the next plan the queues may name
items that are gone; what counts is that no job is taken from them then. So `QueueIsListed`
says when the queues are fresh: while caching runs, while `startCaching` has threads left
to visit, and when the watched item is examined. A cache that is disabled makes no plan,
and what is in its queues may be old; there `DisabledThreadsLeave` helps: its threads
are all working, and each is removed when it reports, before it would be given a job.

**Types of the cache** (`TypeInv`). That everything has its type is not obvious where a
value has a history. A job has a type because the queues do and because a thread of the
test takes an item with more than one frame (`TestItemHasFrames`); the lists of items to
delete and to clear hold items because only items are tagged (`TaggedIsItem`), which
`watchingItem` with its "none" might break; the level is a number because what was cached
of the frames that are taken out of it is one (`DequeuedSpaceLemma`). That workers keep
their types rests on `PoolInv`, the calls on `PlaylistInv`. Unlike what is said about deleted items
this includes the conversion test.

**The memory limit** (`MemoryInv`). `MemoryBounded` is not inductive, since a thread puts its frame
into the cache long after it got the job. What is kept is `Accounted`: what the caches take,
with one more frame for each thread that is at one (`Used`), is at most `cacheLevelCurrent`, which
is at most the limit. A thread that finishes moves its frame from one to the other; an item
that leaves, or is cleared, only lowers what is used. For a job the level is lowered by the
frames removed, so those must be cached and no two the same (`Removable`, `RemovedSpace`) whenever
jobs are taken; that is so because items are cleared only while the threads are being stopped
(`ClearsWhileStopping`), and a new plan follows. A plan sets the level to what is
cached, without the threads, so it may only be made when none is at work: `PoolInv`
has this for every plan but the one that is made when playback starts.

**The buffers of a video handler** (`HandlerInv`). `LockInv`: the thread that copies out of
the shared buffer holds `requestDataMutex`, and the buffer has its frame. `FrameInv`: what a
buffer, a thread or the cache holds is the frame its index names. `CurrentInv`: while no
change is handled, every job and a valid cache belong to the present settings. The last
one rests on the cache being cleared by a slot that waits for the caching threads.

**The player** (`PlayerInv`). A slot of the main thread is a composition of operators that
return sets of states, so the invariant is a predicate of such a state (`Good`), and each operator has
a lemma saying how the state it returns relates to the one it was called in. There are few
such relations: only workers, images and requests change (`Quiet`: everything the view does); the
frame, its range and the items shown stay (`Same`); the frame is set and nothing else
(`Moved`); another selection is shown (`Chosen`); playback has gone to the next item
(`Advanced`). Beside them `SetIn` says that the frame stays, is none, or is one of the
slider's range. `ReturnLemma` carries them over to an action. Neither property is inductive. A stall has
its reason because the only slot that clears what is waited for ends the stall with the last
one, and because no timer runs meanwhile (`Settled`): a timer event during a stall would
replace the items that are waited for. For the range it is needed that the slider's minimum
is not above its maximum, that items with frames have their controls, without which the
range is not updated (`Bounded`), and that the frame is not before the range (`Ranged`). It may
be behind it (`FrameInRange` fails); then the next frame is the first one or one of another item,
and the button for the previous one goes back by one, which `FrameIsSetInRange` allows for it alone.
The stop button goes to frame 0 and is left out.

**The compressed item** (`TypeInv`, `ServiceInv`). The item never asks which picture it was
given; it counts. `ServesFrames` is therefore a statement about the whole way of a picture: place
in the file, unit pushed or refused, library, picture taken out, buffer, raw data. The invariant says it for
each part. `LibraryAt(s, lib, k, e)`: a library that was given the first `k` pictures in coding order
holds those of them from `e` on in display order, and none before `e` is still to come. So
the next one it gives is `e` (`TakeAt`); that it may give it now, because no picture that is still to come is
shown before the first of those that are held back, is where the delay of the stream is used (`HeldBack`), and
that nothing before a random access point comes after it, is where closed groups are
(`RandomAccess`). `DecoderAt` adds the wrapper: whether a picture was taken out and not fetched
(`Out`), the unit HM and VTM have kept to parse again, the flushing. For each wrapper there are
two lemmas, that it stays at its place when it is given data (`PushAt`) and when it is asked for a picture
(`NextAt`). `OnTrack` ties this to the item: `k` is the position in the file, less the unit that was
refused, `e` the frame after the current one. A seek resets the decoder and puts it there (`SeekAt`).
The other conjuncts say that the raw data is what its indices say (`BufferOK`), that a failure or a frame
that is said to be undecodable has a reason (`TroubleOK`), why the threads do not disturb each other (`SharedOK`) and
what they are doing (`ThreadOK`, `IdleOK`). `CompressedServes` then is one lemma per action
of the service: a request is `Ask` (`RequestServes`), an answer `Serve` or `Refuse`
(`DeliverServes`), another decoder `Replace`, and decoding is not seen. Stating it found the
cases that `ServiceAssumption` leaves out: each was a step the invariant did not survive, and TLC confirmed it.

**Conversion**. A frame has one of four layouts: planes, packed, V210, or the lines of NV15,
NV20 and NV30. Each has three lemmas: which sample is where in the planar buffer (`Cells`), that it
lies in the frame (`Bytes`), that it is the one `getPixelValue` names (`Value`). They divide and
multiply with lines, blocks and groups of any width, so they are proved from few facts
about rows and columns (`GridLemma`, `PlaneLemma`). `TapsLemma` says that what the functions for
each subsampling read is, in the plane, the sample of the pixel, those beside it and those
below; `ResampledLemma` adds those above. Then a pixel is known by `DrawnFrom`, and the three properties
follow for all formats at once. The invariant (`ConversionInv`) only says that every change drops the
picture; what has to be proved is the arithmetic. Sizes are any pair of positive
numbers: integers are not bounded here, while the code computes with 32 bits, which frames of
more than 2^31 samples would overflow.

**Sessions** (`SessionInv`). The ids in the tree are distinct and below the counter, so
that a new item can be told from all others, and there is a current frame exactly if a file is
selected (`TreeInv`, `FrameOf`); a program that has ended leaves nothing in memory (`EndedInv`); a
playlist that was saved can be read, its ids are distinct and its slots have frames (`Written`,
`FileInv`); and the autosave is, in Latin-1, a playlist that shows, by places, what the
user saw when it was made (`TickInv`). The last is what survives the crash, and a second one while
restoring, since autosave and history are dropped in one step. Loading gives new ids and finds
items by the last one that remembers the saved id; the lemmas show that this is the
item at the same place among those that could be loaded, whatever the items before remember
(`FoundLemma`, `FoundAgain`). For the selection it is also needed that selecting an item gives a
frame exactly if it is a file (`ChangedLemma`, `ShowsLemma`): then the frame that was saved
is set, and otherwise there was none to save.

**Lists.** Queues and playlists are lists of any length, and an operator for induction has
a parameter no installed prover can instantiate. `ListsProofs` therefore proves an induction
principle over sets of numbers (`Induction`, from the well-foundedness of the natural
numbers) and, by it, what a part of a list contains and in which order (`PartLemma`,
`PartIsInjective`, `PartInOrder`, `PositionsLemma`). The queue of the cache (`ItemListLemma`) and the
items that can be loaded rest on them.

Only model-checked: the bitstream modules (`TypeOK`, `FramesAsCoded`, `FrameDataIsItsPicture`,
`SeekReachesFrame`), which use recursive operators over bytes and units; every other
invariant and action property of the runs is a theorem. Liveness
and `ENABLED` are out of the prover's reach: `CacheComesBack`, `FramesAnswered`,
`CachingSettles`, `TaggedIsDeleted`, `CancelledTestEnds`, `TimerRunsOut` and
`SelectedFrameIsLoaded` stay with TLC.

## Not modelled

* The numbers in the pictures (conversion matrices, interpolation of chroma beyond where it
  reads, the RGB handler), drawing, text and layout: arithmetic on data, which a test
  compares with a reference picture better than a model checker.
* The parsers for AVC, VVC, AV1 and MPEG-2, the HRD buffer, and everything in a NAL unit but
  what decides the order of the pictures: syntax, read bit by bit. The HEVC parser
  stands for the others, whose list of frames is kept by the same base class.
* The libraries (FFmpeg, HM, VTM, dav1d, libde265, VVdeC) and the bindings that load them:
  `Decoder` has what the wrappers rely on.
* `statistics/`: the file parser in the background and its abortion; the compressed item's
  use of statistics is in `CompressedVideo`.
* Containers, difference, resample and overlay items: their handlers forward to those of
  their children. A deletion of a child, with the parent in the cache, is the part of
  this that should be modelled first.
* Split view, plot view, property and bitstream widgets: only what the split view has to
  do with loading is in `FrameLoading`.
* `handler/`: update check and download (network answers, elevation and restart on
  Windows), the single instance socket.
* In the cache: items that are added or moved while caching runs, the message box at the
  end of the test, the destructor.

## What is left to do

1. A composition of `VideoCache` and `VideoHandler`, with loads that fail: now each assumes of the
   other what the other module shows.
2. Containers in `PlaylistItems`, with the deletion of children.
3. Abstract specifications of the player (stopped, playing, waiting) and of the cache (frames
   asked for, frames held), and that the detailed modules implement them.
4. `AnnexBFile` without recursive operators, and the proof that every unit is found.
5. The statistics parser and the update handler.
