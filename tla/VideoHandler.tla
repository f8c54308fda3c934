---------------------------- MODULE VideoHandler ----------------------------
(***************************************************************************)
(* The buffers of one videoHandlerYUV and the three kinds of threads that  *)
(* use them: the main thread draws, changes the format and reloads the     *)
(* file; the interactive loading thread fills the current image and the    *)
(* double buffer; the caching threads fill the image cache.  The item is a *)
(* raw file (playlistItemRawFile), whose requests for raw data succeed.    *)
(*                                                                         *)
(*   settings  frame size, srcPixelFormat and conversionSettings           *)
(*   file      the version of the file on disk; seen: the one last opened  *)
(*   raw       rawData, rawData_frameIndex                                 *)
(*   cur       currentFrameRawData, currentFrameRawData_frameIndex         *)
(*   image     currentImage, currentImageIndex                             *)
(*   double    doubleBufferImage, doubleBufferImageFrameIndex              *)
(*   cache     imageCache; valid: cacheValid                               *)
(*   lock      the thread that holds requestDataMutex                      *)
(*   loader    the interactive worker; job: the caching workers            *)
(*   main      where the main thread is in the change of a control; other: *)
(*             the settings before the change, or those to be set          *)
(*   clearing  the item is in VideoCache::itemsToClearCache                *)
(*   view      the frame the playback controller shows; playing            *)
(*   use, ops  what the user may do (bounds of the model); done so far     *)
(***************************************************************************)
EXTENDS Integers

CONSTANTS LastFrame,    \* the frames are 0 .. LastFrame
          Setting,      \* the settings the controls offer
          InitialSettings, \* the settings found when the file was opened
          BytesOf,      \* the number of bytes per frame under a setting
          Cacher,       \* the caching threads
          None,         \* no picture, no thread
          Uses          \* what the user does, how often, how many versions of
                        \* the file and which caching threads there are, and
                        \* whether the item is selected (shown)

NoFrame == -1
Frame == 0 .. LastFrame
Index == Frame \cup {NoFrame}

OpNames == {"control", "size", "custom", "play", "show"}

ASSUME HandlerAssumption ==
    /\ LastFrame \in Nat
    /\ InitialSettings \in Setting
    /\ BytesOf \in [Setting -> Nat]
    /\ Uses \subseteq [ops: SUBSET OpNames, max: Nat, files: Nat, threads: SUBSET Cacher,
                     selected: BOOLEAN]

\* The raw data of a frame depends on how many bytes a frame has and on the file;
\* the picture on the settings of the conversion too.
Data == [frame: Frame, bytes: Nat, file: Nat]
Picture == [data: Data, settings: Setting]
ASSUME NoneAssumption ==
    /\ None \notin Data \cup Picture \cup Setting \cup Cacher \cup {"loader"}
    /\ "loader" \notin Cacher

VARIABLES settings, file, seen, raw, cur, image, double, cache, valid, lock,
          loader, job, main, other, clearing, view, playing, ops, use

conf == <<settings, file, seen>>
buffers == <<raw, cur, image, double>>
caches == <<cache, valid>>
user == <<view, playing, ops, use>>
control == <<main, other>>
vars == <<conf, buffers, caches, lock, loader, job, control, clearing, user>>

NoData == [data |-> None, index |-> NoFrame]
NoImage == [picture |-> None, index |-> NoFrame]
NoLoad == [pc |-> "idle", frame |-> 0, playing |-> FALSE, double |-> FALSE,
           picture |-> None]
NoJob == [pc |-> "idle", frame |-> 0, settings |-> None, data |-> None]

-----------------------------------------------------------------------------
(* Deciding what to load and reading raw data.                             *)

InCache(f) == f \in Frame /\ cache[f] # None

\* videoHandler::needsLoading: what frame f lacks to be drawn.
HasNext(f) == double.index = f + 1 \/ (valid /\ InCache(f + 1))

needsLoading(f) ==
    IF image.index = f
    THEN IF HasNext(f) THEN "not" ELSE "double"
    ELSE IF double.index = f
    THEN IF valid /\ InCache(f + 1) THEN "not" ELSE "double"
    ELSE IF valid /\ InCache(f)
    THEN IF HasNext(f) THEN "not" ELSE "double"
    ELSE "needed"

\* playlistItemRawFile::loadRawData reads as many bytes as a frame has now.
loadRawData(f) ==
    raw' = [data |-> [frame |-> f, bytes |-> BytesOf[settings], file |-> file],
            index |-> f]

-----------------------------------------------------------------------------
(* The interactive worker runs playlistItemWithVideo::loadFrame.           *)

LoaderUnchanged ==
    UNCHANGED <<conf, caches, job, control, clearing, user>>

Goto(pc) == loader' = [loader EXCEPT !.pc = pc]

AfterLoad_PastTheEnd ==
    loader' = IF loader.playing /\ ~loader.double
              THEN [loader EXCEPT !.pc = "load", !.double = TRUE, !.frame = @ + 1,
                                  !.picture = None]
              ELSE NoLoad

\* A frame is loaded: next the one after it, into the double buffer, if playing.
AfterLoad ==
    loader' = IF loader.playing /\ ~loader.double /\ loader.frame < LastFrame
              THEN [loader EXCEPT !.pc = "load", !.double = TRUE, !.frame = @ + 1,
                                  !.picture = None]
              ELSE NoLoad

\* VideoCache::loadFrame, called by the view for the frame it shows.
Load_Starts ==
    /\ main = "idle" /\ loader.pc = "idle" /\ use.selected
    /\ needsLoading(view) = "needed" \/ (playing /\ needsLoading(view) = "double")
    /\ loader' = [loader EXCEPT !.pc = "check", !.frame = view,
                                !.playing = playing, !.double = FALSE]
    /\ LoaderUnchanged /\ UNCHANGED <<buffers, lock>>

Load_Check ==
    /\ loader.pc = "check"
    /\ LET state == needsLoading(loader.frame) IN
       \/ state = "needed" /\ Goto("load")
       \/ state = "double" /\ AfterLoad
       \/ state = "not" /\ loader' = NoLoad
    /\ LoaderUnchanged /\ UNCHANGED <<buffers, lock>>

\* videoHandlerYUV::loadRawYUVData: the data is there, or it is requested.
Load_HasRaw_AnyFrame ==
    /\ loader.pc = "load"
    /\ cur.index # NoFrame /\ valid
    /\ Goto("convert")
    /\ LoaderUnchanged /\ UNCHANGED <<buffers, lock>>

Load_HasRaw ==
    /\ loader.pc = "load"
    /\ cur.index = loader.frame /\ valid
    /\ Goto("convert")
    /\ LoaderUnchanged /\ UNCHANGED <<buffers, lock>>

Load_Request ==
    /\ loader.pc = "load"
    /\ ~(cur.index = loader.frame /\ valid)
    /\ lock = None
    /\ lock' = "loader"
    /\ loadRawData(loader.frame)
    /\ Goto("copy")
    /\ LoaderUnchanged /\ UNCHANGED <<cur, image, double>>

Load_Copy ==
    /\ loader.pc = "copy"
    /\ lock' = None
    /\ \/ /\ raw.index = loader.frame
          /\ cur' = raw
          /\ Goto("convert")
       \/ /\ raw.index # loader.frame
          /\ AfterLoad
          /\ UNCHANGED cur
    /\ LoaderUnchanged /\ UNCHANGED <<raw, image, double>>

\* videoHandlerYUV::loadFrame converts with the settings it finds now.
Load_Convert ==
    /\ loader.pc = "convert"
    /\ \/ /\ loader.double \/ image.index # loader.frame
          /\ loader' = [loader EXCEPT !.pc = "set",
                            !.picture = [data |-> cur.data, settings |-> settings]]
       \/ /\ ~loader.double /\ image.index = loader.frame
          /\ AfterLoad
    /\ LoaderUnchanged /\ UNCHANGED <<buffers, lock>>

Load_Set ==
    /\ loader.pc = "set"
    /\ LET filled == [picture |-> loader.picture, index |-> loader.frame]
       IN  IF loader.double
           THEN double' = filled /\ UNCHANGED image
           ELSE image' = filled /\ UNCHANGED double
    /\ AfterLoad
    /\ LoaderUnchanged /\ UNCHANGED <<raw, cur, lock>>

Loader ==
    Load_Check \/ Load_HasRaw \/ Load_Request \/ Load_Copy \/ Load_Convert \/ Load_Set

-----------------------------------------------------------------------------
(* A caching worker runs videoHandler::cacheFrame.                         *)

CacherUnchanged == UNCHANGED <<conf, cur, image, double, loader, control, user>>

DoneJob == [NoJob EXCEPT !.pc = "done"]

\* LoadingWorker::currentCacheItem is set.
Caching(t) == job[t].pc \notin {"idle", "done"}

\* VideoCache::pushNextJobToCachingThread; after a request to clear the item no
\* job is pushed until its threads are done.
Cache_Starts(t, f) ==
    /\ main = "idle" /\ ~clearing /\ job[t].pc = "idle"
    /\ t \in use.threads /\ f \in Frame
    /\ job' = [job EXCEPT ![t] = [NoJob EXCEPT !.pc = "start", !.frame = f]]
    /\ CacherUnchanged /\ UNCHANGED <<raw, caches, lock, clearing>>

Cache_Begin(t) ==
    /\ job[t].pc = "start"
    /\ \/ /\ valid /\ InCache(job[t].frame)
          /\ job' = [job EXCEPT ![t] = DoneJob]
       \/ /\ ~(valid /\ InCache(job[t].frame))
          /\ job' = [job EXCEPT ![t].pc = "request", ![t].settings = settings]
    /\ CacherUnchanged /\ UNCHANGED <<raw, caches, lock, clearing>>

\* videoHandlerYUV::loadFrameForCaching requests and copies under the mutex ...
Cache_Request(t) ==
    /\ job[t].pc = "request"
    /\ lock = None
    /\ lock' = t
    /\ loadRawData(job[t].frame)
    /\ job' = [job EXCEPT ![t].pc = "copy"]
    /\ CacherUnchanged /\ UNCHANGED <<caches, clearing>>

Cache_Copy(t) ==
    /\ job[t].pc = "copy"
    /\ lock' = None
    /\ job' = [job EXCEPT ![t].pc = "compare", ![t].data = raw.data]
    /\ CacherUnchanged /\ UNCHANGED <<raw, caches, clearing>>

\* ... and compares the index, which the next request may have replaced, after.
Cache_Compare(t) ==
    /\ job[t].pc = "compare"
    /\ \/ /\ raw.index = job[t].frame
          /\ job' = [job EXCEPT ![t].pc = "insert"]
       \/ /\ raw.index # job[t].frame
          /\ job' = [job EXCEPT ![t] = DoneJob]
    /\ CacherUnchanged /\ UNCHANGED <<raw, caches, lock, clearing>>

Cache_Insert(t) ==
    /\ job[t].pc = "insert"
    /\ IF valid
       THEN cache' = [cache EXCEPT ![job[t].frame] =
                          [data |-> job[t].data, settings |-> job[t].settings]]
       ELSE UNCHANGED cache
    /\ job' = [job EXCEPT ![t] = DoneJob]
    /\ CacherUnchanged /\ UNCHANGED <<raw, valid, lock, clearing>>

removeAllFrameFromCache ==
    /\ cache' = [f \in Frame |-> None]
    /\ valid' = TRUE

Cache_Finished_Forgets(t) ==
    /\ main = "idle" /\ job[t].pc = "done"
    /\ job' = [job EXCEPT ![t] = NoJob]
    /\ clearing' = (clearing /\ \E u \in Cacher : Caching(u))
    /\ CacherUnchanged /\ UNCHANGED <<raw, caches, lock>>

\* VideoCache::threadCachingFinished clears the item when no thread works on it.
Cache_Finished(t) ==
    /\ main = "idle" /\ job[t].pc = "done"
    /\ job' = [job EXCEPT ![t] = NoJob]
    /\ IF clearing /\ \A u \in Cacher : ~Caching(u)
       THEN removeAllFrameFromCache /\ clearing' = FALSE
       ELSE UNCHANGED <<caches, clearing>>
    /\ CacherUnchanged /\ UNCHANGED <<raw, lock>>

CachingThread(t) ==
    Cache_Begin(t) \/ Cache_Request(t) \/ Cache_Copy(t) \/ Cache_Compare(t)
    \/ Cache_Insert(t)

-----------------------------------------------------------------------------
(* The main thread.                                                        *)

MainUnchanged == UNCHANGED <<lock, loader, job>>

User(op) == main = "idle" /\ op \in use.ops /\ ops < use.max /\ ops' = ops + 1

\* videoHandlerYUV::slotYUVControlChanged and setSrcPixelFormat: the settings are
\* assigned, then the buffers are marked, then the view and the cache are told.
ControlChanges(s) ==
    /\ User("control")
    /\ s \in Setting \ {settings}
    /\ settings' = s /\ other' = settings
    /\ main' = "assigned"
    /\ MainUnchanged /\ UNCHANGED <<file, seen, buffers, caches, clearing, view, playing, use>>

Invalidate ==
    /\ main = "assigned"
    /\ image' = [image EXCEPT !.index = NoFrame]
    /\ cur' = IF BytesOf[other] # BytesOf[settings]
              THEN [cur EXCEPT !.index = NoFrame] ELSE cur
    /\ valid' = FALSE
    /\ main' = "signal"
    /\ MainUnchanged /\ UNCHANGED <<conf, raw, double, cache, other, clearing, user>>

\* videoHandler::slotVideoControlChanged marks first, and sets a valid size only.
SizeChanges(s) ==
    /\ User("size")
    /\ s \in Setting \ {settings}
    /\ other' = s
    /\ image' = [image EXCEPT !.index = NoFrame]
    /\ valid' = FALSE
    /\ main' = "resized"
    /\ MainUnchanged
    /\ UNCHANGED <<conf, raw, cur, double, cache, clearing, view, playing, use>>

setFrameSize ==
    /\ main = "resized"
    /\ settings' = other
    /\ raw' = [raw EXCEPT !.index = NoFrame]
    /\ cur' = [cur EXCEPT !.index = NoFrame]
    /\ image' = [image EXCEPT !.index = NoFrame]
    /\ main' = "signal"
    /\ MainUnchanged /\ UNCHANGED <<file, seen, double, caches, other, clearing, user>>

\* The entry "Custom Size" of the list of sizes is no valid size.
CustomSize ==
    /\ User("custom")
    /\ image' = [image EXCEPT !.index = NoFrame]
    /\ valid' = FALSE
    /\ MainUnchanged
    /\ UNCHANGED <<conf, raw, cur, double, cache, control, clearing, view, playing, use>>

SignalRecache_ClearsNow ==
    /\ main = "signal"
    /\ main' = "idle"
    /\ removeAllFrameFromCache
    /\ MainUnchanged /\ UNCHANGED <<conf, buffers, other, clearing, user>>

\* signalHandlerChanged(true, RECACHE_CLEAR), answered by VideoCache::itemNeedsRecache.
SignalRecache ==
    /\ main = "signal"
    /\ main' = "idle"
    /\ IF \E t \in Cacher : Caching(t)
       THEN clearing' = TRUE /\ UNCHANGED caches
       ELSE removeAllFrameFromCache /\ UNCHANGED clearing
    /\ MainUnchanged /\ UNCHANGED <<conf, buffers, other, user>>

\* Another program writes the file.
FileChanges ==
    /\ file < use.files
    /\ file' = file + 1
    /\ MainUnchanged
    /\ UNCHANGED <<settings, seen, buffers, caches, control, clearing, user>>

\* Not the double buffer.
invalidateAllBuffers ==
    /\ raw' = [raw EXCEPT !.index = NoFrame]
    /\ cur' = [cur EXCEPT !.index = NoFrame]
    /\ image' = NoImage
    /\ removeAllFrameFromCache
    /\ UNCHANGED double

\* playlistItemRawFile::reloadItemSource asks for no clearing of the cache.
Reload ==
    /\ main = "idle" /\ seen # file
    /\ seen' = file
    /\ invalidateAllBuffers
    /\ MainUnchanged
    /\ UNCHANGED <<settings, file, control, clearing, user>>

activated == IF double.index # NoFrame THEN double ELSE image

\* Another frame is selected; a playing view that lacks only the frame after it
\* takes the double buffer (splitViewWidget::update, activateDoubleBuffer).
ShowFrame(f) ==
    /\ User("show")
    /\ f \in Frame \ {view}
    /\ view' = f
    /\ image' = IF playing /\ needsLoading(f) = "double" THEN activated ELSE image
    /\ MainUnchanged
    /\ UNCHANGED <<conf, raw, cur, double, caches, control, clearing, playing, use>>

PlayPause ==
    /\ User("play")
    /\ playing' = ~playing
    /\ MainUnchanged /\ UNCHANGED <<conf, buffers, caches, control, clearing, view, use>>

\* videoHandler::drawFrame.
drawFrame ==
    /\ main = "idle" /\ use.selected /\ view # image.index
    /\ \/ /\ view = double.index
          /\ image' = double
       \/ /\ view # double.index /\ valid /\ InCache(view)
          /\ image' = [picture |-> cache[view], index |-> view]
    /\ MainUnchanged
    /\ UNCHANGED <<conf, raw, cur, double, caches, control, clearing, user>>

\* VideoCache makes room.
removeFrameFromCache(f) ==
    /\ main = "idle" /\ InCache(f)
    /\ cache' = [cache EXCEPT ![f] = None]
    /\ MainUnchanged /\ UNCHANGED <<conf, buffers, valid, control, clearing, user>>

Init ==
    /\ settings = InitialSettings /\ other = settings
    /\ file = 0 /\ seen = 0
    /\ raw = NoData /\ cur = NoData
    /\ image = NoImage /\ double = NoImage
    /\ cache = [f \in Frame |-> None] /\ valid = TRUE
    /\ lock = None
    /\ loader = NoLoad
    /\ job = [t \in Cacher |-> NoJob]
    /\ main = "idle" /\ clearing = FALSE
    /\ view = 0 /\ playing = FALSE /\ ops = 0 /\ use \in Uses

Next ==
    \/ Load_Starts \/ Loader
    \/ \E t \in Cacher : \/ \E f \in Frame : Cache_Starts(t, f)
                         \/ CachingThread(t) \/ Cache_Finished(t)
    \/ \E s \in Setting : ControlChanges(s) \/ SizeChanges(s)
    \/ Invalidate \/ setFrameSize \/ CustomSize \/ SignalRecache
    \/ FileChanges \/ Reload
    \/ \E f \in Frame : ShowFrame(f) \/ removeFrameFromCache(f)
    \/ PlayPause \/ drawFrame

Spec == Init /\ [][Next]_vars

\* Threads run, the main thread finishes its handlers and handles posted events.
Fairness ==
    /\ WF_vars(Loader)
    /\ \A t \in Cacher : WF_vars(CachingThread(t)) /\ WF_vars(Cache_Finished(t))
    /\ WF_vars(Invalidate \/ setFrameSize \/ SignalRecache)

FairSpec == Spec /\ Fairness
-----------------------------------------------------------------------------
(* Properties.                                                             *)

ConfOK ==
    /\ settings \in Setting /\ other \in Setting
    /\ file \in Nat /\ seen \in Nat
    /\ main \in {"idle", "assigned", "resized", "signal"}
    /\ clearing \in BOOLEAN
    /\ view \in Frame /\ playing \in BOOLEAN /\ ops \in Nat /\ use \in Uses

BuffersOK ==
    /\ raw \in [data: Data \cup {None}, index: Index]
    /\ cur \in [data: Data \cup {None}, index: Index]
    /\ image \in [picture: Picture \cup {None}, index: Index]
    /\ double \in [picture: Picture \cup {None}, index: Index]
    /\ cache \in [Frame -> Picture \cup {None}] /\ valid \in BOOLEAN

LoadPC == {"idle", "check", "load", "copy", "convert", "set"}
JobPC == {"idle", "start", "request", "copy", "compare", "insert", "done"}

LoaderType == [pc: LoadPC, frame: Frame, playing: BOOLEAN, double: BOOLEAN,
               picture: Picture \cup {None}]
JobType == [pc: JobPC, frame: Frame, settings: Setting \cup {None},
            data: Data \cup {None}]

ThreadsOK ==
    /\ lock \in {None, "loader"} \cup Cacher
    /\ loader \in LoaderType
    /\ job \in [Cacher -> JobType]

TypeOK == ConfOK /\ BuffersOK /\ ThreadsOK

\* The picture is of frame f under the present settings.
IsCurrent(picture, f) ==
    /\ picture # None
    /\ picture.settings = settings
    /\ picture.data.frame = f /\ picture.data.bytes = BytesOf[settings]

\* A cache that is valid and not waiting to be cleared holds pictures of the right
\* frames, read and converted with the present settings, whichever caching threads
\* were at work when the settings changed (the comment on cacheValid).
CachedPicturesCurrent ==
    main = "idle" /\ valid /\ ~clearing =>
        \A f \in Frame : cache[f] # None => IsCurrent(cache[f], f)

\* A buffer with an index holds that frame: the current image, the double buffer
\* and the raw data of the current frame are never those of another frame, though
\* three kinds of threads share the buffer for raw data.
IndexNamesFrame ==
    /\ image.index # NoFrame =>
           image.picture # None /\ image.picture.data.frame = image.index
    /\ double.index # NoFrame =>
           double.picture # None /\ double.picture.data.frame = double.index
    /\ cur.index # NoFrame => cur.data # None /\ cur.data.frame = cur.index

\* The request to clear the cache is not lost when threads are working on the item:
\* after a change of the settings the cache becomes valid again.
CacheComesBack == (main = "signal") ~> (valid /\ ~clearing)

\* "With the next drawFrame(), the data will be reloaded from file": what is drawn
\* from a buffer is not older than the last reload.
DrawnIsReloaded ==
    [][drawFrame => image'.picture.data.file >= seen]_vars
=============================================================================
