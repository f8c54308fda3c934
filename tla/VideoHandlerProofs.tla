------------------------- MODULE VideoHandlerProofs -------------------------
(***************************************************************************)
(* Proofs about VideoHandler, for any number of frames, settings and       *)
(* caching threads: the types, that an index names the frame of its        *)
(* buffer, and that a valid cache holds pictures of the present settings.  *)
(***************************************************************************)
EXTENDS VideoHandler, TLAPS

\* requestDataMutex is held by the thread that copies, and the shared buffer holds
\* the frame that thread asked for.
LockInv ==
    /\ loader.pc = "copy" => lock = "loader" /\ raw.data # None
                             /\ raw.data.frame = loader.frame
    /\ \A t \in Cacher :
           job[t].pc = "copy" => lock = t /\ raw.data # None
                                 /\ raw.data.frame = job[t].frame

\* What a buffer or a thread holds is the frame its index or its job names.
FrameInv ==
    /\ IndexNamesFrame
    /\ raw.index # NoFrame => raw.data # None /\ raw.data.frame = raw.index
    /\ loader.pc = "convert" => cur.data # None /\ cur.data.frame = loader.frame
    /\ loader.pc = "set" =>
           loader.picture # None /\ loader.picture.data.frame = loader.frame
    /\ \A f \in Frame : cache[f] # None => cache[f].data.frame = f
    /\ \A t \in Cacher : job[t].pc \in {"compare", "insert"} =>
           job[t].data # None /\ job[t].data.frame = job[t].frame
    /\ \A t \in Cacher : job[t].pc \in {"request", "copy", "compare", "insert"} =>
           job[t].settings # None

\* While no change is being handled, every job under way works with the present
\* settings, and so does everything in a valid cache.
JobIsCurrent(t) ==
    /\ job[t].pc \in {"request", "copy", "compare", "insert"} =>
           job[t].settings = settings
    /\ job[t].pc = "copy" => raw.data.bytes = BytesOf[settings]
    /\ job[t].pc \in {"compare", "insert"} => job[t].data.bytes = BytesOf[settings]

CacheIsCurrent ==
    valid => \A f \in Frame : cache[f] # None =>
                 cache[f].settings = settings /\ cache[f].data.bytes = BytesOf[settings]

CurrentInv ==
    main = "idle" /\ ~clearing => (\A t \in Cacher : JobIsCurrent(t)) /\ CacheIsCurrent

\* The inductive invariant.
HandlerInv == TypeOK /\ LockInv /\ FrameInv /\ CurrentInv
-----------------------------------------------------------------------------

USE HandlerAssumption, NoneAssumption DEF HandlerAssumption, NoneAssumption

\* Init establishes the invariant.
LEMMA InitHandler == Init => HandlerInv
<1> SUFFICES ASSUME Init
             PROVE  HandlerInv
  OBVIOUS
<1> USE DEF Init, NoData, NoImage, NoLoad, NoJob, NoFrame, Frame, Index
<1>1. ConfOK
  <2>1. settings \in Setting /\ other \in Setting /\ use \in Uses /\ view \in Frame
    OBVIOUS
  <2>2. QED
    BY <2>1 DEF ConfOK
<1>2. BuffersOK
  BY DEF BuffersOK
<1>3. ThreadsOK
  BY DEF ThreadsOK, LoadPC, JobPC, LoaderType, JobType
<1>4. LockInv
  BY DEF LockInv
<1>5. FrameInv
  BY DEF FrameInv, IndexNamesFrame
<1>6. CurrentInv
  BY DEF CurrentInv, JobIsCurrent, CacheIsCurrent
<1>7. QED
  BY <1>1, <1>2, <1>3, <1>4, <1>5, <1>6 DEF HandlerInv, TypeOK

\* Reading raw data gives data of the frame and of as many bytes as a frame has.
LEMMA RawLemma ==
    ASSUME TypeOK, NEW f \in Frame, loadRawData(f)
    PROVE  /\ raw' \in [data: Data, index: Index]
           /\ raw'.data # None /\ raw'.index = f
           /\ raw'.data.frame = f /\ raw'.data.bytes = BytesOf[settings]
BY DEF TypeOK, ConfOK, loadRawData, Data, Index

\* After a frame the worker is done, or loads the next one of the item.
LEMMA AfterLoadLemma ==
    ASSUME TypeOK, AfterLoad
    PROVE  loader' \in LoaderType /\ loader'.pc \in {"idle", "load"}
<1> USE DEF TypeOK, ThreadsOK, LoaderType, LoadPC, Frame, AfterLoad, NoLoad
<1>1. CASE loader.playing /\ ~loader.double /\ loader.frame < LastFrame
  <2>1. loader.frame + 1 \in Frame
    BY <1>1
  <2>2. QED
    BY <1>1, <2>1
<1>2. CASE ~(loader.playing /\ ~loader.double /\ loader.frame < LastFrame)
  BY <1>2
<1>3. QED
  BY <1>1, <1>2

\* The steps of the worker, by what becomes of its job.
LEMMA LoaderLemma ==
    ASSUME HandlerInv, Loader \/ Load_Starts
    PROVE  /\ loader' \in LoaderType
           /\ loader'.pc = "copy" => Load_Request
           /\ loader'.pc = "convert" => Load_HasRaw \/ Load_Copy
           /\ loader'.pc = "set" => Load_Convert
<1> USE DEF HandlerInv, TypeOK, ThreadsOK, LoaderType, LoadPC
<1>1. CASE Load_Starts
  BY <1>1 DEF Load_Starts, ConfOK
<1>2. CASE Load_Check
  <2>1. \/ AfterLoad \/ loader' = NoLoad
        \/ loader' = [loader EXCEPT !.pc = "load"]
    BY <1>2 DEF Load_Check, Goto
  <2>2. NoLoad \in LoaderType /\ NoLoad.pc = "idle"
    BY DEF NoLoad, Frame
  <2>3. QED
    BY <1>2, <2>1, <2>2, AfterLoadLemma DEF Load_Check
<1>3. CASE Load_HasRaw
  BY <1>3 DEF Load_HasRaw, Goto
<1>4. CASE Load_Request
  BY <1>4 DEF Load_Request, Goto
<1>5. CASE Load_Copy
  <2>1. AfterLoad \/ loader' = [loader EXCEPT !.pc = "convert"]
    BY <1>5 DEF Load_Copy, Goto
  <2>2. QED
    BY <1>5, <2>1, AfterLoadLemma
<1>6. CASE Load_Convert
  <2>1. cur.data \in Data
    BY <1>6 DEF Load_Convert, FrameInv, BuffersOK
  <2>2. [data |-> cur.data, settings |-> settings] \in Picture
    BY <2>1 DEF ConfOK, Picture
  <2>3. AfterLoad \/ loader' = [loader EXCEPT !.pc = "set",
                          !.picture = [data |-> cur.data, settings |-> settings]]
    BY <1>6 DEF Load_Convert
  <2>4. QED
    BY <1>6, <2>2, <2>3, AfterLoadLemma
<1>7. CASE Load_Set
  BY <1>7, AfterLoadLemma DEF Load_Set
<1>8. QED
  BY <1>1, <1>2, <1>3, <1>4, <1>5, <1>6, <1>7 DEF Loader

\* A step keeps the types of the configuration and of what the user does,
LEMMA ConfStep ==
    ASSUME HandlerInv, Next
    PROVE  ConfOK'
<1> USE DEF HandlerInv, TypeOK, ConfOK, conf, buffers, caches, user, control,
           LoaderUnchanged, CacherUnchanged, MainUnchanged
<1>1. ASSUME NEW t \in Cacher, Cache_Finished(t)
      PROVE  ConfOK'
  BY <1>1 DEF Cache_Finished, NoJob, removeAllFrameFromCache, Caching
<1>2. ASSUME NEW s \in Setting, ControlChanges(s)
      PROVE  ConfOK'
  BY <1>2 DEF ControlChanges, User
<1>3. ASSUME NEW s \in Setting, SizeChanges(s)
      PROVE  ConfOK'
  BY <1>3 DEF SizeChanges, User
<1>4. CASE Invalidate
  BY <1>4 DEF Invalidate
<1>5. CASE setFrameSize
  BY <1>5 DEF setFrameSize
<1>6. CASE CustomSize
  BY <1>6 DEF CustomSize, User
<1>7. CASE SignalRecache
  BY <1>7 DEF SignalRecache, removeAllFrameFromCache, Caching
<1>8. CASE FileChanges
  BY <1>8 DEF FileChanges
<1>9. CASE Reload
  BY <1>9 DEF Reload, invalidateAllBuffers, removeAllFrameFromCache, NoImage
<1>10. ASSUME NEW f \in Frame, ShowFrame(f)
      PROVE  ConfOK'
  BY <1>10 DEF ShowFrame, User, activated
<1>11. CASE PlayPause
  BY <1>11 DEF PlayPause, User
<1>12. CASE Load_Starts \/ Load_Check \/ Load_HasRaw \/ Load_Request \/ Load_Copy \/
          Load_Convert \/ Load_Set
  <2>1. UNCHANGED <<conf, control, clearing, user>>
    BY <1>12 DEF Load_Starts, Load_Check, Load_HasRaw, Load_Request, Load_Copy,
       Load_Convert, Load_Set, Goto
  <2>2. QED
    BY <2>1
<1>13. ASSUME NEW t \in Cacher,
             Cache_Begin(t) \/ Cache_Request(t) \/ Cache_Copy(t) \/
             Cache_Compare(t) \/ Cache_Insert(t) \/ (\E f \in Frame :
             Cache_Starts(t, f))
      PROVE  ConfOK'
  <2>1. UNCHANGED <<conf, control, clearing, user>>
    BY <1>13 DEF Cache_Starts, Cache_Begin, Cache_Request, Cache_Copy,
       Cache_Compare, Cache_Insert
  <2>2. QED
    BY <2>1
<1>14. CASE drawFrame
  <2>1. UNCHANGED <<conf, control, clearing, user>>
    BY <1>14 DEF drawFrame
  <2>2. QED
    BY <2>1
<1>15. ASSUME NEW f \in Frame, removeFrameFromCache(f)
      PROVE  ConfOK'
  <2>1. UNCHANGED <<conf, control, clearing, user>>
    BY <1>15 DEF removeFrameFromCache
  <2>2. QED
    BY <2>1
<1>16. QED
  BY <1>1, <1>2, <1>3, <1>4, <1>5, <1>6, <1>7, <1>8, <1>9, <1>10, <1>11, <1>12,
     <1>13, <1>14, <1>15 DEF Next, Loader, CachingThread

\* the types of the buffers,
LEMMA BuffersStep ==
    ASSUME HandlerInv, Next
    PROVE  BuffersOK'
<1> USE DEF HandlerInv, TypeOK, ConfOK, BuffersOK, ThreadsOK, Index, conf, buffers,
           caches, user, control, LoaderUnchanged, CacherUnchanged, MainUnchanged
<1>1. CASE Load_Request
  <2>1. loader.frame \in Frame /\ loadRawData(loader.frame)
    BY <1>1 DEF Load_Request, LoaderType, JobType
  <2>2. QED
    BY <1>1, <2>1, RawLemma DEF Load_Request, Goto
<1>2. CASE Load_Copy
  BY <1>2 DEF Load_Copy
<1>3. CASE Load_Set
  <2>1. [picture |-> loader.picture, index |-> loader.frame] \in
            [picture: Picture \cup {None}, index: Index]
    BY DEF LoaderType
  <2>2. QED
    BY <1>3, <2>1 DEF Load_Set
<1>4. ASSUME NEW t \in Cacher, Cache_Request(t)
      PROVE  BuffersOK'
  <2>1. job[t].frame \in Frame /\ loadRawData(job[t].frame)
    BY <1>4 DEF Cache_Request, LoaderType, JobType
  <2>2. QED
    BY <1>4, <2>1, RawLemma DEF Cache_Request
<1>5. ASSUME NEW t \in Cacher, Cache_Insert(t)
      PROVE  BuffersOK'
  <2>1. job[t].data \in Data /\ job[t].settings \in Setting /\ job[t].frame \in Frame
    BY <1>5 DEF Cache_Insert, FrameInv, JobType
  <2>2. [data |-> job[t].data, settings |-> job[t].settings] \in Picture
    BY <2>1 DEF Picture
  <2>3. QED
    BY <1>5, <2>1, <2>2 DEF Cache_Insert
<1>6. ASSUME NEW t \in Cacher, Cache_Finished(t)
      PROVE  BuffersOK'
  <2>1. /\ UNCHANGED <<raw, cur, image, double>>
        /\ \/ UNCHANGED caches
           \/ cache' = [f \in Frame |-> None] /\ valid' = TRUE
    BY <1>6 DEF Cache_Finished, removeAllFrameFromCache
  <2>2. QED
    BY <2>1
<1>7. CASE Invalidate
  BY <1>7 DEF Invalidate
<1>8. ASSUME NEW s \in Setting, SizeChanges(s)
      PROVE  BuffersOK'
  BY <1>8 DEF SizeChanges, User
<1>9. CASE setFrameSize
  BY <1>9 DEF setFrameSize
<1>10. CASE CustomSize
  BY <1>10 DEF CustomSize, User
<1>11. CASE SignalRecache
  BY <1>11 DEF SignalRecache, removeAllFrameFromCache, Caching
<1>12. CASE Reload
  BY <1>12 DEF Reload, invalidateAllBuffers, removeAllFrameFromCache, NoImage
<1>13. ASSUME NEW f \in Frame, ShowFrame(f)
      PROVE  BuffersOK'
  BY <1>13 DEF ShowFrame, User, activated
<1>14. ASSUME NEW f \in Frame, removeFrameFromCache(f)
      PROVE  BuffersOK'
  BY <1>14 DEF removeFrameFromCache
<1>15. CASE drawFrame
  BY <1>15 DEF drawFrame
<1>16. CASE Load_Starts \/ Load_Check \/ Load_HasRaw \/ Load_Convert
  <2>1. UNCHANGED <<buffers, caches>>
    BY <1>16 DEF Load_Starts, Load_Check, Load_HasRaw, Load_Convert, Goto
  <2>2. QED
    BY <2>1
<1>17. ASSUME NEW t \in Cacher,
             Cache_Begin(t) \/ Cache_Copy(t) \/ Cache_Compare(t) \/ (\E
             f \in Frame : Cache_Starts(t, f))
      PROVE  BuffersOK'
  <2>1. UNCHANGED <<buffers, caches>>
    BY <1>17 DEF Cache_Starts, Cache_Begin, Cache_Copy, Cache_Compare
  <2>2. QED
    BY <2>1
<1>18. CASE FileChanges \/ PlayPause
  <2>1. UNCHANGED <<buffers, caches>>
    BY <1>18 DEF FileChanges, PlayPause, User
  <2>2. QED
    BY <2>1
<1>19. ASSUME NEW s \in Setting, ControlChanges(s)
      PROVE  BuffersOK'
  <2>1. UNCHANGED <<buffers, caches>>
    BY <1>19 DEF ControlChanges, User
  <2>2. QED
    BY <2>1
<1>20. QED
  BY <1>1, <1>2, <1>3, <1>4, <1>5, <1>6, <1>7, <1>8, <1>9, <1>10, <1>11, <1>12,
     <1>13, <1>14, <1>15, <1>16, <1>17, <1>18, <1>19 DEF Next, Loader, CachingThread

\* A job is replaced by one of the right type.
LEMMA JobLemma ==
    ASSUME HandlerInv, NEW t \in Cacher, NEW f \in Frame,
           CachingThread(t) \/ Cache_Starts(t, f) \/ Cache_Finished(t)
    PROVE  \E j \in JobType : job' = [job EXCEPT ![t] = j]
<1> USE DEF HandlerInv, TypeOK, ThreadsOK, JobType, JobPC
<1>1. /\ job[t] \in JobType
      /\ NoJob \in JobType /\ DoneJob \in JobType
      /\ [NoJob EXCEPT !.pc = "start", !.frame = f] \in JobType
  <2>1. NoJob \in JobType
    BY DEF NoJob, Frame
  <2>2. QED
    BY <2>1 DEF DoneJob
<1>2. CASE Cache_Starts(t, f)
  BY <1>1, <1>2 DEF Cache_Starts
<1>3. CASE Cache_Begin(t)
  <2>1. [job[t] EXCEPT !.pc = "request", !.settings = settings] \in JobType
    BY <1>1 DEF ConfOK
  <2>2. \/ job' = [job EXCEPT ![t] = DoneJob]
        \/ job' = [job EXCEPT ![t] =
                       [job[t] EXCEPT !.pc = "request", !.settings = settings]]
    BY <1>1, <1>3 DEF Cache_Begin
  <2>3. QED
    BY <1>1, <2>1, <2>2
<1>4. CASE Cache_Request(t)
  BY <1>1, <1>4 DEF Cache_Request
<1>5. CASE Cache_Copy(t)
  <2>1. [job[t] EXCEPT !.pc = "compare", !.data = raw.data] \in JobType
    BY <1>1 DEF BuffersOK
  <2>2. job' = [job EXCEPT ![t] = [job[t] EXCEPT !.pc = "compare", !.data = raw.data]]
    BY <1>1, <1>5 DEF Cache_Copy
  <2>3. QED
    BY <2>1, <2>2
<1>6. CASE Cache_Compare(t)
  BY <1>1, <1>6 DEF Cache_Compare
<1>7. CASE Cache_Insert(t)
  BY <1>1, <1>7 DEF Cache_Insert
<1>8. CASE Cache_Finished(t)
  BY <1>1, <1>8 DEF Cache_Finished
<1>9. QED
  BY <1>2, <1>3, <1>4, <1>5, <1>6, <1>7, <1>8 DEF CachingThread

\* and those of the threads.
LEMMA ThreadsStep ==
    ASSUME HandlerInv, Next
    PROVE  ThreadsOK'
<1> USE DEF HandlerInv, TypeOK, ThreadsOK
<1>1. CASE Load_Starts \/ Loader
  <2>1. loader' \in LoaderType
    BY <1>1, LoaderLemma
  <2>2. lock' \in {lock, None, "loader"} /\ job' = job
    BY <1>1 DEF Load_Starts, Loader, Load_Check, Load_HasRaw, Load_Request, Load_Copy,
       Load_Convert, Load_Set, LoaderUnchanged
  <2>3. QED
    BY <2>1, <2>2
<1>2. ASSUME NEW t \in Cacher, NEW f \in Frame,
             CachingThread(t) \/ Cache_Starts(t, f) \/ Cache_Finished(t)
      PROVE  ThreadsOK'
  <2>1. PICK j \in JobType : job' = [job EXCEPT ![t] = j]
    BY <1>2, JobLemma
  <2>2. lock' \in {lock, None, t} /\ loader' = loader
    BY <1>2 DEF CachingThread, Cache_Starts, Cache_Finished, Cache_Begin, Cache_Request,
       Cache_Copy, Cache_Compare, Cache_Insert, CacherUnchanged
  <2>3. QED
    BY <2>1, <2>2
<1>3. CASE MainUnchanged
  BY <1>3 DEF MainUnchanged
<1>4. 0 \in Frame
  BY DEF Frame
<1>5. QED
  BY <1>1, <1>2, <1>3, <1>4 DEF Next, CachingThread, ControlChanges, SizeChanges,
     Invalidate, setFrameSize, CustomSize, SignalRecache, FileChanges, Reload, ShowFrame,
     removeFrameFromCache, PlayPause, drawFrame

\* A step leaves the shared buffer to the thread that holds the mutex.
LEMMA LockStep ==
    ASSUME HandlerInv, Next
    PROVE  LockInv'
<1> USE DEF HandlerInv, TypeOK, ThreadsOK, JobType, LockInv, conf, buffers, caches,
           user, control, LoaderUnchanged, CacherUnchanged, MainUnchanged
<1>1. CASE Load_Starts
  BY <1>1, LoaderLemma DEF Load_Starts, Load_Request
<1>2. CASE Load_Check
  BY <1>2, LoaderLemma DEF Load_Check, Load_Request, Loader
<1>3. CASE Load_HasRaw
  BY <1>3, LoaderLemma DEF Load_HasRaw, Load_Request, Loader, LoaderType, Goto
<1>4. CASE Load_Request
  <2>1. loader.frame \in Frame /\ loadRawData(loader.frame)
    BY <1>4 DEF Load_Request, LoaderType, JobType
  <2>2. QED
    BY <1>4, <2>1, RawLemma DEF Load_Request, Goto
<1>5. CASE Load_Copy
  BY <1>5, LoaderLemma DEF Load_Copy, Load_Request, Loader
<1>6. CASE Load_Convert
  BY <1>6, LoaderLemma DEF Load_Convert, Load_Request, Loader
<1>7. CASE Load_Set
  BY <1>7, LoaderLemma DEF Load_Set, Load_Request, Loader
<1>8. ASSUME NEW t \in Cacher, NEW f \in Frame, Cache_Starts(t, f)
      PROVE  LockInv'
  BY <1>8 DEF Cache_Starts, NoJob
<1>9. ASSUME NEW t \in Cacher, Cache_Begin(t)
      PROVE  LockInv'
  BY <1>9 DEF Cache_Begin, NoJob, DoneJob
<1>10. ASSUME NEW t \in Cacher, Cache_Request(t)
      PROVE  LockInv'
  <2>1. job[t].frame \in Frame /\ loadRawData(job[t].frame)
    BY <1>10 DEF Cache_Request, LoaderType, JobType
  <2>2. QED
    BY <1>10, <2>1, RawLemma DEF Cache_Request
<1>11. ASSUME NEW t \in Cacher, Cache_Copy(t)
      PROVE  LockInv'
  BY <1>11 DEF Cache_Copy
<1>12. ASSUME NEW t \in Cacher, Cache_Compare(t)
      PROVE  LockInv'
  BY <1>12 DEF Cache_Compare, NoJob, DoneJob
<1>13. ASSUME NEW t \in Cacher, Cache_Insert(t)
      PROVE  LockInv'
  BY <1>13 DEF Cache_Insert, NoJob, DoneJob
<1>14. ASSUME NEW t \in Cacher, Cache_Finished(t)
      PROVE  LockInv'
  BY <1>14 DEF Cache_Finished, NoJob, removeAllFrameFromCache, Caching
<1>15. CASE setFrameSize
  BY <1>15 DEF setFrameSize
<1>16. CASE Reload
  BY <1>16 DEF Reload, invalidateAllBuffers, removeAllFrameFromCache, NoImage
<1>17. CASE Invalidate \/ CustomSize \/ SignalRecache \/ FileChanges \/ PlayPause \/
          drawFrame
  <2>1. UNCHANGED <<raw, lock, loader, job>>
    BY <1>17 DEF Invalidate, CustomSize, SignalRecache, FileChanges, PlayPause,
       drawFrame, User, removeAllFrameFromCache
  <2>2. QED
    BY <2>1
<1>18. ASSUME NEW s \in Setting, ControlChanges(s) \/ SizeChanges(s)
      PROVE  LockInv'
  <2>1. UNCHANGED <<raw, lock, loader, job>>
    BY <1>18 DEF ControlChanges, SizeChanges, User
  <2>2. QED
    BY <2>1
<1>19. ASSUME NEW f \in Frame, ShowFrame(f) \/ removeFrameFromCache(f)
      PROVE  LockInv'
  <2>1. UNCHANGED <<raw, lock, loader, job>>
    BY <1>19 DEF ShowFrame, removeFrameFromCache, User
  <2>2. QED
    BY <2>1
<1>20. QED
  BY <1>1, <1>2, <1>3, <1>4, <1>5, <1>6, <1>7, <1>8, <1>9, <1>10, <1>11, <1>12,
     <1>13, <1>14, <1>15, <1>16, <1>17, <1>18, <1>19 DEF Next, Loader, CachingThread

\* A step keeps the frames where the indices say.
LEMMA FrameStep ==
    ASSUME HandlerInv, Next
    PROVE  FrameInv'
<1> USE DEF HandlerInv, TypeOK, ThreadsOK, BuffersOK, JobType, LockInv, FrameInv,
           IndexNamesFrame, conf, buffers, caches, user, control, LoaderUnchanged,
           CacherUnchanged, MainUnchanged
<1>1. CASE Load_Starts
  BY <1>1, LoaderLemma DEF Load_Starts, Load_Convert, Load_HasRaw, Load_Copy, LoaderType, Goto
<1>2. CASE Load_Check
  BY <1>2, LoaderLemma DEF Load_Check, Load_Convert, Load_HasRaw, Load_Copy, Loader, LoaderType, Goto
<1>3. CASE Load_HasRaw
  BY <1>3 DEF Load_HasRaw, LoaderType, Goto, Frame, NoFrame
<1>4. CASE Load_Request
  <2>1. loader.frame \in Frame /\ loadRawData(loader.frame)
    BY <1>4 DEF Load_Request, LoaderType, JobType
  <2>2. QED
    BY <1>4, <2>1, RawLemma DEF Load_Request, Goto
<1>5. CASE Load_Copy
  <2>1. CASE raw.index = loader.frame
    BY <1>5, <2>1 DEF Load_Copy, LoaderType, Goto
  <2>2. CASE raw.index # loader.frame
    <3>1. AfterLoad /\ UNCHANGED <<buffers, caches, job>>
      BY <1>5, <2>2 DEF Load_Copy
    <3>2. QED
      BY <3>1, AfterLoadLemma
  <2>3. QED
    BY <2>1, <2>2
<1>6. CASE Load_Convert
  <2>1. CASE AfterLoad
    BY <1>6, <2>1, AfterLoadLemma DEF Load_Convert
  <2>2. CASE loader' = [loader EXCEPT !.pc = "set",
                        !.picture = [data |-> cur.data, settings |-> settings]]
    <3>1. [data |-> cur.data, settings |-> settings] \in Picture
      BY <1>6 DEF Load_Convert, ConfOK, Picture
    <3>2. QED
      BY <1>6, <2>2, <3>1 DEF Load_Convert, LoaderType
  <2>3. QED
    BY <1>6, <2>1, <2>2 DEF Load_Convert
<1>7. CASE Load_Set
  BY <1>7, LoaderLemma DEF Load_Set, Load_Convert, Load_HasRaw, Load_Copy, Loader, LoaderType, Goto
<1>8. ASSUME NEW t \in Cacher, NEW f \in Frame, Cache_Starts(t, f)
      PROVE  FrameInv'
  BY <1>8 DEF Cache_Starts, NoJob
<1>9. ASSUME NEW t \in Cacher, Cache_Begin(t)
      PROVE  FrameInv'
  <2>1. CASE job' = [job EXCEPT ![t] = DoneJob]
    BY <1>9, <2>1 DEF Cache_Begin, NoJob, DoneJob
  <2>2. CASE job' = [job EXCEPT ![t].pc = "request", ![t].settings = settings]
    BY <1>9, <2>2 DEF Cache_Begin, ConfOK
  <2>3. QED
    BY <1>9, <2>1, <2>2 DEF Cache_Begin
<1>10. ASSUME NEW t \in Cacher, Cache_Request(t)
      PROVE  FrameInv'
  <2>1. job[t].frame \in Frame /\ loadRawData(job[t].frame)
    BY <1>10 DEF Cache_Request, LoaderType, JobType
  <2>2. QED
    BY <1>10, <2>1, RawLemma DEF Cache_Request
<1>11. ASSUME NEW t \in Cacher, Cache_Copy(t)
      PROVE  FrameInv'
  BY <1>11 DEF Cache_Copy
<1>12. ASSUME NEW t \in Cacher, Cache_Compare(t)
      PROVE  FrameInv'
  <2>1. CASE job' = [job EXCEPT ![t] = DoneJob]
    BY <1>12, <2>1 DEF Cache_Compare, NoJob, DoneJob
  <2>2. CASE raw.index = job[t].frame /\ job' = [job EXCEPT ![t].pc = "insert"]
    BY <1>12, <2>2 DEF Cache_Compare
  <2>3. QED
    BY <1>12, <2>1, <2>2 DEF Cache_Compare
<1>13. ASSUME NEW t \in Cacher, Cache_Insert(t)
      PROVE  FrameInv'
  BY <1>13 DEF Cache_Insert, NoJob, DoneJob
<1>14. ASSUME NEW t \in Cacher, Cache_Finished(t)
      PROVE  FrameInv'
  BY <1>14 DEF Cache_Finished, NoJob, removeAllFrameFromCache, Caching
<1>15. CASE Invalidate
  BY <1>15 DEF Invalidate
<1>16. ASSUME NEW s \in Setting, SizeChanges(s)
      PROVE  FrameInv'
  BY <1>16 DEF SizeChanges, User
<1>17. CASE setFrameSize
  BY <1>17 DEF setFrameSize
<1>18. CASE CustomSize
  BY <1>18 DEF CustomSize, User
<1>19. CASE SignalRecache
  BY <1>19 DEF SignalRecache, removeAllFrameFromCache, Caching
<1>20. CASE Reload
  BY <1>20 DEF Reload, invalidateAllBuffers, removeAllFrameFromCache, NoImage
<1>21. ASSUME NEW f \in Frame, ShowFrame(f)
      PROVE  FrameInv'
  BY <1>21 DEF ShowFrame, User, activated
<1>22. ASSUME NEW f \in Frame, removeFrameFromCache(f)
      PROVE  FrameInv'
  BY <1>22 DEF removeFrameFromCache
<1>23. CASE drawFrame
  <2>1. CASE view = double.index
    BY <1>23, <2>1 DEF drawFrame
  <2>2. CASE view # double.index /\ InCache(view)
    BY <1>23, <2>2 DEF drawFrame, InCache
  <2>3. QED
    BY <1>23, <2>1, <2>2 DEF drawFrame
<1>24. CASE FileChanges \/ PlayPause
  <2>1. UNCHANGED <<buffers, caches, loader, job>>
    BY <1>24 DEF FileChanges, PlayPause, User
  <2>2. QED
    BY <2>1
<1>25. ASSUME NEW s \in Setting, ControlChanges(s)
      PROVE  FrameInv'
  <2>1. UNCHANGED <<buffers, caches, loader, job>>
    BY <1>25 DEF ControlChanges, User
  <2>2. QED
    BY <2>1
<1>26. QED
  BY <1>1, <1>2, <1>3, <1>4, <1>5, <1>6, <1>7, <1>8, <1>9, <1>10, <1>11, <1>12,
     <1>13, <1>14, <1>15, <1>16, <1>17, <1>18, <1>19, <1>20, <1>21, <1>22, <1>23,
     <1>24, <1>25 DEF Next, Loader, CachingThread

\* A step keeps jobs and cache current.
LEMMA CurrentStep ==
    ASSUME HandlerInv, Next
    PROVE  CurrentInv'
<1> USE DEF HandlerInv, TypeOK, ConfOK, ThreadsOK, BuffersOK, JobType, LockInv,
           FrameInv, CurrentInv, JobIsCurrent, CacheIsCurrent, conf, buffers,
           caches, user, control, LoaderUnchanged, CacherUnchanged, MainUnchanged
<1>1. CASE Load_Request
  <2>1. loader.frame \in Frame /\ loadRawData(loader.frame)
    BY <1>1 DEF Load_Request, LoaderType, JobType
  <2>2. QED
    BY <1>1, <2>1, RawLemma DEF Load_Request, Goto
<1>2. ASSUME NEW t \in Cacher, NEW f \in Frame, Cache_Starts(t, f)
      PROVE  CurrentInv'
  BY <1>2 DEF Cache_Starts, NoJob
<1>3. ASSUME NEW t \in Cacher, Cache_Begin(t)
      PROVE  CurrentInv'
  <2>1. CASE job' = [job EXCEPT ![t] = DoneJob]
    BY <1>3, <2>1 DEF Cache_Begin, NoJob, DoneJob
  <2>2. CASE job' = [job EXCEPT ![t].pc = "request", ![t].settings = settings]
    BY <1>3, <2>2 DEF Cache_Begin, ConfOK
  <2>3. QED
    BY <1>3, <2>1, <2>2 DEF Cache_Begin
<1>4. ASSUME NEW t \in Cacher, Cache_Request(t)
      PROVE  CurrentInv'
  <2>1. job[t].frame \in Frame /\ loadRawData(job[t].frame)
    BY <1>4 DEF Cache_Request, LoaderType, JobType
  <2>2. QED
    BY <1>4, <2>1, RawLemma DEF Cache_Request
<1>5. ASSUME NEW t \in Cacher, Cache_Copy(t)
      PROVE  CurrentInv'
  BY <1>5 DEF Cache_Copy
<1>6. ASSUME NEW t \in Cacher, Cache_Compare(t)
      PROVE  CurrentInv'
  BY <1>6 DEF Cache_Compare, NoJob, DoneJob
<1>7. ASSUME NEW t \in Cacher, Cache_Insert(t)
      PROVE  CurrentInv'
  BY <1>7 DEF Cache_Insert, NoJob, DoneJob
<1>8. ASSUME NEW t \in Cacher, Cache_Finished(t)
      PROVE  CurrentInv'
  BY <1>8 DEF Cache_Finished, NoJob, removeAllFrameFromCache, Caching
<1>9. ASSUME NEW s \in Setting, ControlChanges(s)
      PROVE  CurrentInv'
  BY <1>9 DEF ControlChanges, User
<1>10. CASE Invalidate
  BY <1>10 DEF Invalidate
<1>11. ASSUME NEW s \in Setting, SizeChanges(s)
      PROVE  CurrentInv'
  BY <1>11 DEF SizeChanges, User
<1>12. CASE setFrameSize
  BY <1>12 DEF setFrameSize
<1>13. CASE CustomSize
  BY <1>13 DEF CustomSize, User
<1>14. CASE SignalRecache
  BY <1>14 DEF SignalRecache, removeAllFrameFromCache, Caching
<1>15. CASE Reload
  BY <1>15 DEF Reload, invalidateAllBuffers, removeAllFrameFromCache, NoImage
<1>16. ASSUME NEW f \in Frame, removeFrameFromCache(f)
      PROVE  CurrentInv'
  BY <1>16 DEF removeFrameFromCache
<1>17. CASE Load_Starts \/ Load_Check \/ Load_HasRaw \/ Load_Copy \/ Load_Convert \/
          Load_Set
  <2>1. UNCHANGED <<raw.data, caches, job, settings, main, clearing>>
    BY <1>17 DEF Load_Starts, Load_Check, Load_HasRaw, Load_Copy, Load_Convert,
       Load_Set, Goto
  <2>2. QED
    BY <2>1
<1>18. CASE FileChanges \/ PlayPause \/ drawFrame
  <2>1. UNCHANGED <<raw.data, caches, job, settings, main, clearing>>
    BY <1>18 DEF FileChanges, PlayPause, drawFrame, User
  <2>2. QED
    BY <2>1
<1>19. ASSUME NEW f \in Frame, ShowFrame(f)
      PROVE  CurrentInv'
  <2>1. UNCHANGED <<raw.data, caches, job, settings, main, clearing>>
    BY <1>19 DEF ShowFrame, User
  <2>2. QED
    BY <2>1
<1>20. QED
  BY <1>1, <1>2, <1>3, <1>4, <1>5, <1>6, <1>7, <1>8, <1>9, <1>10, <1>11, <1>12,
     <1>13, <1>14, <1>15, <1>16, <1>17, <1>18, <1>19 DEF Next, Loader, CachingThread

-----------------------------------------------------------------------------
\* Every step keeps the invariant.
LEMMA NextHandler == HandlerInv /\ [Next]_vars => HandlerInv'
<1> SUFFICES ASSUME HandlerInv, [Next]_vars
             PROVE  HandlerInv'
  OBVIOUS
<1>1. CASE Next
  BY <1>1, ConfStep, BuffersStep, ThreadsStep, LockStep, FrameStep, CurrentStep
     DEF HandlerInv, TypeOK
<1>2. CASE UNCHANGED vars
  <2> USE <1>2 DEF vars, conf, buffers, caches, user, control, HandlerInv
  <2>1. TypeOK'
    BY DEF TypeOK, ConfOK, BuffersOK, ThreadsOK
  <2>2. LockInv'
    BY DEF LockInv
  <2>3. FrameInv'
    BY DEF FrameInv, IndexNamesFrame
  <2>4. CurrentInv'
    BY DEF CurrentInv, JobIsCurrent, CacheIsCurrent
  <2>5. QED
    BY <2>1, <2>2, <2>3, <2>4
<1>3. QED
  BY <1>1, <1>2

\* The invariant holds in every reachable state.
THEOREM HandlerInvariant == Spec => []HandlerInv
<1>1. QED
  BY InitHandler, NextHandler, PTL DEF Spec

\* Every variable of the handler keeps its type, whatever the numbers of frames and
\* threads and the settings the controls offer (videoHandler, videoHandlerYUV).
THEOREM HandlerTypes == Spec => []TypeOK
<1>1. HandlerInv => TypeOK
  BY DEF HandlerInv
<1>2. QED
  BY <1>1, HandlerInvariant, PTL

\* The current image, the double buffer and the raw data of the current frame are of
\* the frame their index names, though the main thread resets indices while the
\* loading and the caching threads share rawData (videoHandlerYUV::loadRawYUVData).
THEOREM IndexIsRight == Spec => []IndexNamesFrame
<1>1. HandlerInv => IndexNamesFrame
  BY DEF HandlerInv, FrameInv
<1>2. QED
  BY <1>1, HandlerInvariant, PTL

\* Nothing outdated is left in a valid cache: whatever jobs were under way when the
\* settings changed (videoHandler::cacheValid, VideoCache::itemNeedsRecache).
THEOREM CacheIsRight == Spec => []CachedPicturesCurrent
<1>1. HandlerInv => CachedPicturesCurrent
  BY DEF HandlerInv, CurrentInv, CacheIsCurrent, FrameInv, CachedPicturesCurrent,
     IsCurrent
<1>2. QED
  BY <1>1, HandlerInvariant, PTL
=============================================================================
